--------------------------- MODULE FormRecords_proofs ---------------------------
(***************************************************************************)
(* Proofs about the tables of forms, for any forms, hosts, applications    *)
(* and threads: the types and the limit of temporary forms; and, when      *)
(* requests are served one at a time, that the store knows the owners,     *)
(* that the list of temporary forms agrees with the records and that no    *)
(* host loses a form by the request of another.                            *)
(***************************************************************************)
EXTENDS FormRecords, SequenceTheorems, FiniteSetTheorems, TLAPS

--------------------------------------------------------------------------------
(* The sections a request may have ahead.  They have names, so that the    *)
(* proofs look into the sequences in the lemmas about scripts only.        *)

Add          == <<"AllotFormHostRecord", "AllotTempForm", "AllotFormRecord">>
AddList      == <<"AllotTempForm", "AllotFormRecord">>
AddRecord    == <<"AllotFormRecord">>
Join         == <<"AllotFormHostRecord", "JoinUser", "UpdateDBRecord">>
JoinRecord   == <<"JoinUser", "UpdateDBRecord">>
Save         == <<"UpdateDBRecord">>
Insert       == <<"InsertStorage">>
Replace      == <<"DeleteStorage", "InsertStorage">>
Leave        == <<"UpdateDBRecord", "DeleteFormUserUid", "DeleteHostRecord">>
InsertLeave  == <<"InsertStorage", "DeleteFormUserUid", "DeleteHostRecord">>
ReplaceLeave == <<"DeleteStorage", "InsertStorage", "DeleteFormUserUid", "DeleteHostRecord">>
LeaveRecord  == <<"DeleteFormUserUid", "DeleteHostRecord">>
HostLast     == <<"DeleteHostRecord">>
LeaveTemp    == <<"DeleteFormUserUid", "LeaveTempForm">>
LeaveLast    == <<"LeaveTempForm">>
DropTemp     == <<"DeleteTempForm", "DeleteFormRecord", "DeleteHostRecord">>
DropRecord   == <<"DeleteFormRecord", "DeleteHostRecord">>
Release      == <<"DeleteFormUserUid", "DeleteUnusedRecord", "DeleteHostRecord">>
ReleaseRest  == <<"DeleteUnusedRecord", "DeleteHostRecord">>
Remove       == <<"DeleteOwnRecord", "DeleteFormDBInfoCache", "DeleteStorage">>
Uncache      == <<"DeleteFormDBInfoCache", "DeleteStorage">>
Unstore      == <<"DeleteStorage">>
RemoveHost   == <<"DeleteOwnRecord", "DeleteFormDBInfoCache", "DeleteStorage",
                  "DeleteHostRecord">>
UncacheHost  == <<"DeleteFormDBInfoCache", "DeleteStorage", "DeleteHostRecord">>
UnstoreHost  == <<"DeleteStorage", "DeleteHostRecord">>
Cast         == <<"DeleteTempForm", "ModifyFormTempFlag", "CastUser", "UpdateDBRecord">>
CastFlag     == <<"ModifyFormTempFlag", "CastUser", "UpdateDBRecord">>
CastJoin     == <<"CastUser", "UpdateDBRecord">>

Clear      == ClearSteps
ClearRows  == <<"BatchDeleteNoHostDBForms", "GetNoHostTempForms", "BatchDeleteNoHostTempForms",
                "ClearHostData">>
ClearTemps == <<"GetNoHostTempForms", "BatchDeleteNoHostTempForms", "ClearHostData">>
ClearList  == <<"BatchDeleteNoHostTempForms", "ClearHostData">>
ClearLast  == <<"ClearHostData">>
Uninstall  == <<"DeleteFormInfoByBundleName", "CleanRemovedFormRecords",
                "CleanRemovedTempFormRecords", "CleanHostRemovedForms">>
CleanRows  == <<"CleanRemovedFormRecords", "CleanRemovedTempFormRecords",
                "CleanHostRemovedForms">>
CleanTemps == <<"CleanRemovedTempFormRecords", "CleanHostRemovedForms">>
CleanLast  == <<"CleanHostRemovedForms">>

FormScripts ==
    {Add, AddList, AddRecord, Join, JoinRecord, Save, Insert, Replace, Leave, InsertLeave,
     ReplaceLeave, LeaveRecord, HostLast, LeaveTemp, LeaveLast, DropTemp, DropRecord, Release,
     ReleaseRest, Remove, Uncache, Unstore, RemoveHost, UncacheHost, UnstoreHost, Cast, CastFlag,
     CastJoin}
TableScripts ==
    {Clear, ClearRows, ClearTemps, ClearList, ClearLast, Uninstall, CleanRows, CleanTemps,
     CleanLast}

FormCalls  == [todo : FormScripts, host : Hosts, uid : Uids, form : Forms, temp : BOOLEAN,
               row : SUBSET Uids]
TableCalls == [todo : TableScripts, uid : Uids, kind : {"cleared", "invalid", "removed"},
               valid : SUBSET Forms, noHost : SUBSET Forms, found : SUBSET Forms]

--------------------------------------------------------------------------------
(* The types, and the additions that will put a temporary form on the list. *)

Records == [temp : BOOLEAN, uids : SUBSET Uids]
Maps(K, V) == UNION {[S -> V] : S \in SUBSET K}
Has(c, step) == step \in Range(c.todo)
AddsTemp(c) == Has(c, "AllotTempForm") /\ c.temp
Adding == {t \in Threads : AddsTemp(calls[t])}
TablesTyped ==
    /\ formRecords \in Maps(Forms, Records) /\ tempForms \in SUBSET Forms
    /\ clientRecords \in Maps(Hosts, SUBSET Forms)
    /\ formDBInfos \in Maps(Forms, SUBSET Uids) /\ rdb \in Maps(Forms, SUBSET Uids)
    /\ recheck \in Maps(Uids, Hosts)
Typed ==
    /\ TablesTyped
    /\ calls \in [Threads -> {Idle} \cup FormCalls \cup TableCalls]
    /\ alive \in SUBSET Hosts /\ deaths \in SUBSET Hosts /\ orphans \in SUBSET Forms
Limited ==
    /\ IsFiniteSet(tempForms)
    /\ Cardinality(tempForms) + Cardinality(Adding) <= MAX_TEMP_FORMS + Cardinality(Threads) - 1

--------------------------------------------------------------------------------
(* Requests one at a time: what holds of the tables, and of the request    *)
(* that is being served.                                                   *)

Unheld(f) == \A h \in DOMAIN clientRecords : f \notin clientRecords[h]
HeldBy(f, S) == \A h \in DOMAIN clientRecords : f \in clientRecords[h] => h \in S
NotTemp(f) == f \notin tempForms \cup orphans /\ ~IsTemp(f)

\* The temporary forms of a host died are apart from those on the list, and no row of
\* the cache is of either.
Apart ==
    /\ orphans \cap tempForms = {}
    /\ \A f \in DOMAIN formDBInfos : NotTemp(f)
    /\ \A f \in orphans : f \in DOMAIN formRecords => formRecords[f].temp
\* A temporary form has one host, and none once that host has died.
OneHost ==
    /\ \A f \in tempForms : \A g, h \in DOMAIN clientRecords :
          f \in clientRecords[g] /\ f \in clientRecords[h] => g = h
    /\ \A f \in orphans : Unheld(f)

\* The list and the flags differ in the middle of a request only: a form is put on the
\* list before it has a record, and taken off the list before the record goes or
\* changes its flag.
Listing(c) ==
    Has(c, "AllotFormRecord") /\ ~Has(c, "AllotTempForm") /\ c.temp
Unlisting(c) ==
    /\ Has(c, "DeleteFormRecord") \/ Has(c, "ModifyFormTempFlag")
    /\ ~Has(c, "DeleteTempForm")
ListAndFlags(c) ==
    /\ \A f \in tempForms : IsTemp(f) \/ (Listing(c) /\ c.form = f)
    /\ \A f \in Forms \ tempForms : IsTemp(f) => Unheld(f) \/ (Unlisting(c) /\ c.form = f)

\* What the sections ahead rely on.
Saving(c) == Has(c, "UpdateDBRecord") /\ ~Has(c, "CastUser")
NeedsPlain(c) ==
    \/ Has(c, "AllotFormRecord") /\ ~c.temp
    \/ Has(c, "DeleteUnusedRecord") \/ Has(c, "DeleteOwnRecord")
    \/ Has(c, "UpdateDBRecord") /\ ~Has(c, "ModifyFormTempFlag")
NewForm(c) ==
    AddsTemp(c) =>
       /\ c.form \notin DOMAIN formRecords \cup DOMAIN formDBInfos \cup tempForms \cup orphans
       /\ HeldBy(c.form, IF Has(c, "AllotFormHostRecord") THEN {} ELSE {c.host})
NewRecord(c) ==
    Listing(c) => /\ c.form \notin DOMAIN formRecords \cup DOMAIN formDBInfos
                  /\ c.form \in tempForms \/ Unheld(c.form)
PlainForm(c) == NeedsPlain(c) => NotTemp(c.form)
OffTheList(c) == Unlisting(c) => c.form \notin tempForms \cup orphans
RowIsFresh(c) ==
    Saving(c) /\ c.form \in DOMAIN formRecords /\ c.form \in DOMAIN formDBInfos =>
       formRecords[c.form].uids \cap formDBInfos[c.form] \subseteq c.row \cup {c.uid}
OwnRow(c) ==
    Has(c, "DeleteFormDBInfoCache") /\ c.form \in DOMAIN formDBInfos =>
       formDBInfos[c.form] \subseteq {c.uid}
RowIsCached(c) ==
    Has(c, "InsertStorage") /\ c.form \in DOMAIN formDBInfos => formDBInfos[c.form] \subseteq c.row
NoRow(c) ==
    Has(c, "DeleteStorage") /\ ~Has(c, "InsertStorage") /\ ~Has(c, "DeleteFormDBInfoCache") =>
       c.form \notin DOMAIN formDBInfos
Guarded(c) ==
    /\ NewForm(c) /\ NewRecord(c) /\ PlainForm(c) /\ OffTheList(c)
    /\ OwnRow(c) /\ RowIsCached(c) /\ NoRow(c)
FormCallOK(c) == Guarded(c) /\ RowIsFresh(c)

TableCallOK(c) ==
    /\ Has(c, "BatchDeleteNoHostDBForms") /\ ~Has(c, "GetNoHostDBForms") =>
          /\ c.noHost \cap tempForms = {}
          /\ \A f \in c.noHost \cap DOMAIN formDBInfos : formDBInfos[f] = {}
    /\ Has(c, "CleanRemovedFormRecords") /\ ~Has(c, "DeleteFormInfoByBundleName") =>
          c.found \cap tempForms = {}

\* The store knows the owners the cache knows, or is about to.
Stored(c) ==
    \A f \in DOMAIN formDBInfos :
       \/ f \in DOMAIN rdb /\ formDBInfos[f] \subseteq rdb[f]
       \/ formDBInfos[f] = {}
       \/ Has(c, "InsertStorage") /\ c.form = f

CallOK(c) == FormCallOK(c) /\ TableCallOK(c) /\ ListAndFlags(c) /\ Stored(c)

Serial == Apart /\ OneHost /\ \A c \in {calls[t] : t \in Threads} : CallOK(c)

--------------------------------------------------------------------------------
(* Facts about scripts.                                                    *)

LEMMA RangeUnfolds ==
    ASSUME NEW S, NEW s \in Seq(S), s # <<>>
    PROVE  Range(s) = {Head(s)} \cup Range(Tail(s))
  <1>1. Tail(s) \in Seq(S) /\ Len(s) \in Nat \ {0} /\ Len(Tail(s)) = Len(s) - 1
    OBVIOUS
  <1>2. DOMAIN s = 1 .. Len(s) /\ DOMAIN Tail(s) = 1 .. Len(Tail(s))
    BY <1>1
  <1>3. ASSUME NEW i \in 1 .. Len(s) PROVE s[i] \in {Head(s)} \cup Range(Tail(s))
    <2>1. CASE i = 1
      BY <2>1
    <2>2. CASE i # 1
      <3>1. i - 1 \in 1 .. Len(Tail(s)) /\ Tail(s)[i - 1] = s[i]
        BY <1>1, <2>2
      <3> QED BY <1>2, <3>1 DEF Range
    <2> QED BY <2>1, <2>2
  <1>4. ASSUME NEW i \in 1 .. Len(Tail(s)) PROVE Tail(s)[i] \in Range(s)
    <2>1. i + 1 \in 1 .. Len(s) /\ Tail(s)[i] = s[i + 1]
      BY <1>1
    <2> QED BY <1>2, <2>1 DEF Range
  <1>5. Head(s) \in Range(s)
    <2>1. 1 \in DOMAIN s /\ Head(s) = s[1]
      BY <1>1, <1>2
    <2> QED BY <2>1 DEF Range
  <1> QED BY <1>2, <1>3, <1>4, <1>5 DEF Range

LEMMA RangeOfNone == Range(<<>>) = {}
  BY DEF Range

\* A script, its first section and the rest.
Is(s, first, rest) ==
    s \in Seq(Steps) /\ s # <<>> /\ Len(s) <= 5 /\ Head(s) = first /\ Tail(s) = rest

LEMMA Scripts ==
    /\ Is(Add, "AllotFormHostRecord", AddList) /\ Is(AddList, "AllotTempForm", AddRecord)
    /\ Is(AddRecord, "AllotFormRecord", <<>>) /\ Is(Join, "AllotFormHostRecord", JoinRecord)
    /\ Is(JoinRecord, "JoinUser", Save) /\ Is(Save, "UpdateDBRecord", <<>>)
    /\ Is(Insert, "InsertStorage", <<>>) /\ Is(Replace, "DeleteStorage", Insert)
    /\ Is(Leave, "UpdateDBRecord", LeaveRecord) /\ Is(InsertLeave, "InsertStorage", LeaveRecord)
    /\ Is(ReplaceLeave, "DeleteStorage", InsertLeave)
    /\ Is(LeaveRecord, "DeleteFormUserUid", HostLast) /\ Is(HostLast, "DeleteHostRecord", <<>>)
    /\ Is(LeaveTemp, "DeleteFormUserUid", LeaveLast) /\ Is(LeaveLast, "LeaveTempForm", <<>>)
    /\ Is(DropTemp, "DeleteTempForm", DropRecord)
    /\ Is(DropRecord, "DeleteFormRecord", HostLast)
    /\ Is(Release, "DeleteFormUserUid", ReleaseRest)
    /\ Is(ReleaseRest, "DeleteUnusedRecord", HostLast) /\ Is(Remove, "DeleteOwnRecord", Uncache)
    /\ Is(Uncache, "DeleteFormDBInfoCache", Unstore) /\ Is(Unstore, "DeleteStorage", <<>>)
    /\ Is(RemoveHost, "DeleteOwnRecord", UncacheHost)
    /\ Is(UncacheHost, "DeleteFormDBInfoCache", UnstoreHost)
    /\ Is(UnstoreHost, "DeleteStorage", HostLast) /\ Is(Cast, "DeleteTempForm", CastFlag)
    /\ Is(CastFlag, "ModifyFormTempFlag", CastJoin) /\ Is(CastJoin, "CastUser", Save)
    /\ Is(Clear, "GetNoHostDBForms", ClearRows)
    /\ Is(ClearRows, "BatchDeleteNoHostDBForms", ClearTemps)
    /\ Is(ClearTemps, "GetNoHostTempForms", ClearList)
    /\ Is(ClearList, "BatchDeleteNoHostTempForms", ClearLast)
    /\ Is(ClearLast, "ClearHostData", <<>>)
    /\ Is(Uninstall, "DeleteFormInfoByBundleName", CleanRows)
    /\ Is(CleanRows, "CleanRemovedFormRecords", CleanTemps)
    /\ Is(CleanTemps, "CleanRemovedTempFormRecords", CleanLast)
    /\ Is(CleanLast, "CleanHostRemovedForms", <<>>)
  <1>1. /\ Is(Add, "AllotFormHostRecord", AddList) /\ Is(AddList, "AllotTempForm", AddRecord)
        /\ Is(AddRecord, "AllotFormRecord", <<>>) /\ Is(Join, "AllotFormHostRecord", JoinRecord)
        /\ Is(JoinRecord, "JoinUser", Save) /\ Is(Save, "UpdateDBRecord", <<>>)
        /\ Is(Insert, "InsertStorage", <<>>)
    BY DEF Is, Steps, Add, AddList, AddRecord, Join, JoinRecord, Save, Insert
  <1>2. /\ Is(Replace, "DeleteStorage", Insert) /\ Is(Leave, "UpdateDBRecord", LeaveRecord)
        /\ Is(InsertLeave, "InsertStorage", LeaveRecord)
        /\ Is(ReplaceLeave, "DeleteStorage", InsertLeave)
        /\ Is(LeaveRecord, "DeleteFormUserUid", HostLast)
        /\ Is(HostLast, "DeleteHostRecord", <<>>)
    BY DEF Is, Steps, Replace, Insert, Leave, LeaveRecord, InsertLeave, ReplaceLeave, HostLast
  <1>3. /\ Is(LeaveTemp, "DeleteFormUserUid", LeaveLast) /\ Is(LeaveLast, "LeaveTempForm", <<>>)
        /\ Is(DropTemp, "DeleteTempForm", DropRecord)
        /\ Is(DropRecord, "DeleteFormRecord", HostLast)
        /\ Is(Release, "DeleteFormUserUid", ReleaseRest)
        /\ Is(ReleaseRest, "DeleteUnusedRecord", HostLast)
    BY DEF Is, Steps, LeaveTemp, LeaveLast, DropTemp, DropRecord, HostLast, Release, ReleaseRest
  <1>4. /\ Is(Remove, "DeleteOwnRecord", Uncache) /\ Is(Uncache, "DeleteFormDBInfoCache", Unstore)
        /\ Is(Unstore, "DeleteStorage", <<>>) /\ Is(RemoveHost, "DeleteOwnRecord", UncacheHost)
        /\ Is(UncacheHost, "DeleteFormDBInfoCache", UnstoreHost)
        /\ Is(UnstoreHost, "DeleteStorage", HostLast)
    BY DEF Is, Steps, Remove, Uncache, Unstore, RemoveHost, UncacheHost, UnstoreHost, HostLast
  <1>5. /\ Is(Cast, "DeleteTempForm", CastFlag) /\ Is(CastFlag, "ModifyFormTempFlag", CastJoin)
        /\ Is(CastJoin, "CastUser", Save)
    BY DEF Is, Steps, Cast, CastFlag, CastJoin, Save
  <1>6. /\ Is(Clear, "GetNoHostDBForms", ClearRows)
        /\ Is(ClearRows, "BatchDeleteNoHostDBForms", ClearTemps)
        /\ Is(ClearTemps, "GetNoHostTempForms", ClearList)
        /\ Is(ClearList, "BatchDeleteNoHostTempForms", ClearLast)
        /\ Is(ClearLast, "ClearHostData", <<>>)
    BY DEF Is, Steps, Clear, ClearRows, ClearTemps, ClearList, ClearLast, ClearSteps
  <1>7. /\ Is(Uninstall, "DeleteFormInfoByBundleName", CleanRows)
        /\ Is(CleanRows, "CleanRemovedFormRecords", CleanTemps)
        /\ Is(CleanTemps, "CleanRemovedTempFormRecords", CleanLast)
        /\ Is(CleanLast, "CleanHostRemovedForms", <<>>)
    BY DEF Is, Steps, Uninstall, CleanRows, CleanTemps, CleanLast
  <1> QED BY <1>1, <1>2, <1>3, <1>4, <1>5, <1>6, <1>7

LEMMA RangesUnfold == \A s, first, rest : Is(s, first, rest) => Range(s) = {first} \cup Range(rest)
  BY RangeUnfolds DEF Is

LEMMA AddRanges ==
    /\ Range(AddRecord) = {"AllotFormRecord"}
    /\ Range(AddList) = {"AllotTempForm", "AllotFormRecord"}
    /\ Range(Add) = {"AllotFormHostRecord", "AllotTempForm", "AllotFormRecord"}
  <1>1. /\ Is(AddRecord, "AllotFormRecord", <<>>) /\ Is(AddList, "AllotTempForm", AddRecord)
        /\ Is(Add, "AllotFormHostRecord", AddList)
    BY Scripts, Zenon
  <1>2. /\ Range(AddRecord) = {"AllotFormRecord"} \cup Range(<<>>)
        /\ Range(AddList) = {"AllotTempForm"} \cup Range(AddRecord)
        /\ Range(Add) = {"AllotFormHostRecord"} \cup Range(AddList)
    BY <1>1, RangesUnfold, Zenon
  <1> QED BY <1>2, RangeOfNone

LEMMA JoinRanges ==
    /\ Range(Save) = {"UpdateDBRecord"} /\ Range(JoinRecord) = {"JoinUser", "UpdateDBRecord"}
    /\ Range(Join) = {"AllotFormHostRecord", "JoinUser", "UpdateDBRecord"}
  <1>1. /\ Is(Save, "UpdateDBRecord", <<>>) /\ Is(JoinRecord, "JoinUser", Save)
        /\ Is(Join, "AllotFormHostRecord", JoinRecord)
    BY Scripts, Zenon
  <1>2. /\ Range(Save) = {"UpdateDBRecord"} \cup Range(<<>>)
        /\ Range(JoinRecord) = {"JoinUser"} \cup Range(Save)
        /\ Range(Join) = {"AllotFormHostRecord"} \cup Range(JoinRecord)
    BY <1>1, RangesUnfold, Zenon
  <1> QED BY <1>2, RangeOfNone

LEMMA SaveRanges ==
    /\ Range(Insert) = {"InsertStorage"} /\ Range(Replace) = {"DeleteStorage", "InsertStorage"}
    /\ Range(HostLast) = {"DeleteHostRecord"}
    /\ Range(LeaveRecord) = {"DeleteFormUserUid", "DeleteHostRecord"}
    /\ Range(Leave) = {"UpdateDBRecord", "DeleteFormUserUid", "DeleteHostRecord"}
    /\ Range(InsertLeave) = {"InsertStorage", "DeleteFormUserUid", "DeleteHostRecord"}
    /\ Range(ReplaceLeave) = {"DeleteStorage", "InsertStorage", "DeleteFormUserUid",
                              "DeleteHostRecord"}
  <1>1. /\ Is(Insert, "InsertStorage", <<>>) /\ Is(Replace, "DeleteStorage", Insert)
        /\ Is(HostLast, "DeleteHostRecord", <<>>)
        /\ Is(LeaveRecord, "DeleteFormUserUid", HostLast)
        /\ Is(Leave, "UpdateDBRecord", LeaveRecord)
        /\ Is(InsertLeave, "InsertStorage", LeaveRecord)
        /\ Is(ReplaceLeave, "DeleteStorage", InsertLeave)
    BY Scripts, Zenon
  <1>2. /\ Range(Insert) = {"InsertStorage"} \cup Range(<<>>)
        /\ Range(Replace) = {"DeleteStorage"} \cup Range(Insert)
        /\ Range(HostLast) = {"DeleteHostRecord"} \cup Range(<<>>)
        /\ Range(LeaveRecord) = {"DeleteFormUserUid"} \cup Range(HostLast)
        /\ Range(Leave) = {"UpdateDBRecord"} \cup Range(LeaveRecord)
        /\ Range(InsertLeave) = {"InsertStorage"} \cup Range(LeaveRecord)
        /\ Range(ReplaceLeave) = {"DeleteStorage"} \cup Range(InsertLeave)
    BY <1>1, RangesUnfold, Zenon
  <1> QED BY <1>2, RangeOfNone

LEMMA DropRanges ==
    /\ Range(LeaveLast) = {"LeaveTempForm"}
    /\ Range(LeaveTemp) = {"DeleteFormUserUid", "LeaveTempForm"}
    /\ Range(DropRecord) = {"DeleteFormRecord", "DeleteHostRecord"}
    /\ Range(DropTemp) = {"DeleteTempForm", "DeleteFormRecord", "DeleteHostRecord"}
    /\ Range(ReleaseRest) = {"DeleteUnusedRecord", "DeleteHostRecord"}
    /\ Range(Release) = {"DeleteFormUserUid", "DeleteUnusedRecord", "DeleteHostRecord"}
  <1>1. /\ Is(LeaveLast, "LeaveTempForm", <<>>) /\ Is(LeaveTemp, "DeleteFormUserUid", LeaveLast)
        /\ Is(DropRecord, "DeleteFormRecord", HostLast)
        /\ Is(DropTemp, "DeleteTempForm", DropRecord)
        /\ Is(ReleaseRest, "DeleteUnusedRecord", HostLast)
        /\ Is(Release, "DeleteFormUserUid", ReleaseRest)
    BY Scripts, Zenon
  <1>2. /\ Range(LeaveLast) = {"LeaveTempForm"} \cup Range(<<>>)
        /\ Range(LeaveTemp) = {"DeleteFormUserUid"} \cup Range(LeaveLast)
        /\ Range(DropRecord) = {"DeleteFormRecord"} \cup Range(HostLast)
        /\ Range(DropTemp) = {"DeleteTempForm"} \cup Range(DropRecord)
        /\ Range(ReleaseRest) = {"DeleteUnusedRecord"} \cup Range(HostLast)
        /\ Range(Release) = {"DeleteFormUserUid"} \cup Range(ReleaseRest)
    BY <1>1, RangesUnfold, Zenon
  <1> QED BY <1>2, RangeOfNone, SaveRanges

LEMMA RemoveRanges ==
    /\ Range(Unstore) = {"DeleteStorage"}
    /\ Range(Uncache) = {"DeleteFormDBInfoCache", "DeleteStorage"}
    /\ Range(Remove) = {"DeleteOwnRecord", "DeleteFormDBInfoCache", "DeleteStorage"}
    /\ Range(UnstoreHost) = {"DeleteStorage", "DeleteHostRecord"}
    /\ Range(UncacheHost) = {"DeleteFormDBInfoCache", "DeleteStorage", "DeleteHostRecord"}
    /\ Range(RemoveHost) = {"DeleteOwnRecord", "DeleteFormDBInfoCache", "DeleteStorage",
                            "DeleteHostRecord"}
  <1>1. /\ Is(Unstore, "DeleteStorage", <<>>) /\ Is(Uncache, "DeleteFormDBInfoCache", Unstore)
        /\ Is(Remove, "DeleteOwnRecord", Uncache) /\ Is(UnstoreHost, "DeleteStorage", HostLast)
        /\ Is(UncacheHost, "DeleteFormDBInfoCache", UnstoreHost)
        /\ Is(RemoveHost, "DeleteOwnRecord", UncacheHost)
    BY Scripts, Zenon
  <1>2. /\ Range(Unstore) = {"DeleteStorage"} \cup Range(<<>>)
        /\ Range(Uncache) = {"DeleteFormDBInfoCache"} \cup Range(Unstore)
        /\ Range(Remove) = {"DeleteOwnRecord"} \cup Range(Uncache)
        /\ Range(UnstoreHost) = {"DeleteStorage"} \cup Range(HostLast)
        /\ Range(UncacheHost) = {"DeleteFormDBInfoCache"} \cup Range(UnstoreHost)
        /\ Range(RemoveHost) = {"DeleteOwnRecord"} \cup Range(UncacheHost)
    BY <1>1, RangesUnfold, Zenon
  <1> QED BY <1>2, RangeOfNone, SaveRanges

LEMMA CastRanges ==
    /\ Range(CastJoin) = {"CastUser", "UpdateDBRecord"}
    /\ Range(CastFlag) = {"ModifyFormTempFlag", "CastUser", "UpdateDBRecord"}
    /\ Range(Cast) = {"DeleteTempForm", "ModifyFormTempFlag", "CastUser", "UpdateDBRecord"}
  <1>1. /\ Is(CastJoin, "CastUser", Save) /\ Is(CastFlag, "ModifyFormTempFlag", CastJoin)
        /\ Is(Cast, "DeleteTempForm", CastFlag)
    BY Scripts, Zenon
  <1>2. /\ Range(CastJoin) = {"CastUser"} \cup Range(Save)
        /\ Range(CastFlag) = {"ModifyFormTempFlag"} \cup Range(CastJoin)
        /\ Range(Cast) = {"DeleteTempForm"} \cup Range(CastFlag)
    BY <1>1, RangesUnfold, Zenon
  <1> QED BY <1>2, RangeOfNone, JoinRanges

LEMMA ClearRanges ==
    /\ Range(ClearLast) = {"ClearHostData"}
    /\ Range(ClearList) = {"BatchDeleteNoHostTempForms", "ClearHostData"}
    /\ Range(ClearTemps) = {"GetNoHostTempForms", "BatchDeleteNoHostTempForms", "ClearHostData"}
    /\ Range(ClearRows) = {"BatchDeleteNoHostDBForms", "GetNoHostTempForms",
                           "BatchDeleteNoHostTempForms", "ClearHostData"}
    /\ Range(Clear) = {"GetNoHostDBForms", "BatchDeleteNoHostDBForms", "GetNoHostTempForms",
                       "BatchDeleteNoHostTempForms", "ClearHostData"}
  <1>1. /\ Is(ClearLast, "ClearHostData", <<>>)
        /\ Is(ClearList, "BatchDeleteNoHostTempForms", ClearLast)
        /\ Is(ClearTemps, "GetNoHostTempForms", ClearList)
        /\ Is(ClearRows, "BatchDeleteNoHostDBForms", ClearTemps)
        /\ Is(Clear, "GetNoHostDBForms", ClearRows)
    BY Scripts, Zenon
  <1>2. /\ Range(ClearLast) = {"ClearHostData"} \cup Range(<<>>)
        /\ Range(ClearList) = {"BatchDeleteNoHostTempForms"} \cup Range(ClearLast)
        /\ Range(ClearTemps) = {"GetNoHostTempForms"} \cup Range(ClearList)
        /\ Range(ClearRows) = {"BatchDeleteNoHostDBForms"} \cup Range(ClearTemps)
        /\ Range(Clear) = {"GetNoHostDBForms"} \cup Range(ClearRows)
    BY <1>1, RangesUnfold, Zenon
  <1> QED BY <1>2, RangeOfNone

LEMMA CleanRanges ==
    /\ Range(CleanLast) = {"CleanHostRemovedForms"}
    /\ Range(CleanTemps) = {"CleanRemovedTempFormRecords", "CleanHostRemovedForms"}
    /\ Range(CleanRows) = {"CleanRemovedFormRecords", "CleanRemovedTempFormRecords",
                           "CleanHostRemovedForms"}
    /\ Range(Uninstall) = {"DeleteFormInfoByBundleName", "CleanRemovedFormRecords",
                           "CleanRemovedTempFormRecords", "CleanHostRemovedForms"}
  <1>1. /\ Is(CleanLast, "CleanHostRemovedForms", <<>>)
        /\ Is(CleanTemps, "CleanRemovedTempFormRecords", CleanLast)
        /\ Is(CleanRows, "CleanRemovedFormRecords", CleanTemps)
        /\ Is(Uninstall, "DeleteFormInfoByBundleName", CleanRows)
    BY Scripts, Zenon
  <1>2. /\ Range(CleanLast) = {"CleanHostRemovedForms"} \cup Range(<<>>)
        /\ Range(CleanTemps) = {"CleanRemovedTempFormRecords"} \cup Range(CleanLast)
        /\ Range(CleanRows) = {"CleanRemovedFormRecords"} \cup Range(CleanTemps)
        /\ Range(Uninstall) = {"DeleteFormInfoByBundleName"} \cup Range(CleanRows)
    BY <1>1, RangesUnfold, Zenon
  <1> QED BY <1>2, RangeOfNone

\* What a script of a request about a form is like, by its first section.
FormHeads ==
    {"AllotFormHostRecord", "AllotTempForm", "AllotFormRecord", "JoinUser", "UpdateDBRecord",
     "InsertStorage", "DeleteStorage", "DeleteFormUserUid", "DeleteHostRecord", "LeaveTempForm",
     "DeleteTempForm", "DeleteFormRecord", "DeleteUnusedRecord", "DeleteOwnRecord",
     "DeleteFormDBInfoCache", "ModifyFormTempFlag", "CastUser"}
FormSection(s) ==
    /\ s \in Seq(Steps) /\ s # <<>> /\ Len(s) <= 5 /\ Tail(s) \in FormScripts \cup {<<>>}
    /\ Head(s) \in FormHeads /\ Head(s) \in Range(s)
    /\ Range(Tail(s)) = Range(s) \ {Head(s)}
    /\ Head(s) = "AllotFormHostRecord" =>
           Range(s) \in {{"AllotFormHostRecord", "AllotTempForm", "AllotFormRecord"},
              {"AllotFormHostRecord", "JoinUser", "UpdateDBRecord"}}
    /\ Head(s) = "AllotTempForm" => Range(s) = {"AllotTempForm", "AllotFormRecord"}
    /\ Head(s) = "AllotFormRecord" => Range(s) = {"AllotFormRecord"}
    /\ Head(s) = "JoinUser" => Range(s) = {"JoinUser", "UpdateDBRecord"}
    /\ Head(s) = "UpdateDBRecord" => s \in {Save, Leave}
    /\ Head(s) = "UpdateDBRecord" => Range(s) \in {{"UpdateDBRecord"},
              {"UpdateDBRecord", "DeleteFormUserUid", "DeleteHostRecord"}}
    /\ Head(s) = "InsertStorage" => Range(s) \in {{"InsertStorage"},
              {"InsertStorage", "DeleteFormUserUid", "DeleteHostRecord"}}
    /\ Head(s) = "DeleteStorage" => Range(s) \in {{"DeleteStorage", "InsertStorage"},
              {"DeleteStorage", "InsertStorage", "DeleteFormUserUid", "DeleteHostRecord"},
              {"DeleteStorage"},
              {"DeleteStorage", "DeleteHostRecord"}}
    /\ Head(s) = "DeleteFormUserUid" => Range(s) \in {{"DeleteFormUserUid", "DeleteHostRecord"},
              {"DeleteFormUserUid", "LeaveTempForm"},
              {"DeleteFormUserUid", "DeleteUnusedRecord", "DeleteHostRecord"}}
    /\ Head(s) = "DeleteHostRecord" => Range(s) = {"DeleteHostRecord"}
    /\ Head(s) = "LeaveTempForm" => Range(s) = {"LeaveTempForm"}
    /\ Head(s) = "DeleteTempForm" =>
           Range(s) \in {{"DeleteTempForm", "DeleteFormRecord", "DeleteHostRecord"},
              {"DeleteTempForm", "ModifyFormTempFlag", "CastUser", "UpdateDBRecord"}}
    /\ Head(s) = "DeleteFormRecord" => Range(s) = {"DeleteFormRecord", "DeleteHostRecord"}
    /\ Head(s) = "DeleteUnusedRecord" => Range(s) = {"DeleteUnusedRecord", "DeleteHostRecord"}
    /\ Head(s) = "DeleteOwnRecord" =>
           Range(s) \in {{"DeleteOwnRecord", "DeleteFormDBInfoCache", "DeleteStorage"},
              {"DeleteOwnRecord", "DeleteFormDBInfoCache", "DeleteStorage", "DeleteHostRecord"}}
    /\ Head(s) = "DeleteFormDBInfoCache" =>
           Range(s) \in {{"DeleteFormDBInfoCache", "DeleteStorage"},
              {"DeleteFormDBInfoCache", "DeleteStorage", "DeleteHostRecord"}}
    /\ Head(s) = "ModifyFormTempFlag" =>
           Range(s) = {"ModifyFormTempFlag", "CastUser", "UpdateDBRecord"}
    /\ Head(s) = "CastUser" => s = CastJoin
    /\ Head(s) = "CastUser" => Range(s) = {"CastUser", "UpdateDBRecord"}

\* And one of a request that goes through the tables.
TableHeads ==
    {"GetNoHostDBForms", "BatchDeleteNoHostDBForms", "GetNoHostTempForms",
     "BatchDeleteNoHostTempForms", "ClearHostData", "DeleteFormInfoByBundleName",
     "CleanRemovedFormRecords", "CleanRemovedTempFormRecords", "CleanHostRemovedForms"}
TableSection(s) ==
    /\ s \in Seq(Steps) /\ s # <<>> /\ Len(s) <= 5 /\ Tail(s) \in TableScripts \cup {<<>>}
    /\ Head(s) \in TableHeads /\ Head(s) \in Range(s)
    /\ Range(Tail(s)) = Range(s) \ {Head(s)}
    /\ Head(s) = "GetNoHostDBForms" =>
           Range(s) = {"GetNoHostDBForms", "BatchDeleteNoHostDBForms", "GetNoHostTempForms",
                       "BatchDeleteNoHostTempForms", "ClearHostData"}
    /\ Head(s) = "BatchDeleteNoHostDBForms" =>
           Range(s) = {"BatchDeleteNoHostDBForms", "GetNoHostTempForms",
                       "BatchDeleteNoHostTempForms", "ClearHostData"}
    /\ Head(s) = "GetNoHostTempForms" =>
           Range(s) = {"GetNoHostTempForms", "BatchDeleteNoHostTempForms", "ClearHostData"}
    /\ Head(s) = "BatchDeleteNoHostTempForms" =>
           Range(s) = {"BatchDeleteNoHostTempForms", "ClearHostData"}
    /\ Head(s) = "ClearHostData" => Range(s) = {"ClearHostData"}
    /\ Head(s) = "DeleteFormInfoByBundleName" =>
           Range(s) = {"DeleteFormInfoByBundleName", "CleanRemovedFormRecords",
                       "CleanRemovedTempFormRecords", "CleanHostRemovedForms"}
    /\ Head(s) = "CleanRemovedFormRecords" =>
           Range(s) = {"CleanRemovedFormRecords", "CleanRemovedTempFormRecords",
                       "CleanHostRemovedForms"}
    /\ Head(s) = "CleanRemovedTempFormRecords" =>
           Range(s) = {"CleanRemovedTempFormRecords", "CleanHostRemovedForms"}
    /\ Head(s) = "CleanHostRemovedForms" => Range(s) = {"CleanHostRemovedForms"}

LEMMA FormSections == \A s \in FormScripts : FormSection(s)
  <1>1. /\ FormSection(Add) /\ FormSection(AddList) /\ FormSection(AddRecord)
    <2>1. /\ Is(Add, "AllotFormHostRecord", AddList) /\ Is(AddList, "AllotTempForm", AddRecord)
          /\ Is(AddRecord, "AllotFormRecord", <<>>)
      BY Scripts, Zenon
    <2>2. {AddList, AddRecord} \subseteq FormScripts
      BY Zenon DEF FormScripts
    <2>3. FormSection(Add)
      <3>1. /\ Range(Add) = {"AllotFormHostRecord", "AllotTempForm", "AllotFormRecord"}
            /\ Range(AddList) = {"AllotTempForm", "AllotFormRecord"}
        BY AddRanges, Zenon
      <3>2. Is(Add, "AllotFormHostRecord", AddList) /\ AddList \in FormScripts
        BY <2>1, <2>2, Zenon
      <3> QED BY <3>1, <3>2 DEF Is, FormSection, FormHeads
    <2>4. FormSection(AddList)
      <3>1. /\ Range(AddList) = {"AllotTempForm", "AllotFormRecord"}
            /\ Range(AddRecord) = {"AllotFormRecord"}
        BY AddRanges, Zenon
      <3>2. Is(AddList, "AllotTempForm", AddRecord) /\ AddRecord \in FormScripts
        BY <2>1, <2>2, Zenon
      <3> QED BY <3>1, <3>2 DEF Is, FormSection, FormHeads
    <2>5. FormSection(AddRecord)
      <3>1. /\ Range(AddRecord) = {"AllotFormRecord"} /\ Range(<<>>) = {}
        BY AddRanges, RangeOfNone, Zenon
      <3>2. Is(AddRecord, "AllotFormRecord", <<>>)
        BY <2>1, <2>2, Zenon
      <3> QED BY <3>1, <3>2 DEF Is, FormSection, FormHeads
    <2> QED BY <2>3, <2>4, <2>5
  <1>2. /\ FormSection(Join) /\ FormSection(JoinRecord) /\ FormSection(Save)
    <2>1. /\ Is(Join, "AllotFormHostRecord", JoinRecord) /\ Is(JoinRecord, "JoinUser", Save)
          /\ Is(Save, "UpdateDBRecord", <<>>)
      BY Scripts, Zenon
    <2>2. {JoinRecord, Save} \subseteq FormScripts
      BY Zenon DEF FormScripts
    <2>3. FormSection(Join)
      <3>1. /\ Range(Join) = {"AllotFormHostRecord", "JoinUser", "UpdateDBRecord"}
            /\ Range(JoinRecord) = {"JoinUser", "UpdateDBRecord"}
        BY JoinRanges, Zenon
      <3>2. Is(Join, "AllotFormHostRecord", JoinRecord) /\ JoinRecord \in FormScripts
        BY <2>1, <2>2, Zenon
      <3> QED BY <3>1, <3>2 DEF Is, FormSection, FormHeads
    <2>4. FormSection(JoinRecord)
      <3>1. /\ Range(JoinRecord) = {"JoinUser", "UpdateDBRecord"}
            /\ Range(Save) = {"UpdateDBRecord"}
        BY JoinRanges, Zenon
      <3>2. Is(JoinRecord, "JoinUser", Save) /\ Save \in FormScripts
        BY <2>1, <2>2, Zenon
      <3> QED BY <3>1, <3>2 DEF Is, FormSection, FormHeads
    <2>5. FormSection(Save)
      <3>1. /\ Range(Save) = {"UpdateDBRecord"} /\ Range(<<>>) = {}
        BY JoinRanges, RangeOfNone, Zenon
      <3>2. Is(Save, "UpdateDBRecord", <<>>)
        BY <2>1, <2>2, Zenon
      <3> QED BY <3>1, <3>2 DEF Is, FormSection, FormHeads
    <2> QED BY <2>3, <2>4, <2>5
  <1>3. /\ FormSection(Insert) /\ FormSection(Replace) /\ FormSection(HostLast)
        /\ FormSection(LeaveRecord) /\ FormSection(Leave) /\ FormSection(InsertLeave)
        /\ FormSection(ReplaceLeave)
    <2>1. /\ Is(Insert, "InsertStorage", <<>>) /\ Is(Replace, "DeleteStorage", Insert)
          /\ Is(HostLast, "DeleteHostRecord", <<>>)
          /\ Is(LeaveRecord, "DeleteFormUserUid", HostLast)
          /\ Is(Leave, "UpdateDBRecord", LeaveRecord)
          /\ Is(InsertLeave, "InsertStorage", LeaveRecord)
          /\ Is(ReplaceLeave, "DeleteStorage", InsertLeave)
      BY Scripts, Zenon
    <2>2. {HostLast, Insert, InsertLeave, LeaveRecord} \subseteq FormScripts
      BY Zenon DEF FormScripts
    <2>3. FormSection(Insert)
      <3>1. /\ Range(Insert) = {"InsertStorage"} /\ Range(<<>>) = {}
        BY RangeOfNone, SaveRanges, Zenon
      <3>2. Is(Insert, "InsertStorage", <<>>)
        BY <2>1, <2>2, Zenon
      <3> QED BY <3>1, <3>2 DEF Is, FormSection, FormHeads
    <2>4. FormSection(Replace)
      <3>1. /\ Range(Replace) = {"DeleteStorage", "InsertStorage"}
            /\ Range(Insert) = {"InsertStorage"}
        BY SaveRanges, Zenon
      <3>2. Is(Replace, "DeleteStorage", Insert) /\ Insert \in FormScripts
        BY <2>1, <2>2, Zenon
      <3> QED BY <3>1, <3>2 DEF Is, FormSection, FormHeads
    <2>5. FormSection(HostLast)
      <3>1. /\ Range(HostLast) = {"DeleteHostRecord"} /\ Range(<<>>) = {}
        BY RangeOfNone, SaveRanges, Zenon
      <3>2. Is(HostLast, "DeleteHostRecord", <<>>)
        BY <2>1, <2>2, Zenon
      <3> QED BY <3>1, <3>2 DEF Is, FormSection, FormHeads
    <2>6. FormSection(LeaveRecord)
      <3>1. /\ Range(LeaveRecord) = {"DeleteFormUserUid", "DeleteHostRecord"}
            /\ Range(HostLast) = {"DeleteHostRecord"}
        BY SaveRanges, Zenon
      <3>2. Is(LeaveRecord, "DeleteFormUserUid", HostLast) /\ HostLast \in FormScripts
        BY <2>1, <2>2, Zenon
      <3> QED BY <3>1, <3>2 DEF Is, FormSection, FormHeads
    <2>7. FormSection(Leave)
      <3>1. /\ Range(Leave) = {"UpdateDBRecord", "DeleteFormUserUid", "DeleteHostRecord"}
            /\ Range(LeaveRecord) = {"DeleteFormUserUid", "DeleteHostRecord"}
        BY SaveRanges, Zenon
      <3>2. Is(Leave, "UpdateDBRecord", LeaveRecord) /\ LeaveRecord \in FormScripts
        BY <2>1, <2>2, Zenon
      <3> QED BY <3>1, <3>2 DEF Is, FormSection, FormHeads
    <2>8. FormSection(InsertLeave)
      <3>1. /\ Range(InsertLeave) = {"InsertStorage", "DeleteFormUserUid", "DeleteHostRecord"}
            /\ Range(LeaveRecord) = {"DeleteFormUserUid", "DeleteHostRecord"}
        BY SaveRanges, Zenon
      <3>2. Is(InsertLeave, "InsertStorage", LeaveRecord) /\ LeaveRecord \in FormScripts
        BY <2>1, <2>2, Zenon
      <3> QED BY <3>1, <3>2 DEF Is, FormSection, FormHeads
    <2>9. FormSection(ReplaceLeave)
      <3>1. /\ Range(ReplaceLeave) = {"DeleteStorage", "InsertStorage", "DeleteFormUserUid",
                                      "DeleteHostRecord"}
            /\ Range(InsertLeave) = {"InsertStorage", "DeleteFormUserUid", "DeleteHostRecord"}
        BY SaveRanges, Zenon
      <3>2. Is(ReplaceLeave, "DeleteStorage", InsertLeave) /\ InsertLeave \in FormScripts
        BY <2>1, <2>2, Zenon
      <3> QED BY <3>1, <3>2 DEF Is, FormSection, FormHeads
    <2> QED BY <2>3, <2>4, <2>5, <2>6, <2>7, <2>8, <2>9
  <1>4. /\ FormSection(LeaveTemp) /\ FormSection(LeaveLast) /\ FormSection(DropTemp)
        /\ FormSection(DropRecord) /\ FormSection(Release) /\ FormSection(ReleaseRest)
    <2>1. /\ Is(LeaveTemp, "DeleteFormUserUid", LeaveLast)
          /\ Is(LeaveLast, "LeaveTempForm", <<>>) /\ Is(DropTemp, "DeleteTempForm", DropRecord)
          /\ Is(DropRecord, "DeleteFormRecord", HostLast)
          /\ Is(Release, "DeleteFormUserUid", ReleaseRest)
          /\ Is(ReleaseRest, "DeleteUnusedRecord", HostLast)
      BY Scripts, Zenon
    <2>2. {DropRecord, HostLast, LeaveLast, ReleaseRest} \subseteq FormScripts
      BY Zenon DEF FormScripts
    <2>3. FormSection(LeaveTemp)
      <3>1. /\ Range(LeaveTemp) = {"DeleteFormUserUid", "LeaveTempForm"}
            /\ Range(LeaveLast) = {"LeaveTempForm"}
        BY DropRanges, Zenon
      <3>2. Is(LeaveTemp, "DeleteFormUserUid", LeaveLast) /\ LeaveLast \in FormScripts
        BY <2>1, <2>2, Zenon
      <3> QED BY <3>1, <3>2 DEF Is, FormSection, FormHeads
    <2>4. FormSection(LeaveLast)
      <3>1. /\ Range(LeaveLast) = {"LeaveTempForm"} /\ Range(<<>>) = {}
        BY DropRanges, RangeOfNone, Zenon
      <3>2. Is(LeaveLast, "LeaveTempForm", <<>>)
        BY <2>1, <2>2, Zenon
      <3> QED BY <3>1, <3>2 DEF Is, FormSection, FormHeads
    <2>5. FormSection(DropTemp)
      <3>1. /\ Range(DropTemp) = {"DeleteTempForm", "DeleteFormRecord", "DeleteHostRecord"}
            /\ Range(DropRecord) = {"DeleteFormRecord", "DeleteHostRecord"}
        BY DropRanges, Zenon
      <3>2. Is(DropTemp, "DeleteTempForm", DropRecord) /\ DropRecord \in FormScripts
        BY <2>1, <2>2, Zenon
      <3> QED BY <3>1, <3>2 DEF Is, FormSection, FormHeads
    <2>6. FormSection(DropRecord)
      <3>1. /\ Range(DropRecord) = {"DeleteFormRecord", "DeleteHostRecord"}
            /\ Range(HostLast) = {"DeleteHostRecord"}
        BY DropRanges, SaveRanges, Zenon
      <3>2. Is(DropRecord, "DeleteFormRecord", HostLast) /\ HostLast \in FormScripts
        BY <2>1, <2>2, Zenon
      <3> QED BY <3>1, <3>2 DEF Is, FormSection, FormHeads
    <2>7. FormSection(Release)
      <3>1. /\ Range(Release) = {"DeleteFormUserUid", "DeleteUnusedRecord", "DeleteHostRecord"}
            /\ Range(ReleaseRest) = {"DeleteUnusedRecord", "DeleteHostRecord"}
        BY DropRanges, Zenon
      <3>2. Is(Release, "DeleteFormUserUid", ReleaseRest) /\ ReleaseRest \in FormScripts
        BY <2>1, <2>2, Zenon
      <3> QED BY <3>1, <3>2 DEF Is, FormSection, FormHeads
    <2>8. FormSection(ReleaseRest)
      <3>1. /\ Range(ReleaseRest) = {"DeleteUnusedRecord", "DeleteHostRecord"}
            /\ Range(HostLast) = {"DeleteHostRecord"}
        BY DropRanges, SaveRanges, Zenon
      <3>2. Is(ReleaseRest, "DeleteUnusedRecord", HostLast) /\ HostLast \in FormScripts
        BY <2>1, <2>2, Zenon
      <3> QED BY <3>1, <3>2 DEF Is, FormSection, FormHeads
    <2> QED BY <2>3, <2>4, <2>5, <2>6, <2>7, <2>8
  <1>5. /\ FormSection(Remove) /\ FormSection(Uncache) /\ FormSection(Unstore)
        /\ FormSection(RemoveHost) /\ FormSection(UncacheHost) /\ FormSection(UnstoreHost)
    <2>1. /\ Is(Remove, "DeleteOwnRecord", Uncache)
          /\ Is(Uncache, "DeleteFormDBInfoCache", Unstore) /\ Is(Unstore, "DeleteStorage", <<>>)
          /\ Is(RemoveHost, "DeleteOwnRecord", UncacheHost)
          /\ Is(UncacheHost, "DeleteFormDBInfoCache", UnstoreHost)
          /\ Is(UnstoreHost, "DeleteStorage", HostLast)
      BY Scripts, Zenon
    <2>2. {HostLast, Uncache, UncacheHost, Unstore, UnstoreHost} \subseteq FormScripts
      BY Zenon DEF FormScripts
    <2>3. FormSection(Remove)
      <3>1. /\ Range(Remove) = {"DeleteOwnRecord", "DeleteFormDBInfoCache", "DeleteStorage"}
            /\ Range(Uncache) = {"DeleteFormDBInfoCache", "DeleteStorage"}
        BY RemoveRanges, Zenon
      <3>2. Is(Remove, "DeleteOwnRecord", Uncache) /\ Uncache \in FormScripts
        BY <2>1, <2>2, Zenon
      <3> QED BY <3>1, <3>2 DEF Is, FormSection, FormHeads
    <2>4. FormSection(Uncache)
      <3>1. /\ Range(Uncache) = {"DeleteFormDBInfoCache", "DeleteStorage"}
            /\ Range(Unstore) = {"DeleteStorage"}
        BY RemoveRanges, Zenon
      <3>2. Is(Uncache, "DeleteFormDBInfoCache", Unstore) /\ Unstore \in FormScripts
        BY <2>1, <2>2, Zenon
      <3> QED BY <3>1, <3>2 DEF Is, FormSection, FormHeads
    <2>5. FormSection(Unstore)
      <3>1. /\ Range(Unstore) = {"DeleteStorage"} /\ Range(<<>>) = {}
        BY RangeOfNone, RemoveRanges, Zenon
      <3>2. Is(Unstore, "DeleteStorage", <<>>)
        BY <2>1, <2>2, Zenon
      <3> QED BY <3>1, <3>2 DEF Is, FormSection, FormHeads
    <2>6. FormSection(RemoveHost)
      <3>1. /\ Range(RemoveHost) = {"DeleteOwnRecord", "DeleteFormDBInfoCache", "DeleteStorage",
                                    "DeleteHostRecord"}
            /\ Range(UncacheHost) = {"DeleteFormDBInfoCache", "DeleteStorage", "DeleteHostRecord"}
        BY RemoveRanges, Zenon
      <3>2. Is(RemoveHost, "DeleteOwnRecord", UncacheHost) /\ UncacheHost \in FormScripts
        BY <2>1, <2>2, Zenon
      <3> QED BY <3>1, <3>2 DEF Is, FormSection, FormHeads
    <2>7. FormSection(UncacheHost)
      <3>1. /\ Range(UncacheHost) = {"DeleteFormDBInfoCache", "DeleteStorage", "DeleteHostRecord"}
            /\ Range(UnstoreHost) = {"DeleteStorage", "DeleteHostRecord"}
        BY RemoveRanges, Zenon
      <3>2. Is(UncacheHost, "DeleteFormDBInfoCache", UnstoreHost) /\ UnstoreHost \in FormScripts
        BY <2>1, <2>2, Zenon
      <3> QED BY <3>1, <3>2 DEF Is, FormSection, FormHeads
    <2>8. FormSection(UnstoreHost)
      <3>1. /\ Range(UnstoreHost) = {"DeleteStorage", "DeleteHostRecord"}
            /\ Range(HostLast) = {"DeleteHostRecord"}
        BY RemoveRanges, SaveRanges, Zenon
      <3>2. Is(UnstoreHost, "DeleteStorage", HostLast) /\ HostLast \in FormScripts
        BY <2>1, <2>2, Zenon
      <3> QED BY <3>1, <3>2 DEF Is, FormSection, FormHeads
    <2> QED BY <2>3, <2>4, <2>5, <2>6, <2>7, <2>8
  <1>6. /\ FormSection(Cast) /\ FormSection(CastFlag) /\ FormSection(CastJoin)
    <2>1. /\ Is(Cast, "DeleteTempForm", CastFlag)
          /\ Is(CastFlag, "ModifyFormTempFlag", CastJoin) /\ Is(CastJoin, "CastUser", Save)
      BY Scripts, Zenon
    <2>2. {CastFlag, CastJoin, Save} \subseteq FormScripts
      BY Zenon DEF FormScripts
    <2>3. FormSection(Cast)
      <3>1. /\ Range(Cast) = {"DeleteTempForm", "ModifyFormTempFlag", "CastUser",
                              "UpdateDBRecord"}
            /\ Range(CastFlag) = {"ModifyFormTempFlag", "CastUser", "UpdateDBRecord"}
        BY CastRanges, Zenon
      <3>2. Is(Cast, "DeleteTempForm", CastFlag) /\ CastFlag \in FormScripts
        BY <2>1, <2>2, Zenon
      <3> QED BY <3>1, <3>2 DEF Is, FormSection, FormHeads
    <2>4. FormSection(CastFlag)
      <3>1. /\ Range(CastFlag) = {"ModifyFormTempFlag", "CastUser", "UpdateDBRecord"}
            /\ Range(CastJoin) = {"CastUser", "UpdateDBRecord"}
        BY CastRanges, Zenon
      <3>2. Is(CastFlag, "ModifyFormTempFlag", CastJoin) /\ CastJoin \in FormScripts
        BY <2>1, <2>2, Zenon
      <3> QED BY <3>1, <3>2 DEF Is, FormSection, FormHeads
    <2>5. FormSection(CastJoin)
      <3>1. /\ Range(CastJoin) = {"CastUser", "UpdateDBRecord"}
            /\ Range(Save) = {"UpdateDBRecord"}
        BY CastRanges, JoinRanges, Zenon
      <3>2. Is(CastJoin, "CastUser", Save) /\ Save \in FormScripts
        BY <2>1, <2>2, Zenon
      <3> QED BY <3>1, <3>2 DEF Is, FormSection, FormHeads
    <2> QED BY <2>3, <2>4, <2>5
  <1> QED BY <1>1, <1>2, <1>3, <1>4, <1>5, <1>6, Zenon DEF FormScripts

LEMMA TableSections == \A s \in TableScripts : TableSection(s)
  <1>1. /\ TableSection(Clear) /\ TableSection(ClearRows) /\ TableSection(ClearTemps)
        /\ TableSection(ClearList) /\ TableSection(ClearLast)
    <2>1. /\ Is(Clear, "GetNoHostDBForms", ClearRows)
          /\ Is(ClearRows, "BatchDeleteNoHostDBForms", ClearTemps)
          /\ Is(ClearTemps, "GetNoHostTempForms", ClearList)
          /\ Is(ClearList, "BatchDeleteNoHostTempForms", ClearLast)
          /\ Is(ClearLast, "ClearHostData", <<>>)
      BY Scripts, Zenon
    <2>2. {ClearLast, ClearList, ClearRows, ClearTemps} \subseteq TableScripts
      BY Zenon DEF TableScripts
    <2>3. TableSection(Clear)
      <3>1. /\ Range(Clear) = {"GetNoHostDBForms", "BatchDeleteNoHostDBForms",
                               "GetNoHostTempForms", "BatchDeleteNoHostTempForms",
                               "ClearHostData"}
            /\ Range(ClearRows) = {"BatchDeleteNoHostDBForms", "GetNoHostTempForms",
                                   "BatchDeleteNoHostTempForms", "ClearHostData"}
        BY ClearRanges, Zenon
      <3>2. Is(Clear, "GetNoHostDBForms", ClearRows) /\ ClearRows \in TableScripts
        BY <2>1, <2>2, Zenon
      <3> QED BY <3>1, <3>2 DEF Is, TableSection, TableHeads
    <2>4. TableSection(ClearRows)
      <3>1. /\ Range(ClearRows) = {"BatchDeleteNoHostDBForms", "GetNoHostTempForms",
                                   "BatchDeleteNoHostTempForms", "ClearHostData"}
            /\ Range(ClearTemps) = {"GetNoHostTempForms", "BatchDeleteNoHostTempForms",
                                    "ClearHostData"}
        BY ClearRanges, Zenon
      <3>2. Is(ClearRows, "BatchDeleteNoHostDBForms", ClearTemps) /\ ClearTemps \in TableScripts
        BY <2>1, <2>2, Zenon
      <3> QED BY <3>1, <3>2 DEF Is, TableSection, TableHeads
    <2>5. TableSection(ClearTemps)
      <3>1. /\ Range(ClearTemps) = {"GetNoHostTempForms", "BatchDeleteNoHostTempForms",
                                    "ClearHostData"}
            /\ Range(ClearList) = {"BatchDeleteNoHostTempForms", "ClearHostData"}
        BY ClearRanges, Zenon
      <3>2. Is(ClearTemps, "GetNoHostTempForms", ClearList) /\ ClearList \in TableScripts
        BY <2>1, <2>2, Zenon
      <3> QED BY <3>1, <3>2 DEF Is, TableSection, TableHeads
    <2>6. TableSection(ClearList)
      <3>1. /\ Range(ClearList) = {"BatchDeleteNoHostTempForms", "ClearHostData"}
            /\ Range(ClearLast) = {"ClearHostData"}
        BY ClearRanges, Zenon
      <3>2. Is(ClearList, "BatchDeleteNoHostTempForms", ClearLast) /\ ClearLast \in TableScripts
        BY <2>1, <2>2, Zenon
      <3> QED BY <3>1, <3>2 DEF Is, TableSection, TableHeads
    <2>7. TableSection(ClearLast)
      <3>1. /\ Range(ClearLast) = {"ClearHostData"} /\ Range(<<>>) = {}
        BY ClearRanges, RangeOfNone, Zenon
      <3>2. Is(ClearLast, "ClearHostData", <<>>)
        BY <2>1, <2>2, Zenon
      <3> QED BY <3>1, <3>2 DEF Is, TableSection, TableHeads
    <2> QED BY <2>3, <2>4, <2>5, <2>6, <2>7
  <1>2. /\ TableSection(Uninstall) /\ TableSection(CleanRows) /\ TableSection(CleanTemps)
        /\ TableSection(CleanLast)
    <2>1. /\ Is(Uninstall, "DeleteFormInfoByBundleName", CleanRows)
          /\ Is(CleanRows, "CleanRemovedFormRecords", CleanTemps)
          /\ Is(CleanTemps, "CleanRemovedTempFormRecords", CleanLast)
          /\ Is(CleanLast, "CleanHostRemovedForms", <<>>)
      BY Scripts, Zenon
    <2>2. {CleanLast, CleanRows, CleanTemps} \subseteq TableScripts
      BY Zenon DEF TableScripts
    <2>3. TableSection(Uninstall)
      <3>1. /\ Range(Uninstall) = {"DeleteFormInfoByBundleName", "CleanRemovedFormRecords",
                                   "CleanRemovedTempFormRecords", "CleanHostRemovedForms"}
            /\ Range(CleanRows) = {"CleanRemovedFormRecords", "CleanRemovedTempFormRecords",
                                   "CleanHostRemovedForms"}
        BY CleanRanges, Zenon
      <3>2. Is(Uninstall, "DeleteFormInfoByBundleName", CleanRows) /\ CleanRows \in TableScripts
        BY <2>1, <2>2, Zenon
      <3> QED BY <3>1, <3>2 DEF Is, TableSection, TableHeads
    <2>4. TableSection(CleanRows)
      <3>1. /\ Range(CleanRows) = {"CleanRemovedFormRecords", "CleanRemovedTempFormRecords",
                                   "CleanHostRemovedForms"}
            /\ Range(CleanTemps) = {"CleanRemovedTempFormRecords", "CleanHostRemovedForms"}
        BY CleanRanges, Zenon
      <3>2. Is(CleanRows, "CleanRemovedFormRecords", CleanTemps) /\ CleanTemps \in TableScripts
        BY <2>1, <2>2, Zenon
      <3> QED BY <3>1, <3>2 DEF Is, TableSection, TableHeads
    <2>5. TableSection(CleanTemps)
      <3>1. /\ Range(CleanTemps) = {"CleanRemovedTempFormRecords", "CleanHostRemovedForms"}
            /\ Range(CleanLast) = {"CleanHostRemovedForms"}
        BY CleanRanges, Zenon
      <3>2. Is(CleanTemps, "CleanRemovedTempFormRecords", CleanLast) /\ CleanLast \in TableScripts
        BY <2>1, <2>2, Zenon
      <3> QED BY <3>1, <3>2 DEF Is, TableSection, TableHeads
    <2>6. TableSection(CleanLast)
      <3>1. /\ Range(CleanLast) = {"CleanHostRemovedForms"} /\ Range(<<>>) = {}
        BY CleanRanges, RangeOfNone, Zenon
      <3>2. Is(CleanLast, "CleanHostRemovedForms", <<>>)
        BY <2>1, <2>2, Zenon
      <3> QED BY <3>1, <3>2 DEF Is, TableSection, TableHeads
    <2> QED BY <2>3, <2>4, <2>5, <2>6
  <1> QED BY <1>1, <1>2, Zenon DEF TableScripts

--------------------------------------------------------------------------------
(* Facts about the tables.                                                 *)

LEMMA MapsAre ==
    ASSUME NEW K, NEW V, NEW m \in Maps(K, V)
    PROVE  /\ DOMAIN m \subseteq K /\ m = [x \in DOMAIN m |-> m[x]]
           /\ \A x \in DOMAIN m : m[x] \in V
  BY DEF Maps

LEMMA AMap ==
    ASSUME NEW K, NEW V, NEW S, S \subseteq K, NEW m \in [S -> V]
    PROVE  m \in Maps(K, V) /\ DOMAIN m = S
  <1>1. DOMAIN m = S /\ [S -> V] \in {[T -> V] : T \in SUBSET K}
    OBVIOUS
  <1> QED BY <1>1 DEF Maps

LEMMA NoMap == \A K, V : << >> \in Maps(K, V) /\ DOMAIN << >> = {}
  <1> SUFFICES ASSUME NEW K, NEW V PROVE << >> \in Maps(K, V) /\ DOMAIN << >> = {}
    OBVIOUS
  <1>1. << >> \in [{} -> V]
    OBVIOUS
  <1> QED BY <1>1, AMap

LEMMA WithoutIs ==
    ASSUME NEW K, NEW V, NEW m \in Maps(K, V), NEW S
    PROVE  /\ Without(m, S) \in Maps(K, V) /\ DOMAIN Without(m, S) = DOMAIN m \ S
           /\ \A x \in DOMAIN m \ S : Without(m, S)[x] = m[x]
  <1>1. DOMAIN m \subseteq K /\ \A x \in DOMAIN m : m[x] \in V
    BY MapsAre, Zenon
  <1>2. /\ Without(m, S) \in [DOMAIN m \ S -> V]
        /\ \A x \in DOMAIN m \ S : Without(m, S)[x] = m[x]
    BY <1>1 DEF Without, Restrict
  <1> QED BY <1>1, <1>2, AMap

LEMMA OverIs ==
    ASSUME NEW K, NEW V, NEW m \in Maps(K, V), NEW n \in Maps(K, V)
    PROVE  /\ Over(m, n) \in Maps(K, V) /\ DOMAIN Over(m, n) = DOMAIN m \cup DOMAIN n
           /\ \A x \in DOMAIN n : Over(m, n)[x] = n[x]
           /\ \A x \in DOMAIN m \ DOMAIN n : Over(m, n)[x] = m[x]
  <1>1. /\ DOMAIN m \subseteq K /\ \A x \in DOMAIN m : m[x] \in V
        /\ DOMAIN n \subseteq K /\ \A x \in DOMAIN n : n[x] \in V
    BY MapsAre, Zenon
  <1>2. /\ Over(m, n) \in [DOMAIN m \cup DOMAIN n -> V]
        /\ \A x \in DOMAIN n : Over(m, n)[x] = n[x]
        /\ \A x \in DOMAIN m \ DOMAIN n : Over(m, n)[x] = m[x]
    BY <1>1 DEF Over
  <1> QED BY <1>1, <1>2, AMap

LEMMA PutIs ==
    ASSUME NEW K, NEW V, NEW m \in Maps(K, V), NEW k \in K, NEW v \in V
    PROVE  /\ Put(m, k, v) \in Maps(K, V) /\ DOMAIN Put(m, k, v) = DOMAIN m \cup {k}
           /\ Put(m, k, v)[k] = v
           /\ \A x \in DOMAIN m \ {k} : Put(m, k, v)[x] = m[x]
  <1>1. DOMAIN m \subseteq K /\ \A x \in DOMAIN m : m[x] \in V
    BY MapsAre, Zenon
  <1>2. PICK p : p = Put(m, k, v)
    OBVIOUS
  <1>3. p = [x \in DOMAIN m \cup {k} |-> IF x = k THEN v ELSE m[x]]
    BY <1>2 DEF Put, Over
  <1>4. p \in [DOMAIN m \cup {k} -> V] /\ p[k] = v /\ \A x \in DOMAIN m \ {k} : p[x] = m[x]
    BY <1>1, <1>3
  <1>5. p \in Maps(K, V) /\ DOMAIN p = DOMAIN m \cup {k}
    BY <1>1, <1>4, AMap
  <1> QED BY <1>2, <1>4, <1>5

\* A record keeps its other fields.
LEMMA RecordUids ==
    ASSUME NEW r \in Records, NEW S \in SUBSET Uids
    PROVE  /\ [r EXCEPT !.uids = S] \in Records /\ [r EXCEPT !.uids = S].uids = S
           /\ [r EXCEPT !.uids = S].temp = r.temp
  BY DEF Records

LEMMA RecordPlain ==
    ASSUME NEW r \in Records
    PROVE  /\ [r EXCEPT !.temp = FALSE] \in Records /\ [r EXCEPT !.temp = FALSE].uids = r.uids
           /\ [r EXCEPT !.temp = FALSE].temp = FALSE
  BY DEF Records

\* The records are what they were but for their users.
SameRecords(R) ==
    /\ R \in Maps(Forms, Records) /\ DOMAIN R = DOMAIN formRecords
    /\ \A f \in DOMAIN formRecords : R[f].temp = formRecords[f].temp

\* They are, but that u is a user of form f, or of no form of F.
WithUser(R, f, u) ==
    /\ SameRecords(R)
    /\ \A g \in DOMAIN formRecords :
          R[g].uids = IF g = f THEN formRecords[f].uids \cup {u} ELSE formRecords[g].uids
WithoutUser(R, F, u) ==
    /\ SameRecords(R)
    /\ \A g \in DOMAIN formRecords :
          R[g].uids = IF g \in F THEN formRecords[g].uids \ {u} ELSE formRecords[g].uids

LEMMA AddUidIs ==
    ASSUME formRecords \in Maps(Forms, Records), NEW f, NEW u \in Uids
    PROVE  WithUser(AddUid(f, u), f, u)
  <1>1. /\ DOMAIN formRecords \subseteq Forms
        /\ formRecords = [x \in DOMAIN formRecords |-> formRecords[x]]
        /\ \A x \in DOMAIN formRecords : formRecords[x] \in Records
    BY MapsAre
  <1>2. CASE f \notin DOMAIN formRecords
    BY <1>1, <1>2 DEF AddUid, SameRecords, WithUser
  <1>3. CASE f \in DOMAIN formRecords
    <2> DEFINE U == formRecords[f].uids \cup {u}
               r == [formRecords[f] EXCEPT !.uids = U]
    <2>1. formRecords[f] \in Records /\ U \in SUBSET Uids
      BY <1>1, <1>3 DEF Records
    <2>2. AddUid(f, u) = [formRecords EXCEPT ![f] = r]
      BY <1>3 DEF AddUid
    <2> HIDE DEF U
    <2>3. r \in Records /\ r.uids = U /\ r.temp = formRecords[f].temp
      BY <2>1, RecordUids
    <2> HIDE DEF r
    <2>4. AddUid(f, u) = [x \in DOMAIN formRecords |-> IF x = f THEN r ELSE formRecords[x]]
      BY <1>1, <2>2
    <2>5. AddUid(f, u) \in [DOMAIN formRecords -> Records]
      BY <1>1, <2>3, <2>4
    <2>6. AddUid(f, u) \in Maps(Forms, Records)
      BY <1>1, <2>5, AMap
    <2> QED BY <1>1, <2>3, <2>4, <2>6 DEF SameRecords, U, WithUser
  <1> QED BY <1>2, <1>3

LEMMA DelUidIs ==
    ASSUME formRecords \in Maps(Forms, Records), NEW F, NEW u \in Uids
    PROVE  WithoutUser(DelUid(F, u), F, u)
  <1>1. /\ DOMAIN formRecords \subseteq Forms
        /\ \A x \in DOMAIN formRecords : formRecords[x] \in Records
    BY MapsAre
  <1>2. DOMAIN DelUid(F, u) = DOMAIN formRecords
    BY DEF DelUid
  <1>3. ASSUME NEW g \in DOMAIN formRecords
        PROVE  /\ DelUid(F, u)[g] \in Records /\ DelUid(F, u)[g].temp = formRecords[g].temp
               /\ DelUid(F, u)[g].uids = IF g \in F THEN formRecords[g].uids \ {u}
                                                    ELSE formRecords[g].uids
    <2> DEFINE U == formRecords[g].uids \ {u}
    <2>1. formRecords[g] \in Records /\ U \in SUBSET Uids
      BY <1>1 DEF Records
    <2>2. CASE g \in F
      <3>1. DelUid(F, u)[g] = [formRecords[g] EXCEPT !.uids = U]
        BY <2>2 DEF DelUid
      <3> HIDE DEF U
      <3>2. /\ [formRecords[g] EXCEPT !.uids = U] \in Records
            /\ [formRecords[g] EXCEPT !.uids = U].uids = U
            /\ [formRecords[g] EXCEPT !.uids = U].temp = formRecords[g].temp
        BY <2>1, RecordUids
      <3> QED BY <2>2, <3>1, <3>2 DEF U
    <2>3. CASE g \notin F
      BY <2>1, <2>3 DEF DelUid
    <2> QED BY <2>2, <2>3
  <1>4. DelUid(F, u) \in [DOMAIN formRecords -> Records]
    BY <1>1, <1>3 DEF DelUid
  <1>5. DelUid(F, u) \in Maps(Forms, Records)
    BY <1>1, <1>4, AMap
  <1> QED BY <1>2, <1>3, <1>5 DEF SameRecords, WithoutUser

--------------------------------------------------------------------------------
(* How a request goes on.                                                  *)

AnyCall == {Idle} \cup FormCalls \cup TableCalls

\* Request t goes on as d.
Turn(t, d) == calls' = [calls EXCEPT ![t] = d] /\ d \in AnyCall /\ UNCHANGED outside

SameForm(c, d) ==
    d.host = c.host /\ d.uid = c.uid /\ d.form = c.form /\ d.temp = c.temp /\ d.row = c.row
SameTables(c, d) ==
    d.uid = c.uid /\ d.kind = c.kind /\ d.valid = c.valid /\ d.noHost = c.noHost
    /\ d.found = c.found

\* d is c after section x: it returned, or has the other sections ahead.  No invariant
\* looks at DeleteHostRecord, which DeleteOwnRecord may skip.
Past(c, d, x) ==
    \/ d = Idle
    \/ /\ d \in FormCalls /\ SameForm(c, d)
       /\ \A s \in Steps \ {"DeleteHostRecord"} : Has(d, s) <=> Has(c, s) /\ s # x
PastTable(c, d, x) ==
    \/ d = Idle
    \/ /\ d \in TableCalls /\ SameTables(c, d)
       /\ Range(d.todo) = Range(c.todo) \ {x}

LEMMA FormCallIs ==
    ASSUME NEW c \in FormCalls
    PROVE  /\ c.todo \in FormScripts /\ c.host \in Hosts /\ c.uid \in Uids /\ c.form \in Forms
           /\ c.temp \in BOOLEAN /\ c.row \in SUBSET Uids
  BY DEF FormCalls

LEMMA TableCallIs ==
    ASSUME NEW c \in TableCalls
    PROVE  /\ c.todo \in TableScripts /\ c.uid \in Uids /\ c.valid \in SUBSET Forms
           /\ c.kind \in {"cleared", "invalid", "removed"}
           /\ c.noHost \in SUBSET Forms /\ c.found \in SUBSET Forms
  BY DEF TableCalls

LEMMA HeadsApart == \A x : ~(x \in FormHeads /\ x \in TableHeads)
  BY DEF FormHeads, TableHeads

LEMMA IdleIs == Idle.todo = <<>> /\ \A x : ~Has(Idle, x)
  BY RangeOfNone DEF Idle, Has

LEMMA AtForm ==
    ASSUME Typed, NEW t \in Threads, NEW x \in FormHeads, At(t, x)
    PROVE  /\ calls[t] \in FormCalls /\ FormSection(calls[t].todo)
           /\ calls[t].todo # <<>> /\ Head(calls[t].todo) = x
  <1>1. calls[t].todo # <<>> /\ Head(calls[t].todo) = x /\ calls[t] \in AnyCall
    BY DEF At, Typed, AnyCall
  <1>2. calls[t] # Idle
    BY <1>1, IdleIs
  <1>3. calls[t] \notin TableCalls
    <2> SUFFICES ASSUME calls[t] \in TableCalls PROVE FALSE
      OBVIOUS
    <2>1. TableSection(calls[t].todo)
      BY TableCallIs, TableSections
    <2>2. Head(calls[t].todo) \in TableHeads
      BY <2>1 DEF TableSection
    <2> QED BY <1>1, <2>2, HeadsApart
  <1>4. calls[t] \in FormCalls
    BY <1>1, <1>2, <1>3 DEF AnyCall
  <1>5. FormSection(calls[t].todo)
    BY <1>4, FormCallIs, FormSections
  <1> QED BY <1>1, <1>4, <1>5

LEMMA AtTable ==
    ASSUME Typed, NEW t \in Threads, NEW x \in TableHeads, At(t, x)
    PROVE  /\ calls[t] \in TableCalls /\ TableSection(calls[t].todo)
           /\ calls[t].todo # <<>> /\ Head(calls[t].todo) = x
  <1>1. calls[t].todo # <<>> /\ Head(calls[t].todo) = x /\ calls[t] \in AnyCall
    BY DEF At, Typed, AnyCall
  <1>2. calls[t] # Idle
    BY <1>1, IdleIs
  <1>3. calls[t] \notin FormCalls
    <2> SUFFICES ASSUME calls[t] \in FormCalls PROVE FALSE
      OBVIOUS
    <2>1. FormSection(calls[t].todo)
      BY FormCallIs, FormSections
    <2>2. Head(calls[t].todo) \in FormHeads
      BY <2>1 DEF FormSection
    <2> QED BY <1>1, <2>2, HeadsApart
  <1>4. calls[t] \in TableCalls
    BY <1>1, <1>2, <1>3 DEF AnyCall
  <1>5. TableSection(calls[t].todo)
    BY <1>4, TableCallIs, TableSections
  <1> QED BY <1>1, <1>4, <1>5

LEMMA FormTodo ==
    ASSUME NEW c \in FormCalls, NEW r \in FormScripts, NEW d, d = [c EXCEPT !.todo = r]
    PROVE  d \in FormCalls /\ d.todo = r /\ SameForm(c, d)
  BY DEF FormCalls, SameForm

LEMMA TableTodo ==
    ASSUME NEW c \in TableCalls, NEW r \in TableScripts, NEW d, d = [c EXCEPT !.todo = r]
    PROVE  d \in TableCalls /\ d.todo = r /\ SameTables(c, d)
  BY DEF TableCalls, SameTables

LEMMA NotEmpty ==
    /\ \A r \in FormScripts : r # <<>>
    /\ \A r \in TableScripts : r # <<>>
  <1>1. \A r \in FormScripts : r # <<>>
    BY FormSections DEF FormSection
  <1>2. \A r \in TableScripts : r # <<>>
    BY TableSections DEF TableSection
  <1> QED BY <1>1, <1>2

LEMMA GoesOn ==
    ASSUME NEW t, NEW c \in FormCalls, NEW r \in FormScripts \cup {<<>>}, GoWith(t, c, r)
    PROVE  \E d : /\ Turn(t, d)
                  /\ \/ d = Idle /\ r = <<>>
                     \/ d \in FormCalls /\ d.todo = r /\ SameForm(c, d)
  <1>1. CASE r = <<>>
    BY <1>1 DEF GoWith, Turn, AnyCall
  <1>2. CASE r # <<>>
    <2>1. PICK d : d = [c EXCEPT !.todo = r]
      OBVIOUS
    <2>2. d \in FormCalls /\ d.todo = r /\ SameForm(c, d)
      BY <1>2, <2>1, FormTodo
    <2>3. Turn(t, d)
      BY <1>2, <2>1, <2>2 DEF GoWith, Turn, AnyCall
    <2> QED BY <2>2, <2>3
  <1> QED BY <1>1, <1>2

LEMMA TableGoesOn ==
    ASSUME NEW t, NEW c \in TableCalls, NEW r \in TableScripts \cup {<<>>}, GoWith(t, c, r)
    PROVE  \E d : /\ Turn(t, d)
                  /\ \/ d = Idle /\ r = <<>>
                     \/ d \in TableCalls /\ d.todo = r /\ SameTables(c, d)
  <1>1. CASE r = <<>>
    BY <1>1 DEF GoWith, Turn, AnyCall
  <1>2. CASE r # <<>>
    <2>1. PICK d : d = [c EXCEPT !.todo = r]
      OBVIOUS
    <2>2. d \in TableCalls /\ d.todo = r /\ SameTables(c, d)
      BY <1>2, <2>1, TableTodo
    <2>3. Turn(t, d)
      BY <1>2, <2>1, <2>2 DEF GoWith, Turn, AnyCall
    <2> QED BY <2>2, <2>3
  <1> QED BY <1>1, <1>2

\* The rest of a script is a script, or nothing.
LEMMA FormRest ==
    ASSUME NEW s \in FormScripts
    PROVE  /\ Tail(s) \in FormScripts \cup {<<>>} /\ Head(s) \in FormHeads
           /\ Range(Tail(s)) = Range(s) \ {Head(s)}
  <1>1. FormSection(s)
    BY FormSections
  <1> QED BY <1>1 DEF FormSection

LEMMA TableRest ==
    ASSUME NEW s \in TableScripts
    PROVE  /\ Tail(s) \in TableScripts \cup {<<>>} /\ Head(s) \in TableHeads
           /\ Range(Tail(s)) = Range(s) \ {Head(s)}
  <1>1. TableSection(s)
    BY TableSections
  <1> QED BY <1>1 DEF TableSection

LEMMA FormGo ==
    ASSUME Typed, NEW t \in Threads, NEW x \in FormHeads, At(t, x),
           Go(t, Rest(t)) \/ Go(t, <<>>)
    PROVE  \E d : Turn(t, d) /\ Past(calls[t], d, x)
  <1>1. /\ calls[t] \in FormCalls /\ calls[t].todo \in FormScripts
        /\ Head(calls[t].todo) = x
    BY AtForm, FormCallIs
  <1>2. /\ Tail(calls[t].todo) \in FormScripts \cup {<<>>}
        /\ Range(Tail(calls[t].todo)) = Range(calls[t].todo) \ {x}
    BY <1>1, FormRest
  <1>3. CASE Go(t, Rest(t))
    <2>1. GoWith(t, calls[t], Tail(calls[t].todo))
      BY <1>3 DEF Go, Rest
    <2>2. PICK d : /\ Turn(t, d)
                   /\ \/ d = Idle /\ Tail(calls[t].todo) = <<>>
                      \/ /\ d \in FormCalls /\ d.todo = Tail(calls[t].todo)
                         /\ SameForm(calls[t], d)
      BY <1>1, <1>2, <2>1, GoesOn
    <2> QED BY <1>2, <2>2 DEF Past, Has
  <1>4. CASE Go(t, <<>>)
    <2>1. Turn(t, Idle)
      BY <1>4 DEF Go, GoWith, Turn, AnyCall
    <2> QED BY <2>1 DEF Past
  <1> QED BY <1>3, <1>4

LEMMA TableGo ==
    ASSUME Typed, NEW t \in Threads, NEW x \in TableHeads, At(t, x), Go(t, Rest(t))
    PROVE  \E d : Turn(t, d) /\ PastTable(calls[t], d, x)
  <1>1. /\ calls[t] \in TableCalls /\ calls[t].todo \in TableScripts
        /\ Head(calls[t].todo) = x
    BY AtTable, TableCallIs
  <1>2. /\ Tail(calls[t].todo) \in TableScripts \cup {<<>>}
        /\ Range(Tail(calls[t].todo)) = Range(calls[t].todo) \ {x}
    BY <1>1, TableRest
  <1>3. GoWith(t, calls[t], Tail(calls[t].todo))
    BY DEF Go, Rest
  <1>4. PICK d : /\ Turn(t, d)
                 /\ \/ d = Idle /\ Tail(calls[t].todo) = <<>>
                    \/ /\ d \in TableCalls /\ d.todo = Tail(calls[t].todo)
                       /\ SameTables(calls[t], d)
    BY <1>1, <1>2, <1>3, TableGoesOn
  <1> QED BY <1>2, <1>4 DEF PastTable, Has

\* It goes on with a copy of the request that has the same sections ahead.
LEMMA TableGoWith ==
    ASSUME Typed, NEW t \in Threads, NEW x \in TableHeads, At(t, x),
           NEW c \in TableCalls, c.todo = calls[t].todo, GoWith(t, c, Rest(t))
    PROVE  \E d : Turn(t, d) /\ PastTable(c, d, x)
  <1>1. c.todo \in TableScripts /\ Head(c.todo) = x
    BY AtTable, TableCallIs
  <1>2. /\ Tail(c.todo) \in TableScripts \cup {<<>>}
        /\ Range(Tail(c.todo)) = Range(c.todo) \ {x}
    BY <1>1, TableRest
  <1>3. GoWith(t, c, Tail(c.todo))
    BY DEF Rest
  <1>4. PICK d : /\ Turn(t, d)
                 /\ \/ d = Idle /\ Tail(c.todo) = <<>>
                    \/ d \in TableCalls /\ d.todo = Tail(c.todo) /\ SameTables(c, d)
    BY <1>2, <1>3, TableGoesOn
  <1> QED BY <1>2, <1>4 DEF PastTable, Has

LEMMA FormHas ==
    ASSUME NEW c \in FormCalls
    PROVE  \A x : Has(c, x) => x \in FormHeads
  <1>1. FormSection(c.todo)
    BY FormCallIs, FormSections
  <1>2. Range(c.todo) \subseteq FormHeads
    <2>1. Head(c.todo) \in FormHeads /\ Head(c.todo) \in Range(c.todo)
      BY <1>1 DEF FormSection
    <2> QED BY <1>1, <2>1 DEF FormSection, FormHeads
  <1> QED BY <1>2 DEF Has

LEMMA TableHas ==
    ASSUME NEW c \in TableCalls
    PROVE  \A x : Has(c, x) => x \in TableHeads
  <1>1. TableSection(c.todo)
    BY TableCallIs, TableSections
  <1>2. Range(c.todo) \subseteq TableHeads
    <2>1. Head(c.todo) \in TableHeads /\ Head(c.todo) \in Range(c.todo)
      BY <1>1 DEF TableSection
    <2> QED BY <1>1, <2>1 DEF TableSection, TableHeads
  <1> QED BY <1>2 DEF Has

LEMMA Joined ==
    /\ Insert \o <<>> = Insert /\ Replace \o <<>> = Replace /\ <<>> \o <<>> = <<>>
    /\ Insert \o LeaveRecord = InsertLeave /\ Replace \o LeaveRecord = ReplaceLeave
    /\ <<>> \o LeaveRecord = LeaveRecord
  <1>1. /\ LeaveRecord \in Seq(Steps) /\ Len(LeaveRecord) = 2
        /\ LeaveRecord[1] = "DeleteFormUserUid" /\ LeaveRecord[2] = "DeleteHostRecord"
    BY DEF LeaveRecord, Steps
  <1>2. Insert \o <<>> = Insert
    BY DEF Insert
  <1>3. Replace \o <<>> = Replace
    BY DEF Replace
  <1>4. <<>> \o <<>> = <<>>
    OBVIOUS
  <1>5. Insert \o LeaveRecord = InsertLeave
    <2>1. /\ Insert \in Seq(Steps) /\ Len(Insert) = 1 /\ Insert[1] = "InsertStorage"
          /\ InsertLeave \in Seq(Steps) /\ Len(InsertLeave) = 3
          /\ InsertLeave[1] = "InsertStorage" /\ InsertLeave[2] = "DeleteFormUserUid"
          /\ InsertLeave[3] = "DeleteHostRecord"
      BY DEF Insert, InsertLeave, Steps
    <2>2. /\ Insert \o LeaveRecord \in Seq(Steps)
          /\ Len(Insert \o LeaveRecord) = Len(Insert) + Len(LeaveRecord)
          /\ \A i \in 1 .. Len(Insert) + Len(LeaveRecord) :
                (Insert \o LeaveRecord)[i] = IF i <= Len(Insert) THEN Insert[i]
                                              ELSE LeaveRecord[i - Len(Insert)]
      BY <1>1, <2>1, ConcatProperties
    <2>3. /\ Len(Insert \o LeaveRecord) = 3
          /\ (Insert \o LeaveRecord)[1] = Insert[1]
          /\ (Insert \o LeaveRecord)[2] = LeaveRecord[1]
          /\ (Insert \o LeaveRecord)[3] = LeaveRecord[2]
      BY <1>1, <2>1, <2>2
    <2>4. \A i \in 1 .. 3 : (Insert \o LeaveRecord)[i] = InsertLeave[i]
      BY <1>1, <2>1, <2>3
    <2> QED BY <2>1, <2>2, <2>3, <2>4, SeqEqual
  <1>6. Replace \o LeaveRecord = ReplaceLeave
    <2>1. /\ Replace \in Seq(Steps) /\ Len(Replace) = 2 /\ Replace[1] = "DeleteStorage"
          /\ Replace[2] = "InsertStorage"
          /\ ReplaceLeave \in Seq(Steps) /\ Len(ReplaceLeave) = 4
          /\ ReplaceLeave[1] = "DeleteStorage" /\ ReplaceLeave[2] = "InsertStorage"
          /\ ReplaceLeave[3] = "DeleteFormUserUid" /\ ReplaceLeave[4] = "DeleteHostRecord"
      BY DEF Replace, ReplaceLeave, Steps
    <2>2. /\ Replace \o LeaveRecord \in Seq(Steps)
          /\ Len(Replace \o LeaveRecord) = Len(Replace) + Len(LeaveRecord)
          /\ \A i \in 1 .. Len(Replace) + Len(LeaveRecord) :
                (Replace \o LeaveRecord)[i] = IF i <= Len(Replace) THEN Replace[i]
                                              ELSE LeaveRecord[i - Len(Replace)]
      BY <1>1, <2>1, ConcatProperties
    <2>3. /\ Len(Replace \o LeaveRecord) = 4
          /\ (Replace \o LeaveRecord)[1] = Replace[1]
          /\ (Replace \o LeaveRecord)[2] = Replace[2]
          /\ (Replace \o LeaveRecord)[3] = LeaveRecord[1]
          /\ (Replace \o LeaveRecord)[4] = LeaveRecord[2]
      BY <1>1, <2>1, <2>2
    <2>4. \A i \in 1 .. 4 : (Replace \o LeaveRecord)[i] = ReplaceLeave[i]
      BY <1>1, <2>1, <2>3
    <2> QED BY <2>1, <2>2, <2>3, <2>4, SeqEqual
  <1>7. <<>> \o LeaveRecord = LeaveRecord
    BY DEF LeaveRecord
  <1> QED BY <1>2, <1>3, <1>4, <1>5, <1>6, <1>7

LEMMA RecordsAre ==
    ASSUME Typed, NEW f \in DOMAIN formRecords
    PROVE  /\ f \in Forms /\ formRecords[f] \in Records
           /\ formRecords[f].temp \in BOOLEAN /\ formRecords[f].uids \in SUBSET Uids
  <1>1. f \in Forms /\ formRecords[f] \in Records
    BY MapsAre DEF Typed, TablesTyped
  <1> QED BY <1>1 DEF Records

\* After saving a row: what the storage still has to do, and no other section that the
\* invariants look at.
Saved(c, d) ==
    /\ \/ Has(d, "InsertStorage")
       \/ c.form \in DOMAIN formDBInfos /\ formDBInfos[c.form] = c.row
    /\ \/ d = Idle
       \/ /\ d \in FormCalls /\ SameForm(c, d)
          /\ Range(d.todo) \subseteq {"DeleteStorage", "InsertStorage", "DeleteFormUserUid",
                                      "DeleteHostRecord"}
          /\ Has(d, "DeleteStorage") => Has(d, "InsertStorage")

LEMMA UpdateIs ==
    ASSUME Typed, NEW t \in Threads, UpdateDBRecord(t)
    PROVE  \E d : Turn(t, d) /\ Saved(calls[t], d)
  <1>1. PICK c : c = calls[t]
    OBVIOUS
  <1>2. At(t, "UpdateDBRecord") /\ "UpdateDBRecord" \in FormHeads
    BY DEF UpdateDBRecord, FormHeads
  <1>3. c \in FormCalls /\ FormSection(c.todo) /\ Head(c.todo) = "UpdateDBRecord"
    BY <1>1, <1>2, AtForm
  <1>4. c.todo \in {Save, Leave}
    BY <1>3 DEF FormSection
  <1>5. Tail(c.todo) \in {<<>>, LeaveRecord}
    <2>1. Is(Save, "UpdateDBRecord", <<>>) /\ Is(Leave, "UpdateDBRecord", LeaveRecord)
      BY Scripts, Zenon
    <2> QED BY <1>4, <2>1 DEF Is
  <1> DEFINE first == IF c.form \notin DOMAIN formDBInfos THEN Insert
                      ELSE IF formDBInfos[c.form] # c.row THEN Replace
                      ELSE <<>>
             r == first \o Tail(c.todo)
  <1>6. GoWith(t, c, r)
    BY <1>1 DEF UpdateDBRecord, Go, Rest, Insert, Replace
  <1>7. /\ first \in {<<>>, Insert, Replace}
        /\ first = <<>> => c.form \in DOMAIN formDBInfos /\ formDBInfos[c.form] = c.row
    <2>1. Insert # <<>> /\ Replace # <<>>
      BY DEF Insert, Replace
    <2> QED BY <2>1
  <1> HIDE DEF first
  <1>8. \/ first = <<>> /\ r \in {<<>>, LeaveRecord}
        \/ first = Insert /\ r \in {Insert, InsertLeave}
        \/ first = Replace /\ r \in {Replace, ReplaceLeave}
    BY <1>5, <1>7, Joined
  <1> HIDE DEF r
  <1>9. \/ first = <<>> /\ r = <<>>
        \/ first = <<>> /\ Range(r) = {"DeleteFormUserUid", "DeleteHostRecord"}
        \/ Range(r) \in {{"InsertStorage"}, {"InsertStorage", "DeleteFormUserUid",
                          "DeleteHostRecord"}, {"DeleteStorage", "InsertStorage"},
                         {"DeleteStorage", "InsertStorage", "DeleteFormUserUid",
                          "DeleteHostRecord"}}
    BY <1>8, SaveRanges
  <1>10. r \in FormScripts \cup {<<>>}
    BY <1>8, Zenon DEF FormScripts
  <1>11. PICK d : /\ Turn(t, d)
                  /\ \/ d = Idle /\ r = <<>>
                     \/ d \in FormCalls /\ d.todo = r /\ SameForm(c, d)
    BY <1>3, <1>6, <1>10, GoesOn
  <1>12. Saved(c, d)
    <2>1. CASE d = Idle /\ r = <<>>
      <3>1. ~("InsertStorage" \in Range(r))
        BY <2>1, RangeOfNone
      <3>2. first = <<>>
        BY <1>9, <2>1, <3>1
      <3> QED BY <1>7, <2>1, <3>2 DEF Saved
    <2>2. CASE d \in FormCalls /\ d.todo = r /\ SameForm(c, d)
      <3>1. r # <<>>
        BY <2>2, FormCallIs, NotEmpty
      <3> QED BY <1>7, <1>9, <2>2, <3>1 DEF Saved, Has
    <2> QED BY <1>11, <2>1, <2>2
  <1> QED BY <1>1, <1>11, <1>12

\* The record an addition leaves.
RecordOf(c) ==
    IF c.form \in DOMAIN formRecords THEN formRecords[c.form]
    ELSE [temp |-> c.temp, uids |-> {c.uid}]

\* The request has a copy of row S, and has to save it.
Copied(c, d, S) ==
    /\ d \in FormCalls /\ d.host = c.host /\ d.uid = c.uid /\ d.form = c.form
    /\ d.temp = c.temp /\ d.row = S /\ Range(d.todo) = {"UpdateDBRecord"}

LEMMA SaveIs == Save = <<"UpdateDBRecord">> /\ Save \in FormScripts /\ Save # <<>>
  <1>1. Save \in FormScripts
    BY Zenon DEF FormScripts
  <1> QED BY <1>1, NotEmpty DEF Save

LEMMA CopyIs ==
    ASSUME NEW t, NEW c \in FormCalls, NEW S \in SUBSET Uids,
           GoWith(t, [c EXCEPT !.row = S], Save)
    PROVE  \E d : Turn(t, d) /\ Copied(c, d, S)
  <1>1. PICK e : e = [c EXCEPT !.row = S]
    OBVIOUS
  <1>2. /\ e \in FormCalls /\ e.host = c.host /\ e.uid = c.uid
        /\ e.form = c.form /\ e.temp = c.temp /\ e.row = S
    BY <1>1 DEF FormCalls
  <1>3. GoWith(t, e, Save)
    BY <1>1
  <1>4. PICK d : /\ Turn(t, d)
                 /\ \/ d = Idle /\ Save = <<>>
                    \/ d \in FormCalls /\ d.todo = Save /\ SameForm(e, d)
    BY <1>2, <1>3, SaveIs, GoesOn
  <1> QED BY <1>2, <1>4, SaveIs, JoinRanges DEF Copied, SameForm

LEMMA RecordOfIs ==
    ASSUME Typed, NEW c \in FormCalls
    PROVE  /\ RecordOf(c) \in Records
           /\ c.form \in DOMAIN formRecords => RecordOf(c) = formRecords[c.form]
           /\ c.form \notin DOMAIN formRecords =>
                 RecordOf(c).temp = c.temp /\ RecordOf(c).uids = {c.uid}
  <1>1. [temp |-> c.temp, uids |-> {c.uid}] \in Records
    BY FormCallIs DEF Records
  <1> QED BY <1>1, RecordsAre DEF RecordOf

LEMMA AllotRecordIs ==
    ASSUME Typed, NEW t \in Threads, AllotFormRecord(t)
    PROVE  /\ calls[t] \in FormCalls /\ Has(calls[t], "AllotFormRecord")
           /\ ~Has(calls[t], "AllotTempForm")
           /\ formRecords' = Put(formRecords, calls[t].form, RecordOf(calls[t]))
           /\ \E d : /\ Turn(t, d)
                     /\ \/ d = Idle
                        \/ ~calls[t].temp /\ Copied(calls[t], d, RecordOf(calls[t]).uids)
  <1>1. PICK c : c = calls[t]
    OBVIOUS
  <1>2. At(t, "AllotFormRecord") /\ "AllotFormRecord" \in FormHeads
    BY DEF AllotFormRecord, FormHeads
  <1>3. c \in FormCalls /\ Range(c.todo) = {"AllotFormRecord"}
    <2>1. c \in FormCalls /\ FormSection(c.todo) /\ Head(c.todo) = "AllotFormRecord"
      BY <1>1, <1>2, AtForm
    <2> QED BY <2>1 DEF FormSection
  <1>4. RecordOf(c) \in Records /\ RecordOf(c).uids \in SUBSET Uids
    BY <1>3, RecordOfIs DEF Records
  <1>5. /\ formRecords' = Put(formRecords, c.form, RecordOf(c))
        /\ \/ GoWith(t, [c EXCEPT !.row = RecordOf(c).uids],
                     IF c.temp THEN <<>> ELSE <<"UpdateDBRecord">>)
           \/ Go(t, <<>>)
    BY <1>1 DEF AllotFormRecord, RecordOf, AcquireFails
  <1>6. ASSUME NEW e, GoWith(t, e, <<>>) PROVE Turn(t, Idle)
    BY <1>6 DEF GoWith, Turn, AnyCall
  <1>7. CASE Go(t, <<>>) \/ (c.temp /\ GoWith(t, [c EXCEPT !.row = RecordOf(c).uids], <<>>))
    <2>1. Turn(t, Idle)
      BY <1>6, <1>7 DEF Go
    <2> QED BY <1>1, <1>3, <1>5, <2>1 DEF Has
  <1>8. CASE ~c.temp /\ GoWith(t, [c EXCEPT !.row = RecordOf(c).uids], Save)
    <2>1. PICK d : Turn(t, d) /\ Copied(c, d, RecordOf(c).uids)
      BY <1>3, <1>4, <1>8, CopyIs
    <2> QED BY <1>1, <1>3, <1>5, <1>8, <2>1 DEF Has
  <1> QED BY <1>5, <1>7, <1>8, SaveIs

LEMMA CastUserIs ==
    ASSUME Typed, NEW t \in Threads, CastUser(t)
    PROVE  /\ calls[t] \in FormCalls /\ Range(calls[t].todo) = {"CastUser", "UpdateDBRecord"}
           /\ \E d : /\ Turn(t, d)
                     /\ \/ d = Idle /\ calls[t].form \notin DOMAIN formRecords
                        \/ /\ calls[t].form \in DOMAIN formRecords
                           /\ Copied(calls[t], d, formRecords[calls[t].form].uids
                                                    \cup {calls[t].uid})
  <1>1. PICK c : c = calls[t]
    OBVIOUS
  <1>2. At(t, "CastUser") /\ "CastUser" \in FormHeads
    BY DEF CastUser, FormHeads
  <1>3. c \in FormCalls /\ Range(c.todo) = {"CastUser", "UpdateDBRecord"} /\ c.uid \in Uids
    <2>1. c \in FormCalls /\ FormSection(c.todo) /\ Head(c.todo) = "CastUser"
      BY <1>1, <1>2, AtForm
    <2> QED BY <2>1, FormCallIs DEF FormSection
  <1>4. Rest(t) = Save
    <2>1. c.todo = CastJoin
      BY <1>1, <1>2, <1>3, AtForm DEF FormSection
    <2>2. Is(CastJoin, "CastUser", Save)
      BY Scripts, Zenon
    <2> QED BY <1>1, <2>1, <2>2 DEF Is, Rest
  <1>5. CASE c.form \in DOMAIN formRecords
    <2> DEFINE S == formRecords[c.form].uids \cup {c.uid}
    <2>1. S \in SUBSET Uids
      BY <1>3, <1>5, RecordsAre
    <2>2. GoWith(t, [c EXCEPT !.row = S], Save)
      BY <1>1, <1>4, <1>5 DEF CastUser
    <2> HIDE DEF S
    <2>3. PICK d : Turn(t, d) /\ Copied(c, d, S)
      BY <1>3, <2>1, <2>2, CopyIs
    <2> QED BY <1>1, <1>3, <1>5, <2>3 DEF S
  <1>6. CASE c.form \notin DOMAIN formRecords
    <2>1. Turn(t, Idle)
      BY <1>1, <1>6 DEF CastUser, Go, GoWith, Turn, AnyCall
    <2> QED BY <1>1, <1>3, <1>6, <2>1
  <1> QED BY <1>5, <1>6

LEMMA DeleteOwnIs ==
    ASSUME Typed, NEW t \in Threads, DeleteOwnRecord(t)
    PROVE  /\ calls[t] \in FormCalls /\ Has(calls[t], "DeleteOwnRecord")
           /\ \E d : Turn(t, d) /\ Past(calls[t], d, "DeleteOwnRecord")
  <1>1. At(t, "DeleteOwnRecord") /\ "DeleteOwnRecord" \in FormHeads
    BY DEF DeleteOwnRecord, FormHeads
  <1>2. /\ calls[t] \in FormCalls
        /\ Range(calls[t].todo) \in
             {{"DeleteOwnRecord", "DeleteFormDBInfoCache", "DeleteStorage"},
              {"DeleteOwnRecord", "DeleteFormDBInfoCache", "DeleteStorage", "DeleteHostRecord"}}
    <2>1. /\ calls[t] \in FormCalls /\ FormSection(calls[t].todo)
          /\ Head(calls[t].todo) = "DeleteOwnRecord"
      BY <1>1, AtForm
    <2> QED BY <2>1 DEF FormSection
  <1>3. Go(t, Rest(t)) \/ GoWith(t, calls[t], Uncache)
    BY DEF DeleteOwnRecord, Go, Uncache
  <1>4. CASE Go(t, Rest(t))
    <2>1. \E d : Turn(t, d) /\ Past(calls[t], d, "DeleteOwnRecord")
      BY <1>1, <1>4, FormGo
    <2> QED BY <1>2, <2>1 DEF Has
  <1>5. CASE GoWith(t, calls[t], Uncache)
    <2>1. Uncache \in FormScripts /\ Uncache # <<>>
      <3>1. Uncache \in FormScripts
        BY Zenon DEF FormScripts
      <3> QED BY <3>1, NotEmpty
    <2>2. PICK d : /\ Turn(t, d)
                   /\ \/ d = Idle /\ Uncache = <<>>
                      \/ d \in FormCalls /\ d.todo = Uncache /\ SameForm(calls[t], d)
      BY <1>2, <1>5, <2>1, GoesOn
    <2>3. Range(Uncache) = {"DeleteFormDBInfoCache", "DeleteStorage"}
      BY RemoveRanges, Zenon
    <2>4. Past(calls[t], d, "DeleteOwnRecord")
      BY <1>2, <2>1, <2>2, <2>3 DEF Past, Has
    <2> QED BY <1>2, <2>2, <2>4 DEF Has
  <1> QED BY <1>3, <1>4, <1>5

LEMMA LeaveTempIs ==
    ASSUME Typed, NEW t \in Threads, LeaveTempForm(t)
    PROVE  /\ calls[t] \in FormCalls
           /\ \A x : Has(calls[t], x) => x = "LeaveTempForm"
           /\ \E d : /\ Turn(t, d)
                     /\ Range(d.todo) \subseteq {"DeleteTempForm", "DeleteFormRecord",
                                                 "DeleteHostRecord"}
                     /\ Has(d, "DeleteFormRecord") => Has(d, "DeleteTempForm")
  <1>1. At(t, "LeaveTempForm") /\ "LeaveTempForm" \in FormHeads
    BY DEF LeaveTempForm, FormHeads
  <1>2. calls[t] \in FormCalls /\ Range(calls[t].todo) = {"LeaveTempForm"}
    <2>1. /\ calls[t] \in FormCalls /\ FormSection(calls[t].todo)
          /\ Head(calls[t].todo) = "LeaveTempForm"
      BY <1>1, AtForm
    <2> QED BY <2>1 DEF FormSection
  <1>3. \E r \in {HostLast, DropTemp, <<>>} : GoWith(t, calls[t], r)
    BY DEF LeaveTempForm, Go, HostLast, DropTemp
  <1>4. PICK r \in {HostLast, DropTemp, <<>>} : GoWith(t, calls[t], r)
    BY <1>3
  <1>5. r \in FormScripts \cup {<<>>}
    BY Zenon DEF FormScripts
  <1>6. PICK d : /\ Turn(t, d)
                 /\ \/ d = Idle /\ r = <<>>
                    \/ d \in FormCalls /\ d.todo = r /\ SameForm(calls[t], d)
    BY <1>2, <1>4, <1>5, GoesOn
  <1>7. d.todo = r
    BY <1>6, IdleIs
  <1>8. Range(r) \in {{"DeleteHostRecord"}, {}, {"DeleteTempForm", "DeleteFormRecord",
                                                 "DeleteHostRecord"}}
    BY SaveRanges, DropRanges, RangeOfNone
  <1> QED BY <1>2, <1>6, <1>7, <1>8 DEF Has

--------------------------------------------------------------------------------
(* The types and the limit, for any number of threads.                     *)

\* What a section does to the additions: one leaves them when it puts its form on the
\* list, and none joins.
Served(t) ==
    \E d : /\ Turn(t, d)
           /\ AddsTemp(d) => AddsTemp(calls[t])
           /\ \/ tempForms' \subseteq tempForms
              \/ /\ AddsTemp(calls[t]) /\ ~AddsTemp(d)
                 /\ tempForms' = tempForms \cup {calls[t].form}

LEMMA PastServed ==
    ASSUME NEW t \in Threads, NEW x, tempForms' \subseteq tempForms,
           \E d : Turn(t, d) /\ Past(calls[t], d, x)
    PROVE  Served(t)
  <1>1. PICK d : Turn(t, d) /\ Past(calls[t], d, x)
    OBVIOUS
  <1>2. AddsTemp(d) => AddsTemp(calls[t])
    BY <1>1, IdleIs DEF AddsTemp, Past, SameForm, Steps
  <1> QED BY <1>1, <1>2 DEF Served

LEMMA QuietServed ==
    ASSUME NEW t \in Threads, tempForms' \subseteq tempForms,
           NEW d, Turn(t, d), ~Has(d, "AllotTempForm")
    PROVE  Served(t)
  BY DEF Served, AddsTemp

LEMMA TableServed ==
    ASSUME NEW t \in Threads, NEW x, NEW c, tempForms' \subseteq tempForms,
           \E d : Turn(t, d) /\ PastTable(c, d, x)
    PROVE  Served(t)
  <1>1. PICK d : Turn(t, d) /\ PastTable(c, d, x)
    OBVIOUS
  <1>2. d = Idle \/ d \in TableCalls
    BY <1>1 DEF PastTable
  <1>3. ~Has(d, "AllotTempForm")
    BY <1>2, IdleIs, TableHas DEF TableHeads
  <1> QED BY <1>1, <1>3, QuietServed

LEMMA HeldIs ==
    ASSUME Typed, NEW h
    PROVE  /\ Held(h) \in SUBSET Forms
           /\ h \in DOMAIN clientRecords => h \in Hosts /\ clientRecords[h] = Held(h)
           /\ \A f \in Held(h) : h \in DOMAIN clientRecords /\ f \in clientRecords[h]
  <1>1. /\ DOMAIN clientRecords \subseteq Hosts
        /\ \A g \in DOMAIN clientRecords : clientRecords[g] \in SUBSET Forms
    BY MapsAre, Zenon DEF Typed, TablesTyped
  <1> QED BY <1>1 DEF Held

\* A section of a request about a form that leaves the list alone.
LEMMA FormServed ==
    ASSUME Typed, NEW t \in Threads, NEW x \in FormHeads, At(t, x),
           Go(t, Rest(t)) \/ Go(t, <<>>), tempForms' \subseteq tempForms
    PROVE  Served(t)
  <1>1. \E d : Turn(t, d) /\ Past(calls[t], d, x)
    BY FormGo
  <1> QED BY <1>1, PastServed

\* An entry put into each of the tables.
LEMMA HostPut ==
    ASSUME Typed, NEW h \in Hosts, NEW S, S \in SUBSET Forms
    PROVE  /\ Put(clientRecords, h, S) \in Maps(Hosts, SUBSET Forms)
           /\ DOMAIN Put(clientRecords, h, S) = DOMAIN clientRecords \cup {h}
           /\ Put(clientRecords, h, S)[h] = S
           /\ \A g \in DOMAIN clientRecords \ {h} :
                 Put(clientRecords, h, S)[g] = clientRecords[g]
  <1>1. PICK m : m = clientRecords
    OBVIOUS
  <1>2. m \in Maps(Hosts, SUBSET Forms)
    BY <1>1 DEF Typed, TablesTyped
  <1>3. /\ Put(m, h, S) \in Maps(Hosts, SUBSET Forms)
        /\ DOMAIN Put(m, h, S) = DOMAIN m \cup {h} /\ Put(m, h, S)[h] = S
        /\ \A g \in DOMAIN m \ {h} : Put(m, h, S)[g] = m[g]
    BY <1>2, PutIs
  <1> QED BY <1>1, <1>3

LEMMA RowPut ==
    ASSUME NEW m, m \in Maps(Forms, SUBSET Uids), NEW f \in Forms, NEW S, S \in SUBSET Uids
    PROVE  /\ Put(m, f, S) \in Maps(Forms, SUBSET Uids)
           /\ DOMAIN Put(m, f, S) = DOMAIN m \cup {f} /\ Put(m, f, S)[f] = S
           /\ \A g \in DOMAIN m \ {f} : Put(m, f, S)[g] = m[g]
  BY PutIs

LEMMA RecordPut ==
    ASSUME Typed, NEW f \in Forms, NEW r \in Records
    PROVE  /\ Put(formRecords, f, r) \in Maps(Forms, Records)
           /\ DOMAIN Put(formRecords, f, r) = DOMAIN formRecords \cup {f}
           /\ Put(formRecords, f, r)[f] = r
           /\ \A g \in DOMAIN formRecords \ {f} : Put(formRecords, f, r)[g] = formRecords[g]
  <1>1. formRecords \in Maps(Forms, Records)
    BY DEF Typed, TablesTyped
  <1> QED BY <1>1, PutIs

LEMMA RecheckPut ==
    ASSUME Typed, NEW u \in Uids, NEW h \in Hosts
    PROVE  Put(recheck, u, h) \in Maps(Uids, Hosts)
  <1>1. recheck \in Maps(Uids, Hosts)
    BY DEF Typed, TablesTyped
  <1> QED BY <1>1, PutIs, Zenon

LEMMA AllotHostTyped ==
    ASSUME Typed, NEW t \in Threads, AllotFormHostRecord(t)
    PROVE  TablesTyped' /\ Served(t)
  <1>1. PICK c : c = calls[t]
    OBVIOUS
  <1>2. /\ At(t, "AllotFormHostRecord") /\ "AllotFormHostRecord" \in FormHeads
        /\ Go(t, Rest(t)) \/ Go(t, <<>>)
    BY DEF AllotFormHostRecord, AcquireFails, FormHeads
  <1>3. c.host \in Hosts /\ Held(c.host) \cup {c.form} \in SUBSET Forms
    BY <1>1, <1>2, AtForm, FormCallIs, HeldIs
  <1>4. clientRecords' \in Maps(Hosts, SUBSET Forms)
    <2>1. clientRecords' = Put(clientRecords, c.host, Held(c.host) \cup {c.form})
      BY <1>1 DEF AllotFormHostRecord
    <2> QED BY <1>3, <2>1, HostPut
  <1>5. recheck' \in Maps(Uids, Hosts)
    BY WithoutIs DEF AllotFormHostRecord, Typed, TablesTyped
  <1>6. UNCHANGED <<formRecords, tempForms, formDBInfos, rdb>>
    BY DEF AllotFormHostRecord
  <1>7. Served(t)
    BY <1>2, <1>6, FormServed
  <1> QED BY <1>4, <1>5, <1>6, <1>7 DEF Typed, TablesTyped

LEMMA AllotTempTyped ==
    ASSUME Typed, NEW t \in Threads, AllotTempForm(t)
    PROVE  TablesTyped' /\ Served(t)
  <1>1. PICK c : c = calls[t]
    OBVIOUS
  <1>2. At(t, "AllotTempForm") /\ "AllotTempForm" \in FormHeads /\ Go(t, Rest(t))
    BY DEF AllotTempForm, FormHeads
  <1>3. c \in FormCalls /\ c.form \in Forms /\ Has(c, "AllotTempForm")
    BY <1>1, <1>2, AtForm, FormCallIs DEF FormSection, Has
  <1>4. /\ tempForms' = IF c.temp THEN tempForms \cup {c.form} ELSE tempForms
        /\ UNCHANGED <<formRecords, clientRecords, formDBInfos, rdb, recheck>>
    BY <1>1 DEF AllotTempForm
  <1>5. TablesTyped'
    BY <1>3, <1>4 DEF Typed, TablesTyped
  <1>6. PICK d : Turn(t, d) /\ Past(c, d, "AllotTempForm")
    BY <1>1, <1>2, FormGo
  <1>7. ~AddsTemp(d)
    BY <1>6, IdleIs DEF AddsTemp, Past, Steps
  <1> QED BY <1>1, <1>3, <1>4, <1>5, <1>6, <1>7 DEF Served, AddsTemp

\* The sections that change the records only.
LEMMA RecordsOnly ==
    ASSUME Typed, formRecords' \in Maps(Forms, Records),
           UNCHANGED <<tempForms, clientRecords, formDBInfos, rdb, recheck>>
    PROVE  TablesTyped'
  BY DEF Typed, TablesTyped

LEMMA AllotRecordTyped ==
    ASSUME Typed, NEW t \in Threads, AllotFormRecord(t)
    PROVE  TablesTyped' /\ Served(t)
  <1>1. PICK c : c = calls[t]
    OBVIOUS
  <1>2. /\ c \in FormCalls /\ formRecords' = Put(formRecords, c.form, RecordOf(c))
        /\ \E d : /\ Turn(t, d)
                  /\ d = Idle \/ (~c.temp /\ Copied(c, d, RecordOf(c).uids))
    BY <1>1, AllotRecordIs
  <1>3. formRecords' \in Maps(Forms, Records)
    BY <1>2, RecordOfIs, FormCallIs, RecordPut
  <1>4. UNCHANGED <<tempForms, clientRecords, formDBInfos, rdb, recheck>>
    BY DEF AllotFormRecord
  <1>5. PICK d : Turn(t, d) /\ (d = Idle \/ Copied(c, d, RecordOf(c).uids))
    BY <1>2
  <1>6. ~Has(d, "AllotTempForm")
    BY <1>5, IdleIs DEF Copied, Has
  <1>7. Served(t)
    BY <1>4, <1>5, <1>6, QuietServed
  <1> QED BY <1>3, <1>4, <1>7, RecordsOnly

LEMMA UidsTyped ==
    ASSUME Typed, NEW u \in Uids
    PROVE  /\ \A f : AddUid(f, u) \in Maps(Forms, Records)
           /\ \A F : DelUid(F, u) \in Maps(Forms, Records)
           /\ \A S : Without(formRecords, S) \in Maps(Forms, Records)
  <1>1. formRecords \in Maps(Forms, Records)
    BY DEF Typed, TablesTyped
  <1>2. \A f : AddUid(f, u) \in Maps(Forms, Records)
    BY <1>1, AddUidIs DEF SameRecords, WithUser
  <1>3. \A F : DelUid(F, u) \in Maps(Forms, Records)
    BY <1>1, DelUidIs DEF SameRecords, WithoutUser
  <1>4. \A S : Without(formRecords, S) \in Maps(Forms, Records)
    BY <1>1, WithoutIs
  <1> QED BY <1>2, <1>3, <1>4

\* A form's record when its flag is cleared.
LEMMA PlainIs ==
    ASSUME Typed, NEW f \in DOMAIN formRecords,
           formRecords' = [formRecords EXCEPT ![f].temp = FALSE]
    PROVE  /\ formRecords' \in Maps(Forms, Records) /\ DOMAIN formRecords' = DOMAIN formRecords
           /\ \A g \in DOMAIN formRecords :
                 /\ formRecords'[g].uids = formRecords[g].uids
                 /\ formRecords'[g].temp = (g # f /\ formRecords[g].temp)
  <1>1. /\ DOMAIN formRecords \subseteq Forms
        /\ formRecords = [x \in DOMAIN formRecords |-> formRecords[x]]
        /\ \A x \in DOMAIN formRecords : formRecords[x] \in Records
    BY MapsAre DEF Typed, TablesTyped
  <1> DEFINE r == [formRecords[f] EXCEPT !.temp = FALSE]
  <1>2. r \in Records /\ r.uids = formRecords[f].uids /\ r.temp = FALSE
    BY <1>1, RecordPlain
  <1>3. formRecords' = [formRecords EXCEPT ![f] = r]
    OBVIOUS
  <1> HIDE DEF r
  <1>4. formRecords' = [x \in DOMAIN formRecords |-> IF x = f THEN r ELSE formRecords[x]]
    BY <1>1, <1>3
  <1>5. formRecords' \in [DOMAIN formRecords -> Records]
    BY <1>1, <1>2, <1>4
  <1>6. formRecords' \in Maps(Forms, Records)
    BY <1>1, <1>5, AMap
  <1>7. \A g \in DOMAIN formRecords : formRecords[g].temp \in BOOLEAN
    BY <1>1 DEF Records
  <1> QED BY <1>2, <1>4, <1>6, <1>7

LEMMA RecordSectionsTyped ==
    ASSUME Typed, NEW t \in Threads,
           \/ JoinUser(t) \/ DeleteFormUserUid(t) \/ DeleteUnusedRecord(t)
           \/ DeleteFormRecord(t) \/ ModifyFormTempFlag(t)
    PROVE  TablesTyped' /\ Served(t)
  <1>1. PICK x \in FormHeads : At(t, x)
    BY DEF JoinUser, DeleteFormUserUid, DeleteUnusedRecord, DeleteFormRecord,
           ModifyFormTempFlag, FormHeads
  <1>2. /\ Go(t, Rest(t)) \/ Go(t, <<>>)
        /\ UNCHANGED <<tempForms, clientRecords, formDBInfos, rdb, recheck>>
    BY DEF JoinUser, DeleteFormUserUid, DeleteUnusedRecord, DeleteFormRecord,
           ModifyFormTempFlag
  <1>3. calls[t].uid \in Uids /\ formRecords \in Maps(Forms, Records)
    BY <1>1, AtForm, FormCallIs DEF Typed, TablesTyped
  <1>4. formRecords' \in Maps(Forms, Records)
    <2>1. \/ formRecords' = AddUid(calls[t].form, calls[t].uid)
          \/ formRecords' = DelUid({calls[t].form}, calls[t].uid)
          \/ formRecords' = Without(formRecords, {calls[t].form})
          \/ formRecords' = formRecords
          \/ /\ calls[t].form \in DOMAIN formRecords
             /\ formRecords' = [formRecords EXCEPT ![calls[t].form].temp = FALSE]
      BY DEF JoinUser, DeleteFormUserUid, DeleteUnusedRecord, DeleteFormRecord,
             ModifyFormTempFlag
    <2>2. ASSUME calls[t].form \in DOMAIN formRecords,
                 formRecords' = [formRecords EXCEPT ![calls[t].form].temp = FALSE]
          PROVE  formRecords' \in Maps(Forms, Records)
      BY <2>2, PlainIs
    <2> QED BY <1>3, <2>1, <2>2, UidsTyped
  <1> QED BY <1>1, <1>2, <1>4, RecordsOnly, FormServed

LEMMA OtherRecordSectionsTyped ==
    ASSUME Typed, NEW t \in Threads, DeleteOwnRecord(t) \/ LeaveTempForm(t) \/ CastUser(t)
    PROVE  TablesTyped' /\ Served(t)
  <1>1. UNCHANGED <<tempForms, clientRecords, formDBInfos, rdb, recheck>>
    BY DEF DeleteOwnRecord, LeaveTempForm, CastUser
  <1>2. calls[t] \in FormCalls /\ calls[t].uid \in Uids
    BY DeleteOwnIs, LeaveTempIs, CastUserIs, FormCallIs
  <1>3. formRecords' \in Maps(Forms, Records)
    <2>1. \/ formRecords' = AddUid(calls[t].form, calls[t].uid)
          \/ formRecords' = Without(formRecords, {calls[t].form})
          \/ formRecords' = formRecords
      BY DEF DeleteOwnRecord, LeaveTempForm, CastUser
    <2> QED BY <1>2, <2>1, UidsTyped DEF Typed, TablesTyped
  <1>4. CASE DeleteOwnRecord(t)
    <2>1. \E d : Turn(t, d) /\ Past(calls[t], d, "DeleteOwnRecord")
      BY <1>4, DeleteOwnIs
    <2>2. Served(t)
      BY <1>1, <2>1, PastServed
    <2> QED BY <1>1, <1>3, <2>2, RecordsOnly
  <1>5. CASE LeaveTempForm(t)
    <2>1. PICK d : /\ Turn(t, d)
                   /\ Range(d.todo) \subseteq {"DeleteTempForm", "DeleteFormRecord",
                                               "DeleteHostRecord"}
      BY <1>5, LeaveTempIs
    <2>2. Served(t)
      BY <1>1, <2>1, QuietServed DEF Has
    <2> QED BY <1>1, <1>3, <2>2, RecordsOnly
  <1>6. CASE CastUser(t)
    <2>1. PICK d, S : Turn(t, d) /\ (d = Idle \/ Copied(calls[t], d, S))
      BY <1>6, CastUserIs
    <2>2. ~Has(d, "AllotTempForm")
      BY <2>1, IdleIs DEF Copied, Has
    <2>3. Served(t)
      BY <1>1, <2>1, <2>2, QuietServed
    <2> QED BY <1>1, <1>3, <2>3, RecordsOnly
  <1> QED BY <1>4, <1>5, <1>6

\* The sections that change the cache or the rows only.
LEMMA RowsOnly ==
    ASSUME Typed, formDBInfos' \in Maps(Forms, SUBSET Uids), rdb' \in Maps(Forms, SUBSET Uids),
           UNCHANGED <<formRecords, tempForms, clientRecords, recheck>>
    PROVE  TablesTyped'
  BY DEF Typed, TablesTyped

LEMMA RowSectionsTyped ==
    ASSUME Typed, NEW t \in Threads,
           \/ UpdateDBRecord(t) \/ DeleteStorage(t) \/ InsertStorage(t)
           \/ DeleteFormDBInfoCache(t)
    PROVE  TablesTyped' /\ Served(t)
  <1>1. PICK x \in FormHeads : At(t, x)
    BY DEF UpdateDBRecord, DeleteStorage, InsertStorage, DeleteFormDBInfoCache, FormHeads
  <1>2. calls[t].form \in Forms /\ calls[t].row \in SUBSET Uids
    BY <1>1, AtForm, FormCallIs
  <1>3. /\ formDBInfos \in Maps(Forms, SUBSET Uids) /\ rdb \in Maps(Forms, SUBSET Uids)
    BY DEF Typed, TablesTyped
  <1>4. UNCHANGED <<formRecords, tempForms, clientRecords, recheck>>
    BY DEF UpdateDBRecord, DeleteStorage, InsertStorage, DeleteFormDBInfoCache
  <1>5. TablesTyped'
    <2>1. \/ formDBInfos' = Put(formDBInfos, calls[t].form, calls[t].row) /\ rdb' = rdb
          \/ rdb' = Without(rdb, {calls[t].form}) /\ formDBInfos' = formDBInfos
          \/ rdb' = Put(rdb, calls[t].form, calls[t].row) /\ formDBInfos' = formDBInfos
          \/ formDBInfos' = Without(formDBInfos, {calls[t].form}) /\ rdb' = rdb
      BY DEF UpdateDBRecord, DeleteStorage, InsertStorage, DeleteFormDBInfoCache
    <2>2. /\ Put(formDBInfos, calls[t].form, calls[t].row) \in Maps(Forms, SUBSET Uids)
          /\ Put(rdb, calls[t].form, calls[t].row) \in Maps(Forms, SUBSET Uids)
      BY <1>2, <1>3, RowPut, Zenon
    <2>3. /\ Without(formDBInfos, {calls[t].form}) \in Maps(Forms, SUBSET Uids)
          /\ Without(rdb, {calls[t].form}) \in Maps(Forms, SUBSET Uids)
      BY <1>3, WithoutIs, Zenon
    <2>4. formDBInfos' \in Maps(Forms, SUBSET Uids) /\ rdb' \in Maps(Forms, SUBSET Uids)
      BY <1>3, <2>1, <2>2, <2>3
    <2> QED BY <1>4, <2>4, RowsOnly
  <1>6. CASE UpdateDBRecord(t)
    <2>1. PICK d : Turn(t, d) /\ Saved(calls[t], d)
      BY <1>6, UpdateIs
    <2>2. ~Has(d, "AllotTempForm")
      BY <2>1, IdleIs DEF Saved, Has
    <2> QED BY <1>4, <1>5, <2>1, <2>2, QuietServed
  <1>7. CASE ~UpdateDBRecord(t)
    <2>1. Go(t, Rest(t))
      BY <1>7 DEF DeleteStorage, InsertStorage, DeleteFormDBInfoCache
    <2> QED BY <1>1, <1>4, <1>5, <2>1, FormServed
  <1> QED BY <1>6, <1>7

LEMMA DeleteTempTyped ==
    ASSUME Typed, NEW t \in Threads, DeleteTempForm(t)
    PROVE  TablesTyped' /\ Served(t)
  <1>1. At(t, "DeleteTempForm") /\ "DeleteTempForm" \in FormHeads
    BY DEF DeleteTempForm, FormHeads
  <1>2. /\ Go(t, Rest(t)) \/ Go(t, <<>>)
        /\ tempForms' = tempForms \ {calls[t].form}
        /\ UNCHANGED <<formRecords, clientRecords, formDBInfos, rdb, recheck>>
    BY DEF DeleteTempForm
  <1>3. Served(t)
    BY <1>1, <1>2, FormServed
  <1> QED BY <1>2, <1>3 DEF Typed, TablesTyped

LEMMA DeleteHostTyped ==
    ASSUME Typed, NEW t \in Threads, DeleteHostRecord(t)
    PROVE  TablesTyped' /\ Served(t)
  <1>1. PICK c : c = calls[t]
    OBVIOUS
  <1>2. /\ At(t, "DeleteHostRecord") /\ "DeleteHostRecord" \in FormHeads /\ Go(t, Rest(t))
        /\ UNCHANGED <<formRecords, tempForms, formDBInfos, rdb>>
    BY DEF DeleteHostRecord, FormHeads
  <1>3. c.host \in Hosts /\ c.uid \in Uids /\ Held(c.host) \ {c.form} \in SUBSET Forms
    BY <1>1, <1>2, AtForm, FormCallIs, HeldIs
  <1>4. clientRecords \in Maps(Hosts, SUBSET Forms) /\ recheck \in Maps(Uids, Hosts)
    BY DEF Typed, TablesTyped
  <1>5. clientRecords' \in Maps(Hosts, SUBSET Forms)
    <2>1. \/ clientRecords' = Put(clientRecords, c.host, Held(c.host) \ {c.form})
          \/ clientRecords' = clientRecords
      BY <1>1 DEF DeleteHostRecord
    <2>2. Put(clientRecords, c.host, Held(c.host) \ {c.form}) \in Maps(Hosts, SUBSET Forms)
      BY <1>3, HostPut, Zenon
    <2> QED BY <1>4, <2>1, <2>2
  <1>6. recheck' \in Maps(Uids, Hosts)
    <2>1. recheck' = Put(recheck, c.uid, c.host) \/ recheck' = recheck
      BY <1>1 DEF DeleteHostRecord
    <2> QED BY <1>3, <1>4, <2>1, RecheckPut
  <1>7. Served(t)
    BY <1>2, FormServed
  <1> QED BY <1>2, <1>5, <1>6, <1>7 DEF Typed, TablesTyped

--------------------------------------------------------------------------------
(* The sections that go through a table.                                   *)

Mine(c) == {f \in DOMAIN formDBInfos : c.uid \in formDBInfos[f] /\ f \notin c.valid}
Emptied(c) == {f \in Mine(c) : formDBInfos[f] = {c.uid}}
MineTemp(c) ==
    {f \in DOMAIN formRecords : IsTemp(f) /\ c.uid \in formRecords[f].uids /\ f \notin c.valid}

\* The cache when the forms of F have lost owner u.
Disowned(F, u) == [f \in DOMAIN formDBInfos |-> IF f \in F THEN formDBInfos[f] \ {u}
                                                           ELSE formDBInfos[f]]

LEMMA DisownedIs ==
    ASSUME Typed, NEW F, NEW u
    PROVE  /\ Disowned(F, u) \in Maps(Forms, SUBSET Uids)
           /\ DOMAIN Disowned(F, u) = DOMAIN formDBInfos
           /\ \A f \in DOMAIN formDBInfos : Disowned(F, u)[f] \subseteq formDBInfos[f]
           /\ \A f \in DOMAIN formDBInfos : formDBInfos[f] \ {u} \subseteq Disowned(F, u)[f]
           /\ \A f \in DOMAIN formDBInfos \cap F : Disowned(F, u)[f] = formDBInfos[f] \ {u}
  <1>1. /\ DOMAIN formDBInfos \subseteq Forms
        /\ \A f \in DOMAIN formDBInfos : formDBInfos[f] \in SUBSET Uids
    BY MapsAre DEF Typed, TablesTyped
  <1>2. Disowned(F, u) \in [DOMAIN formDBInfos -> SUBSET Uids]
    BY <1>1 DEF Disowned
  <1>3. Disowned(F, u) \in Maps(Forms, SUBSET Uids)
    BY <1>1, <1>2, AMap
  <1> QED BY <1>3 DEF Disowned

LEMMA GetDBIs ==
    ASSUME Typed, NEW t \in Threads, GetNoHostDBForms(t)
    PROVE  /\ calls[t] \in TableCalls
           /\ formDBInfos' = Disowned(Mine(calls[t]), calls[t].uid)
           /\ formRecords' = DelUid(Mine(calls[t]) \ Emptied(calls[t]), calls[t].uid)
           /\ \E c, d : /\ c \in TableCalls /\ c.noHost = Emptied(calls[t])
                        /\ c.todo = calls[t].todo
                        /\ Turn(t, d) /\ PastTable(c, d, "GetNoHostDBForms")
  <1>1. At(t, "GetNoHostDBForms") /\ "GetNoHostDBForms" \in TableHeads
    BY DEF GetNoHostDBForms, TableHeads
  <1>2. calls[t] \in TableCalls
    BY <1>1, AtTable
  <1>3. /\ formDBInfos' = Disowned(Mine(calls[t]), calls[t].uid)
        /\ formRecords' = DelUid(Mine(calls[t]) \ Emptied(calls[t]), calls[t].uid)
        /\ GoWith(t, [calls[t] EXCEPT !.noHost = Emptied(calls[t]), !.found = Mine(calls[t])],
                  Rest(t))
    BY Zenon DEF GetNoHostDBForms, Disowned, Mine, Emptied
  <1>4. PICK c : c = [calls[t] EXCEPT !.noHost = Emptied(calls[t]), !.found = Mine(calls[t])]
    OBVIOUS
  <1>5. Emptied(calls[t]) \in SUBSET Forms /\ Mine(calls[t]) \in SUBSET Forms
    BY MapsAre DEF Emptied, Mine, Typed, TablesTyped
  <1>6. c \in TableCalls /\ c.todo = calls[t].todo /\ c.noHost = Emptied(calls[t])
    BY <1>2, <1>4, <1>5 DEF TableCalls
  <1>7. \E d : Turn(t, d) /\ PastTable(c, d, "GetNoHostDBForms")
    BY <1>1, <1>3, <1>4, <1>6, TableGoWith
  <1> QED BY <1>2, <1>3, <1>6, <1>7

LEMMA GetTempIs ==
    ASSUME Typed, NEW t \in Threads, GetNoHostTempForms(t)
    PROVE  /\ calls[t] \in TableCalls
           /\ formRecords' = DelUid(MineTemp(calls[t]), calls[t].uid)
           /\ \E c, d : /\ c \in TableCalls /\ c.todo = calls[t].todo
                        /\ Turn(t, d) /\ PastTable(c, d, "GetNoHostTempForms")
  <1>1. At(t, "GetNoHostTempForms") /\ "GetNoHostTempForms" \in TableHeads
    BY DEF GetNoHostTempForms, TableHeads
  <1>2. calls[t] \in TableCalls
    BY <1>1, AtTable
  <1> DEFINE empty == {f \in MineTemp(calls[t]) : formRecords[f].uids = {calls[t].uid}}
             found == calls[t].found \cup MineTemp(calls[t])
  <1>3. /\ formRecords' = DelUid(MineTemp(calls[t]), calls[t].uid)
        /\ GoWith(t, [calls[t] EXCEPT !.noHost = empty, !.found = found], Rest(t))
    BY DEF GetNoHostTempForms, MineTemp
  <1>4. PICK c : c = [calls[t] EXCEPT !.noHost = empty, !.found = found]
    OBVIOUS
  <1>5. empty \in SUBSET Forms /\ found \in SUBSET Forms
    <2>1. MineTemp(calls[t]) \subseteq Forms
      BY MapsAre DEF MineTemp, Typed, TablesTyped
    <2> QED BY <1>2, <2>1, TableCallIs
  <1> HIDE DEF empty, found
  <1>6. c \in TableCalls /\ c.todo = calls[t].todo
    BY <1>2, <1>4, <1>5 DEF TableCalls
  <1>7. \E d : Turn(t, d) /\ PastTable(c, d, "GetNoHostTempForms")
    BY <1>1, <1>3, <1>4, <1>6, TableGoWith
  <1> QED BY <1>2, <1>3, <1>6, <1>7

LEMMA DeleteBundleIs ==
    ASSUME Typed, NEW t \in Threads, DeleteFormInfoByBundleName(t)
    PROVE  /\ calls[t] \in TableCalls
           /\ \E c, d : /\ c \in TableCalls /\ c.found = DOMAIN formDBInfos
                        /\ c.todo = calls[t].todo
                        /\ Turn(t, d) /\ PastTable(c, d, "DeleteFormInfoByBundleName")
  <1>1. At(t, "DeleteFormInfoByBundleName") /\ "DeleteFormInfoByBundleName" \in TableHeads
    BY DEF DeleteFormInfoByBundleName, TableHeads
  <1>2. calls[t] \in TableCalls
    BY <1>1, AtTable
  <1>3. PICK c : c = [calls[t] EXCEPT !.found = DOMAIN formDBInfos]
    OBVIOUS
  <1>4. DOMAIN formDBInfos \in SUBSET Forms
    BY MapsAre DEF Typed, TablesTyped
  <1>5. c \in TableCalls /\ c.todo = calls[t].todo /\ c.found = DOMAIN formDBInfos
    BY <1>2, <1>3, <1>4 DEF TableCalls
  <1>6. GoWith(t, c, Rest(t))
    BY <1>3 DEF DeleteFormInfoByBundleName
  <1>7. \E d : Turn(t, d) /\ PastTable(c, d, "DeleteFormInfoByBundleName")
    BY <1>1, <1>5, <1>6, TableGoWith
  <1> QED BY <1>2, <1>5, <1>7

LEMMA CleanTempIs ==
    ASSUME Typed, NEW t \in Threads, CleanRemovedTempFormRecords(t)
    PROVE  /\ calls[t] \in TableCalls
           /\ \E c, d : /\ c \in TableCalls /\ c.todo = calls[t].todo
                        /\ Turn(t, d) /\ PastTable(c, d, "CleanRemovedTempFormRecords")
  <1>1. At(t, "CleanRemovedTempFormRecords") /\ "CleanRemovedTempFormRecords" \in TableHeads
    BY DEF CleanRemovedTempFormRecords, TableHeads
  <1>2. calls[t] \in TableCalls
    BY <1>1, AtTable
  <1> DEFINE found == calls[t].found \cup {f \in DOMAIN formRecords : IsTemp(f)}
  <1>3. PICK c : c = [calls[t] EXCEPT !.found = found]
    OBVIOUS
  <1>4. found \in SUBSET Forms
    <2>1. DOMAIN formRecords \subseteq Forms
      BY MapsAre DEF Typed, TablesTyped
    <2> QED BY <1>2, <2>1, TableCallIs
  <1>5. GoWith(t, c, Rest(t))
    BY <1>3 DEF CleanRemovedTempFormRecords
  <1> HIDE DEF found
  <1>6. c \in TableCalls /\ c.todo = calls[t].todo
    BY <1>2, <1>3, <1>4 DEF TableCalls
  <1>7. \E d : Turn(t, d) /\ PastTable(c, d, "CleanRemovedTempFormRecords")
    BY <1>1, <1>5, <1>6, TableGoWith
  <1> QED BY <1>2, <1>6, <1>7

\* The rows of forms without owner when u comes back as theirs.
Back(F, u) == [f \in F \cap DOMAIN formDBInfos |-> formDBInfos[f] \cup {u}]

LEMMA BackIs ==
    ASSUME Typed, NEW F, NEW u \in Uids
    PROVE  /\ Back(F, u) \in Maps(Forms, SUBSET Uids)
           /\ DOMAIN Back(F, u) = F \cap DOMAIN formDBInfos
           /\ \A f \in F \cap DOMAIN formDBInfos : Back(F, u)[f] = formDBInfos[f] \cup {u}
  <1>1. /\ DOMAIN formDBInfos \subseteq Forms
        /\ \A f \in DOMAIN formDBInfos : formDBInfos[f] \in SUBSET Uids
    BY MapsAre DEF Typed, TablesTyped
  <1>2. Back(F, u) \in [F \cap DOMAIN formDBInfos -> SUBSET Uids]
    BY <1>1 DEF Back
  <1>3. Back(F, u) \in Maps(Forms, SUBSET Uids)
    BY <1>1, <1>2, AMap
  <1> QED BY <1>3 DEF Back

\* The records when u is a user of those of F again.
Rejoined(F, u) == [f \in DOMAIN formRecords |->
                     IF f \in F THEN [formRecords[f] EXCEPT !.uids = @ \cup {u}]
                                ELSE formRecords[f]]

LEMMA RejoinedIs ==
    ASSUME Typed, NEW F, NEW u \in Uids
    PROVE  SameRecords(Rejoined(F, u))
  <1>1. /\ DOMAIN formRecords \subseteq Forms
        /\ \A x \in DOMAIN formRecords : formRecords[x] \in Records
    BY MapsAre DEF Typed, TablesTyped
  <1>2. ASSUME NEW f \in DOMAIN formRecords
        PROVE  /\ Rejoined(F, u)[f] \in Records
               /\ Rejoined(F, u)[f].temp = formRecords[f].temp
    <2> DEFINE U == formRecords[f].uids \cup {u}
    <2>1. formRecords[f] \in Records /\ U \in SUBSET Uids
      BY <1>1 DEF Records
    <2>2. CASE f \in F
      <3>1. Rejoined(F, u)[f] = [formRecords[f] EXCEPT !.uids = U]
        BY <2>2 DEF Rejoined
      <3> HIDE DEF U
      <3> QED BY <2>1, <3>1, RecordUids
    <2>3. CASE f \notin F
      BY <2>1, <2>3 DEF Rejoined
    <2> QED BY <2>2, <2>3
  <1>3. Rejoined(F, u) \in [DOMAIN formRecords -> Records]
    BY <1>1, <1>2 DEF Rejoined
  <1>4. Rejoined(F, u) \in Maps(Forms, Records)
    BY <1>1, <1>3, AMap
  <1> QED BY <1>2, <1>3, <1>4 DEF SameRecords

\* No host has more forms than before.
Fewer(C) ==
    /\ C \in Maps(Hosts, SUBSET Forms)
    /\ \A h \in DOMAIN C : h \in DOMAIN clientRecords /\ C[h] \subseteq clientRecords[h]

LEMMA FewerIs ==
    ASSUME Typed
    PROVE  /\ Fewer(clientRecords)
           /\ \A S : Fewer(Without(clientRecords, S))
           /\ \A C, S : Fewer(C) => Fewer(Without(C, S))
           /\ \A G : \A F : Fewer([h \in DOMAIN clientRecords |->
                              IF h \in G THEN clientRecords[h] \ F ELSE clientRecords[h]])
           /\ \A F : Fewer([h \in DOMAIN clientRecords |-> clientRecords[h] \ F])
  <1>1. /\ DOMAIN clientRecords \subseteq Hosts
        /\ \A h \in DOMAIN clientRecords : clientRecords[h] \in SUBSET Forms
    BY MapsAre DEF Typed, TablesTyped
  <1>2. clientRecords \in Maps(Hosts, SUBSET Forms)
    BY DEF Typed, TablesTyped
  <1>3. Fewer(clientRecords)
    BY <1>2 DEF Fewer
  <1>4. ASSUME NEW C, NEW S, Fewer(C) PROVE Fewer(Without(C, S))
    <2>1. PICK V : V = SUBSET Forms
      OBVIOUS
    <2>2. C \in Maps(Hosts, V)
      BY <1>4, <2>1 DEF Fewer
    <2>3. /\ Without(C, S) \in Maps(Hosts, V) /\ DOMAIN Without(C, S) = DOMAIN C \ S
          /\ \A x \in DOMAIN C \ S : Without(C, S)[x] = C[x]
      BY <2>2, WithoutIs
    <2> QED BY <1>4, <2>1, <2>3 DEF Fewer
  <1>5. ASSUME NEW C \in [DOMAIN clientRecords -> SUBSET Forms],
               \A h \in DOMAIN clientRecords : C[h] \subseteq clientRecords[h]
        PROVE  Fewer(C)
    <2>1. C \in Maps(Hosts, SUBSET Forms)
      BY <1>1, AMap
    <2> QED BY <1>5, <2>1 DEF Fewer
  <1>6. ASSUME NEW G, NEW F
        PROVE  Fewer([h \in DOMAIN clientRecords |->
                        IF h \in G THEN clientRecords[h] \ F ELSE clientRecords[h]])
    <2> DEFINE C == [h \in DOMAIN clientRecords |->
                       IF h \in G THEN clientRecords[h] \ F ELSE clientRecords[h]]
    <2>1. /\ C \in [DOMAIN clientRecords -> SUBSET Forms]
          /\ \A h \in DOMAIN clientRecords : C[h] \subseteq clientRecords[h]
      BY <1>1
    <2> HIDE DEF C
    <2>2. Fewer(C)
      BY <1>5, <2>1
    <2> QED BY <2>2 DEF C
  <1>7. ASSUME NEW F
        PROVE  Fewer([h \in DOMAIN clientRecords |-> clientRecords[h] \ F])
    <2> DEFINE C == [h \in DOMAIN clientRecords |-> clientRecords[h] \ F]
    <2>1. /\ C \in [DOMAIN clientRecords -> SUBSET Forms]
          /\ \A h \in DOMAIN clientRecords : C[h] \subseteq clientRecords[h]
      BY <1>1
    <2> HIDE DEF C
    <2>2. Fewer(C)
      BY <1>5, <2>1
    <2> QED BY <2>2 DEF C
  <1> QED BY <1>3, <1>4, <1>6, <1>7

LEMMA ClearHostIs ==
    ASSUME Typed, NEW t \in Threads, ClearHostData(t)
    PROVE  Fewer(clientRecords')
  <1> DEFINE mine == {h \in DOMAIN clientRecords : UidOf(h) = calls[t].uid}
             left == [h \in DOMAIN clientRecords |->
                        IF h \in mine THEN clientRecords[h] \ calls[t].found
                                      ELSE clientRecords[h]]
             none == {h \in mine : left[h] = {}}
  <1>1. At(t, "ClearHostData") /\ "ClearHostData" \in TableHeads
    BY DEF ClearHostData, TableHeads
  <1>2. \/ clientRecords' = Without(clientRecords, mine)
        \/ clientRecords' = Without(left, none)
        \/ clientRecords' = clientRecords
    <2>1. clientRecords' = CASE calls[t].kind = "cleared" -> Without(clientRecords, mine)
                             [] calls[t].kind = "invalid" /\ calls[t].found # {} ->
                                  Without(left, none)
                             [] OTHER -> clientRecords
      BY DEF ClearHostData
    <2> HIDE DEF mine, left, none
    <2> QED BY <2>1
  <1>3. Fewer(left)
    <2> HIDE DEF mine
    <2> QED BY FewerIs
  <1> HIDE DEF mine, left, none
  <1> QED BY <1>2, <1>3, FewerIs

LEMMA TableUid ==
    ASSUME Typed, NEW t \in Threads, NEW x \in TableHeads, At(t, x)
    PROVE  calls[t] \in TableCalls /\ calls[t].uid \in Uids
  BY AtTable, TableCallIs

LEMMA GetDBTyped ==
    ASSUME Typed, NEW t \in Threads, GetNoHostDBForms(t)
    PROVE  TablesTyped' /\ Served(t)
  <1>1. /\ formDBInfos' = Disowned(Mine(calls[t]), calls[t].uid)
        /\ formRecords' = DelUid(Mine(calls[t]) \ Emptied(calls[t]), calls[t].uid)
        /\ \E c, d : Turn(t, d) /\ PastTable(c, d, "GetNoHostDBForms")
    BY GetDBIs
  <1>2. calls[t].uid \in Uids
    BY TableUid DEF GetNoHostDBForms, TableHeads
  <1>3. UNCHANGED <<tempForms, clientRecords, rdb, recheck>>
    BY DEF GetNoHostDBForms
  <1>4. /\ formRecords' \in Maps(Forms, Records)
        /\ formDBInfos' \in Maps(Forms, SUBSET Uids)
    BY <1>1, <1>2, UidsTyped, DisownedIs
  <1>5. Served(t)
    BY <1>1, <1>3, TableServed
  <1> QED BY <1>3, <1>4, <1>5 DEF Typed, TablesTyped

LEMMA BatchDBIs ==
    ASSUME Typed, NEW t \in Threads, BatchDeleteNoHostDBForms(t), NEW c, c = calls[t]
    PROVE  \/ /\ formDBInfos' = Without(formDBInfos, c.noHost \cap DOMAIN formDBInfos)
              /\ rdb' = Without(rdb, c.noHost \cap DOMAIN formDBInfos)
              /\ formRecords' = Without(formRecords, c.noHost)
           \/ /\ formDBInfos' = Over(formDBInfos, Back(c.noHost, c.uid))
              /\ rdb' = Over(rdb, Back(c.noHost, c.uid))
              /\ formRecords' = formRecords
  BY Zenon DEF BatchDeleteNoHostDBForms, Back

LEMMA BatchDBTyped ==
    ASSUME Typed, NEW t \in Threads, BatchDeleteNoHostDBForms(t)
    PROVE  TablesTyped' /\ Served(t)
  <1>1. PICK c : c = calls[t]
    OBVIOUS
  <1>2. /\ At(t, "BatchDeleteNoHostDBForms") /\ "BatchDeleteNoHostDBForms" \in TableHeads
        /\ Go(t, Rest(t)) /\ UNCHANGED <<tempForms, clientRecords, recheck>>
    BY DEF BatchDeleteNoHostDBForms, TableHeads
  <1>3. c.uid \in Uids
    BY <1>1, <1>2, TableUid
  <1> DEFINE lost == c.noHost \cap DOMAIN formDBInfos
             back == Back(c.noHost, c.uid)
  <1>4. back \in Maps(Forms, SUBSET Uids)
    BY <1>3, BackIs
  <1>5. /\ formDBInfos \in Maps(Forms, SUBSET Uids) /\ rdb \in Maps(Forms, SUBSET Uids)
        /\ formRecords \in Maps(Forms, Records)
    BY DEF Typed, TablesTyped
  <1>6. \/ /\ formDBInfos' = Without(formDBInfos, lost) /\ rdb' = Without(rdb, lost)
           /\ formRecords' = Without(formRecords, c.noHost)
        \/ /\ formDBInfos' = Over(formDBInfos, back) /\ rdb' = Over(rdb, back)
           /\ formRecords' = formRecords
    BY <1>1, BatchDBIs
  <1> HIDE DEF lost, back
  <1>7. /\ Without(formDBInfos, lost) \in Maps(Forms, SUBSET Uids)
        /\ Without(rdb, lost) \in Maps(Forms, SUBSET Uids)
        /\ Without(formRecords, c.noHost) \in Maps(Forms, Records)
    BY <1>5, WithoutIs, Zenon
  <1>8. /\ Over(formDBInfos, back) \in Maps(Forms, SUBSET Uids)
        /\ Over(rdb, back) \in Maps(Forms, SUBSET Uids)
    BY <1>4, <1>5, OverIs, Zenon
  <1>9. /\ formDBInfos' \in Maps(Forms, SUBSET Uids) /\ rdb' \in Maps(Forms, SUBSET Uids)
        /\ formRecords' \in Maps(Forms, Records)
    BY <1>5, <1>6, <1>7, <1>8
  <1>10. Served(t)
    <2>1. \E d : Turn(t, d) /\ PastTable(calls[t], d, "BatchDeleteNoHostDBForms")
      BY <1>2, TableGo
    <2> QED BY <1>2, <2>1, TableServed
  <1> QED BY <1>2, <1>9, <1>10 DEF Typed, TablesTyped

LEMMA GetTempTyped ==
    ASSUME Typed, NEW t \in Threads, GetNoHostTempForms(t)
    PROVE  TablesTyped' /\ Served(t)
  <1>1. /\ formRecords' = DelUid(MineTemp(calls[t]), calls[t].uid)
        /\ \E c, d : Turn(t, d) /\ PastTable(c, d, "GetNoHostTempForms")
    BY GetTempIs
  <1>2. calls[t].uid \in Uids
    BY TableUid DEF GetNoHostTempForms, TableHeads
  <1>3. UNCHANGED <<tempForms, clientRecords, formDBInfos, rdb, recheck>>
    BY DEF GetNoHostTempForms
  <1>4. formRecords' \in Maps(Forms, Records)
    BY <1>1, <1>2, UidsTyped
  <1>5. Served(t)
    BY <1>1, <1>3, TableServed
  <1> QED BY <1>3, <1>4, <1>5, RecordsOnly

LEMMA BatchTempIs ==
    ASSUME Typed, NEW t \in Threads, BatchDeleteNoHostTempForms(t), NEW c, c = calls[t]
    PROVE  \/ /\ formRecords' = Without(formRecords, c.noHost)
              /\ tempForms' = tempForms \ c.noHost
           \/ formRecords' = Rejoined(c.noHost, c.uid) /\ tempForms' = tempForms
  BY DEF BatchDeleteNoHostTempForms, Rejoined

LEMMA BatchTempTyped ==
    ASSUME Typed, NEW t \in Threads, BatchDeleteNoHostTempForms(t)
    PROVE  TablesTyped' /\ Served(t)
  <1>1. PICK c : c = calls[t]
    OBVIOUS
  <1>2. /\ At(t, "BatchDeleteNoHostTempForms") /\ "BatchDeleteNoHostTempForms" \in TableHeads
        /\ Go(t, Rest(t)) /\ UNCHANGED <<clientRecords, formDBInfos, rdb, recheck>>
    BY DEF BatchDeleteNoHostTempForms, TableHeads
  <1>3. c.uid \in Uids
    BY <1>1, <1>2, TableUid
  <1>4. \/ formRecords' = Without(formRecords, c.noHost) /\ tempForms' = tempForms \ c.noHost
        \/ formRecords' = Rejoined(c.noHost, c.uid) /\ tempForms' = tempForms
    BY <1>1, BatchTempIs
  <1>5. formRecords' \in Maps(Forms, Records)
    BY <1>3, <1>4, UidsTyped, RejoinedIs DEF SameRecords
  <1>6. tempForms' \subseteq tempForms
    BY <1>4
  <1>7. Served(t)
    <2>1. \E d : Turn(t, d) /\ PastTable(calls[t], d, "BatchDeleteNoHostTempForms")
      BY <1>2, TableGo
    <2> QED BY <1>6, <2>1, TableServed
  <1> QED BY <1>2, <1>5, <1>6, <1>7 DEF Typed, TablesTyped

LEMMA DeleteBundleTyped ==
    ASSUME Typed, NEW t \in Threads, DeleteFormInfoByBundleName(t)
    PROVE  TablesTyped' /\ Served(t)
  <1>1. \E c, d : Turn(t, d) /\ PastTable(c, d, "DeleteFormInfoByBundleName")
    BY DeleteBundleIs
  <1>2. /\ formDBInfos' = << >> /\ rdb' = Without(rdb, DOMAIN formDBInfos)
        /\ UNCHANGED <<formRecords, tempForms, clientRecords, recheck>>
    BY DEF DeleteFormInfoByBundleName
  <1>3. /\ rdb \in Maps(Forms, SUBSET Uids)
        /\ formDBInfos' \in Maps(Forms, SUBSET Uids)
    BY <1>2, NoMap, Zenon DEF Typed, TablesTyped
  <1>4. rdb' \in Maps(Forms, SUBSET Uids)
    BY <1>2, <1>3, WithoutIs
  <1>5. Served(t)
    BY <1>1, <1>2, TableServed
  <1> QED BY <1>2, <1>3, <1>4, <1>5, RowsOnly

LEMMA CleanTyped ==
    ASSUME Typed, NEW t \in Threads, CleanRemovedFormRecords(t) \/ CleanRemovedTempFormRecords(t)
    PROVE  TablesTyped' /\ Served(t)
  <1>1. /\ UNCHANGED <<clientRecords, formDBInfos, rdb, recheck>>
        /\ tempForms' \subseteq tempForms
        /\ \E S : formRecords' = Without(formRecords, S)
    BY DEF CleanRemovedFormRecords, CleanRemovedTempFormRecords
  <1>2. formRecords' \in Maps(Forms, Records)
    <2>1. formRecords \in Maps(Forms, Records)
      BY DEF Typed, TablesTyped
    <2>2. \A S : Without(formRecords, S) \in Maps(Forms, Records)
      BY <2>1, WithoutIs
    <2> QED BY <1>1, <2>2
  <1>3. Served(t)
    <2>1. CASE CleanRemovedFormRecords(t)
      <3>1. /\ At(t, "CleanRemovedFormRecords") /\ "CleanRemovedFormRecords" \in TableHeads
            /\ Go(t, Rest(t))
        BY <2>1 DEF CleanRemovedFormRecords, TableHeads
      <3>2. \E d : Turn(t, d) /\ PastTable(calls[t], d, "CleanRemovedFormRecords")
        BY <3>1, TableGo
      <3> QED BY <1>1, <3>2, TableServed
    <2>2. CASE CleanRemovedTempFormRecords(t)
      <3>1. \E c, d : Turn(t, d) /\ PastTable(c, d, "CleanRemovedTempFormRecords")
        BY <2>2, CleanTempIs
      <3> QED BY <1>1, <3>1, TableServed
    <2> QED BY <2>1, <2>2
  <1> QED BY <1>1, <1>2, <1>3 DEF Typed, TablesTyped

LEMMA HostSectionsTyped ==
    ASSUME Typed, NEW t \in Threads, ClearHostData(t) \/ CleanHostRemovedForms(t)
    PROVE  TablesTyped' /\ Served(t)
  <1>1. UNCHANGED <<formRecords, tempForms, formDBInfos, rdb, recheck>>
    BY DEF ClearHostData, CleanHostRemovedForms
  <1>2. Fewer(clientRecords')
    <2>1. CASE ClearHostData(t)
      BY <2>1, ClearHostIs
    <2>2. CASE CleanHostRemovedForms(t)
      <3>1. clientRecords' = [h \in DOMAIN clientRecords |-> clientRecords[h] \ calls[t].found]
        BY <2>2 DEF CleanHostRemovedForms
      <3>2. Fewer([h \in DOMAIN clientRecords |-> clientRecords[h] \ calls[t].found])
        BY FewerIs
      <3> QED BY <3>1, <3>2
    <2> QED BY <2>1, <2>2
  <1>3. Served(t)
    <2>1. PICK x \in TableHeads : At(t, x) /\ Go(t, Rest(t))
      BY DEF ClearHostData, CleanHostRemovedForms, TableHeads
    <2>2. \E d : Turn(t, d) /\ PastTable(calls[t], d, x)
      BY <2>1, TableGo
    <2> QED BY <1>1, <2>2, TableServed
  <1> QED BY <1>1, <1>2, <1>3 DEF Typed, TablesTyped, Fewer

LEMMA ServeTyped ==
    ASSUME Typed, NEW t \in Threads, Serve(t)
    PROVE  TablesTyped' /\ Served(t)
  <1>1. CASE AllotFormHostRecord(t) \/ AllotTempForm(t) \/ AllotFormRecord(t)
    BY <1>1, AllotHostTyped, AllotTempTyped, AllotRecordTyped
  <1>2. CASE JoinUser(t) \/ DeleteFormUserUid(t) \/ DeleteUnusedRecord(t)
             \/ DeleteFormRecord(t) \/ ModifyFormTempFlag(t)
    BY <1>2, RecordSectionsTyped
  <1>3. CASE DeleteOwnRecord(t) \/ LeaveTempForm(t) \/ CastUser(t)
    BY <1>3, OtherRecordSectionsTyped
  <1>4. CASE UpdateDBRecord(t) \/ DeleteStorage(t) \/ InsertStorage(t)
             \/ DeleteFormDBInfoCache(t)
    BY <1>4, RowSectionsTyped
  <1>5. CASE DeleteTempForm(t) \/ DeleteHostRecord(t)
    BY <1>5, DeleteTempTyped, DeleteHostTyped
  <1>6. CASE GetNoHostDBForms(t) \/ BatchDeleteNoHostDBForms(t) \/ GetNoHostTempForms(t)
             \/ BatchDeleteNoHostTempForms(t)
    BY <1>6, GetDBTyped, BatchDBTyped, GetTempTyped, BatchTempTyped
  <1>7. CASE DeleteFormInfoByBundleName(t) \/ CleanRemovedFormRecords(t)
             \/ CleanRemovedTempFormRecords(t) \/ ClearHostData(t) \/ CleanHostRemovedForms(t)
    BY <1>7, DeleteBundleTyped, CleanTyped, HostSectionsTyped
  <1> QED BY <1>1, <1>2, <1>3, <1>4, <1>5, <1>6, <1>7, Zenon DEF Serve

--------------------------------------------------------------------------------
(* How a request begins.                                                   *)

\* The request d, and what it has found.
Nowhere(f) ==
    /\ f \notin DOMAIN formRecords \cup DOMAIN formDBInfos \cup tempForms \cup orphans
    /\ Unheld(f)
StartsNew(d) ==
    /\ d.todo = Add /\ Nowhere(d.form)
    /\ d.temp => Cardinality(tempForms) < MAX_TEMP_FORMS
StartsFromRow(d) == d.todo = Add /\ ~d.temp /\ d.form \in DOMAIN formDBInfos
StartsJoin(d) ==
    /\ d.todo = Join /\ d.form \in DOMAIN formRecords /\ ~formRecords[d.form].temp
    /\ d.row = formRecords[d.form].uids \cup {d.uid}
StartsLeave(d) ==
    /\ d.todo = Leave /\ d.form \in DOMAIN formDBInfos /\ d.row = formDBInfos[d.form] \ {d.uid}
StartsRemove(d) ==
    /\ d.todo \in {Remove, RemoveHost} /\ d.form \in DOMAIN formDBInfos
    /\ formDBInfos[d.form] \subseteq {d.uid}
StartsRelease(d) == d.todo = Release /\ d.form \in DOMAIN formDBInfos
StartsOther(d) == d.todo \in {LeaveTemp, HostLast, Cast}
Starts(d) ==
    \/ /\ d \in FormCalls
       /\ \/ StartsNew(d) \/ StartsFromRow(d) \/ StartsJoin(d) \/ StartsLeave(d)
          \/ StartsRemove(d) \/ StartsRelease(d) \/ StartsOther(d)
    \/ d \in TableCalls /\ d.todo \in {Clear, Uninstall}

Begun(t) ==
    calls[t] = Idle /\ UNCHANGED tables /\ \E d : Turn(t, d) /\ Starts(d)

FormStarts == {Add, Join, Leave, Remove, RemoveHost, Release, LeaveTemp, HostLast, Cast}

LEMMA ScriptsIn ==
    FormStarts \subseteq FormScripts /\ {Clear, Uninstall} \subseteq TableScripts
  BY Zenon DEF FormStarts, FormScripts, TableScripts

LEMMA StartsIn ==
    /\ Add \in FormStarts /\ Join \in FormStarts /\ Leave \in FormStarts
    /\ Remove \in FormStarts /\ RemoveHost \in FormStarts /\ Release \in FormStarts
    /\ LeaveTemp \in FormStarts /\ HostLast \in FormStarts /\ Cast \in FormStarts
    /\ {} \in SUBSET Uids /\ FALSE \in BOOLEAN /\ TRUE \in BOOLEAN
  BY Zenon DEF FormStarts

LEMMA BeginIs ==
    ASSUME RecordsAssumption, NEW t \in Threads, NEW h \in Hosts, NEW f \in Forms,
           NEW todo \in FormStarts, NEW row, row \in SUBSET Uids, NEW temp \in BOOLEAN, Begin(t, h, f, todo, row, temp)
    PROVE  /\ calls[t] = Idle /\ UNCHANGED tables
           /\ \E d : /\ Turn(t, d) /\ d \in FormCalls
                     /\ d.todo = todo /\ d.host = h /\ d.uid = UidOf(h) /\ d.form = f
                     /\ d.row = row /\ d.temp = temp
  <1>1. PICK d : d = [todo |-> todo, host |-> h, uid |-> UidOf(h), form |-> f, temp |-> temp,
                      row |-> row]
    OBVIOUS
  <1>2. todo \in FormScripts
    BY ScriptsIn
  <1>3. /\ d \in FormCalls /\ d.todo = todo /\ d.host = h /\ d.uid = UidOf(h) /\ d.form = f
        /\ d.row = row /\ d.temp = temp
    BY <1>1, <1>2 DEF FormCalls, RecordsAssumption
  <1>4. Turn(t, d)
    BY <1>1, <1>3 DEF Begin, Turn, AnyCall
  <1>5. calls[t] = Idle /\ UNCHANGED tables
    BY DEF Begin
  <1> QED BY <1>3, <1>4, <1>5

LEMMA NewBegins ==
    ASSUME RecordsAssumption, Typed, NEW t \in Threads, NEW h \in Hosts, NEW f \in Forms,
           NEW temp \in BOOLEAN, AllotFormByInfo(t, h, f, temp)
    PROVE  Begun(t)
  <1>1. /\ f \notin DOMAIN formRecords \cup DOMAIN formDBInfos \cup tempForms \cup orphans
        /\ \A g \in Hosts : f \notin Held(g)
        /\ temp => Cardinality(tempForms) < MAX_TEMP_FORMS
        /\ Begin(t, h, f, Add, {}, temp)
    BY DEF AllotFormByInfo, AddNewFormRecord, Add
  <1>2. Unheld(f)
    BY <1>1, HeldIs DEF Unheld
  <1>3. /\ calls[t] = Idle /\ UNCHANGED tables
        /\ \E d : /\ Turn(t, d) /\ d \in FormCalls /\ d.todo = Add /\ d.form = f
                  /\ d.temp = temp
    BY <1>1, StartsIn, BeginIs
  <1>4. PICK d : /\ Turn(t, d) /\ d \in FormCalls /\ d.todo = Add /\ d.form = f
                 /\ d.temp = temp
    BY <1>3
  <1>5. StartsNew(d)
    BY <1>1, <1>2, <1>4 DEF StartsNew, Nowhere
  <1> QED BY <1>3, <1>4, <1>5 DEF Begun, Starts

LEMMA ByIdBegins ==
    ASSUME RecordsAssumption, Typed, NEW t \in Threads, NEW h \in Hosts, NEW f \in Forms,
           AllotFormById(t, h, f)
    PROVE  Begun(t)
  <1>1. UidOf(h) \in Uids
    BY DEF RecordsAssumption
  <1>2. CASE f \in DOMAIN formRecords /\ ~formRecords[f].temp
             /\ Begin(t, h, f, Join, formRecords[f].uids \cup {UidOf(h)}, FALSE)
    <2> DEFINE S == formRecords[f].uids \cup {UidOf(h)}
    <2>1. S \in SUBSET Uids /\ Begin(t, h, f, Join, S, FALSE)
      BY <1>1, <1>2, RecordsAre
    <2> HIDE DEF S
    <2>2. /\ calls[t] = Idle /\ UNCHANGED tables
          /\ \E d : /\ Turn(t, d) /\ d \in FormCalls /\ d.todo = Join /\ d.form = f
                    /\ d.uid = UidOf(h) /\ d.row = S
      <3>1. PICK temp : temp \in BOOLEAN /\ Begin(t, h, f, Join, S, temp)
        BY <2>1, Zenon
      <3> QED BY <2>1, <3>1, StartsIn, BeginIs
    <2>3. PICK d : /\ Turn(t, d) /\ d \in FormCalls /\ d.todo = Join /\ d.form = f
                   /\ d.uid = UidOf(h) /\ d.row = S
      BY <2>2
    <2>4. StartsJoin(d)
      BY <1>2, <2>3 DEF StartsJoin, S
    <2> QED BY <2>2, <2>3, <2>4 DEF Begun, Starts
  <1>3. CASE f \in DOMAIN formDBInfos /\ Begin(t, h, f, Add, {}, FALSE)
    <2>1. /\ calls[t] = Idle /\ UNCHANGED tables
          /\ \E d : /\ Turn(t, d) /\ d \in FormCalls /\ d.todo = Add /\ d.form = f
                    /\ ~d.temp
      <3>1. PICK temp : temp \in BOOLEAN /\ temp = FALSE /\ Begin(t, h, f, Add, {}, temp)
        BY <1>3, Zenon
      <3>2. /\ calls[t] = Idle /\ UNCHANGED tables
            /\ \E d : /\ Turn(t, d) /\ d \in FormCalls /\ d.todo = Add /\ d.form = f
                      /\ d.temp = temp
        BY <3>1, StartsIn, BeginIs
      <3> QED BY <3>1, <3>2
    <2>2. PICK d : /\ Turn(t, d) /\ d \in FormCalls /\ d.todo = Add /\ d.form = f
                   /\ ~d.temp
      BY <2>1
    <2>3. StartsFromRow(d)
      BY <1>3, <2>2 DEF StartsFromRow
    <2> QED BY <2>1, <2>2, <2>3 DEF Begun, Starts
  <1> QED BY <1>2, <1>3 DEF AllotFormById, AddNewFormRecord, Add, Join

\* A request without conditions on the tables.
LEMMA OtherBegins ==
    ASSUME RecordsAssumption, NEW t \in Threads, NEW h \in Hosts, NEW f \in Forms,
           NEW temp \in BOOLEAN,
           NEW todo, todo \in {LeaveTemp, HostLast, Cast}, Begin(t, h, f, todo, {}, temp)
    PROVE  Begun(t)
  <1>1. /\ calls[t] = Idle /\ UNCHANGED tables
        /\ \E d : Turn(t, d) /\ d \in FormCalls /\ d.todo = todo
    BY StartsIn, BeginIs
  <1>2. PICK d : Turn(t, d) /\ d \in FormCalls /\ d.todo = todo
    BY <1>1
  <1> QED BY <1>1, <1>2 DEF Begun, Starts, StartsOther

LEMMA DeleteBegins ==
    ASSUME RecordsAssumption, Typed, NEW t \in Threads, NEW h \in Hosts, NEW f \in Forms,
           DeleteForm(t, h, f)
    PROVE  Begun(t)
  <1>1. CASE f \in tempForms
    <2>1. Begin(t, h, f, LeaveTemp, {}, TRUE)
      BY <1>1 DEF DeleteForm, DeleteTempFormOf, LeaveTemp
    <2> QED BY <2>1, OtherBegins
  <1>2. CASE f \notin tempForms
    <2>1. f \in DOMAIN formDBInfos /\ UidOf(h) \in formDBInfos[f]
      BY <1>2 DEF DeleteForm, Row
    <2>2. formDBInfos[f] \in SUBSET Uids
      BY <2>1, MapsAre DEF Typed, TablesTyped
    <2> DEFINE left == formDBInfos[f] \ {UidOf(h)}
    <2>3. \/ Begin(t, h, f, Leave, left, FALSE)
          \/ left = {} /\ \E todo \in {RemoveHost, Remove} : Begin(t, h, f, todo, left, FALSE)
      BY <1>2 DEF DeleteForm, Leave, RemoveHost, Remove
    <2>4. left \in SUBSET Uids
      BY <2>2
    <2> HIDE DEF left
    <2>5. PICK todo \in {Leave, RemoveHost, Remove} :
             /\ Begin(t, h, f, todo, left, FALSE)
             /\ todo = Leave \/ (left = {} /\ todo \in {RemoveHost, Remove})
      BY <2>3
    <2>6. /\ calls[t] = Idle /\ UNCHANGED tables
          /\ \E d : /\ Turn(t, d) /\ d \in FormCalls /\ d.todo = todo /\ d.form = f
                    /\ d.uid = UidOf(h) /\ d.row = left
      <3>1. PICK temp : temp \in BOOLEAN /\ Begin(t, h, f, todo, left, temp)
        BY <2>5, Zenon
      <3> QED BY <2>4, <3>1, StartsIn, BeginIs
    <2>7. PICK d : /\ Turn(t, d) /\ d \in FormCalls /\ d.todo = todo /\ d.form = f
                   /\ d.uid = UidOf(h) /\ d.row = left
      BY <2>6
    <2>8. CASE todo = Leave
      BY <2>1, <2>6, <2>7, <2>8 DEF Begun, Starts, StartsLeave, left
    <2>9. CASE left = {} /\ todo \in {RemoveHost, Remove}
      <3>1. StartsRemove(d)
        BY <2>1, <2>7, <2>9 DEF StartsRemove, left
      <3> QED BY <2>6, <2>7, <3>1 DEF Begun, Starts
    <2> QED BY <2>5, <2>8, <2>9
  <1> QED BY <1>1, <1>2

LEMMA ReleaseBegins ==
    ASSUME RecordsAssumption, Typed, NEW t \in Threads, NEW h \in Hosts, NEW f \in Forms,
           NEW delCache \in BOOLEAN, ReleaseForm(t, h, f, delCache)
    PROVE  Begun(t)
  <1>1. CASE f \in tempForms
    <2>1. Begin(t, h, f, LeaveTemp, {}, TRUE)
      BY <1>1 DEF ReleaseForm, DeleteTempFormOf, LeaveTemp
    <2> QED BY <2>1, OtherBegins
  <1>2. CASE f \notin tempForms
    <2>1. f \in DOMAIN formDBInfos
      BY <1>2 DEF ReleaseForm, Row
    <2>2. Begin(t, h, f, Release, {}, FALSE) \/ Begin(t, h, f, HostLast, {}, FALSE)
      BY <1>2 DEF ReleaseForm, Release, HostLast
    <2>3. CASE Begin(t, h, f, Release, {}, FALSE)
      <3>1. /\ calls[t] = Idle /\ UNCHANGED tables
            /\ \E d : Turn(t, d) /\ d \in FormCalls /\ d.todo = Release /\ d.form = f
        <4>1. PICK temp : temp \in BOOLEAN /\ Begin(t, h, f, Release, {}, temp)
          BY <2>3, Zenon
        <4> QED BY <4>1, StartsIn, BeginIs
      <3>2. PICK d : Turn(t, d) /\ d \in FormCalls /\ d.todo = Release /\ d.form = f
        BY <3>1
      <3> QED BY <2>1, <3>1, <3>2 DEF Begun, Starts, StartsRelease
    <2>4. CASE Begin(t, h, f, HostLast, {}, FALSE)
      BY <2>4, OtherBegins
    <2> QED BY <2>2, <2>3, <2>4
  <1> QED BY <1>1, <1>2

LEMMA CastBegins ==
    ASSUME RecordsAssumption, NEW t \in Threads, NEW h \in Hosts, NEW f \in Forms,
           CastTempForm(t, h, f)
    PROVE  Begun(t)
  <1>1. Begin(t, h, f, Cast, {}, FALSE)
    BY DEF CastTempForm, Cast
  <1> QED BY <1>1, OtherBegins

LEMMA TableBegins ==
    ASSUME RecordsAssumption, NEW t \in Threads, NEW u \in Uids, NEW todo \in {Clear, Uninstall},
           NEW kind \in {"cleared", "invalid", "removed"}, NEW valid, valid \in SUBSET Forms,
           BeginForAll(t, u, kind, valid, todo)
    PROVE  Begun(t)
  <1>1. PICK d : d = [todo |-> todo, uid |-> u, kind |-> kind, valid |-> valid,
                      noHost |-> {}, found |-> {}]
    OBVIOUS
  <1>2. todo \in TableScripts
    BY ScriptsIn
  <1>3. d \in TableCalls /\ d.todo = todo
    BY <1>1, <1>2 DEF TableCalls
  <1>4. Turn(t, d) /\ calls[t] = Idle /\ UNCHANGED tables
    BY <1>1, <1>3 DEF BeginForAll, Turn, AnyCall
  <1> QED BY <1>3, <1>4 DEF Begun, Starts

LEMMA RequestBegins ==
    ASSUME RecordsAssumption, Typed, NEW t \in Threads, Request(t)
    PROVE  Begun(t)
  <1>1. alive \subseteq Hosts
    BY DEF Typed
  <1>2. CASE \E h \in alive, f \in Forms :
                \/ \E temp \in BOOLEAN : AllotFormByInfo(t, h, f, temp)
                \/ AllotFormById(t, h, f)
                \/ DeleteForm(t, h, f)
                \/ \E delCache \in BOOLEAN : ReleaseForm(t, h, f, delCache)
                \/ CastTempForm(t, h, f)
    <2>1. PICK h \in Hosts, f \in Forms :
                \/ \E temp \in BOOLEAN : AllotFormByInfo(t, h, f, temp)
                \/ AllotFormById(t, h, f)
                \/ DeleteForm(t, h, f)
                \/ \E delCache \in BOOLEAN : ReleaseForm(t, h, f, delCache)
                \/ CastTempForm(t, h, f)
      BY <1>1, <1>2
    <2> QED BY <2>1, NewBegins, ByIdBegins, DeleteBegins, ReleaseBegins, CastBegins
  <1>3. CASE \E h \in alive : \E valid \in SUBSET Held(h) : DeleteInvalidForms(t, h, valid)
    <2>1. PICK h \in Hosts : \E valid \in SUBSET Held(h) : DeleteInvalidForms(t, h, valid)
      BY <1>1, <1>3
    <2>2. PICK valid \in SUBSET Held(h) : DeleteInvalidForms(t, h, valid)
      BY <2>1
    <2>3. valid \in SUBSET Forms
      BY <2>2, HeldIs
    <2>4. BeginForAll(t, UidOf(h), "invalid", valid, Clear) /\ UidOf(h) \in Uids
      BY <2>2 DEF DeleteInvalidForms, Clear, RecordsAssumption
    <2> QED BY <2>3, <2>4, TableBegins
  <1>4. CASE \E u \in Uids : HandleFormHostDataCleared(t, u)
    <2>1. PICK u \in Uids : BeginForAll(t, u, "cleared", {}, Clear)
      BY <1>4 DEF HandleFormHostDataCleared, Clear
    <2> QED BY <2>1, TableBegins
  <1>5. CASE HandleProviderRemoved(t)
    <2>1. (CHOOSE u \in Uids : TRUE) \in Uids
      BY DEF RecordsAssumption
    <2>2. BeginForAll(t, CHOOSE u \in Uids : TRUE, "removed", {}, Uninstall)
      BY <1>5 DEF HandleProviderRemoved, Uninstall
    <2> QED BY <2>1, <2>2, TableBegins
  <1> QED BY <1>2, <1>3, <1>4, <1>5 DEF Request

--------------------------------------------------------------------------------
(* The types and the limit, step by step.                                  *)

LEMMA TurnTyped ==
    ASSUME Typed, NEW t \in Threads, NEW d, Turn(t, d), TablesTyped'
    PROVE  /\ Typed' /\ calls'[t] = d
           /\ \A u \in Threads \ {t} : calls'[u] = calls[u]
  <1>1. calls' \in [Threads -> AnyCall] /\ UNCHANGED outside
    BY DEF Typed, Turn, AnyCall
  <1>2. calls'[t] = d /\ \A u \in Threads \ {t} : calls'[u] = calls[u]
    BY DEF Typed, Turn
  <1> QED BY <1>1, <1>2 DEF Typed, AnyCall, outside

LEMMA BegunTyped ==
    ASSUME Typed, NEW t \in Threads, Begun(t)
    PROVE  TablesTyped' /\ Typed'
  <1>1. TablesTyped'
    BY DEF Begun, Typed, TablesTyped, tables
  <1> QED BY <1>1, TurnTyped DEF Begun

LEMMA HostsTyped ==
    ASSUME Typed, NEW h \in Hosts, HostStarts(h) \/ HostEnds(h) \/ HandleHostDied(h)
    PROVE  Typed' /\ calls' = calls /\ tempForms' \subseteq tempForms
  <1>1. CASE HostStarts(h) \/ HostEnds(h)
    BY <1>1 DEF HostStarts, HostEnds, Typed, TablesTyped, tables
  <1>2. CASE HandleHostDied(h)
    <2>1. /\ clientRecords' = Without(clientRecords, {h}) /\ tempForms' = tempForms \ Held(h)
          /\ orphans' = tempForms \cap Held(h) /\ deaths' = deaths \ {h}
          /\ UNCHANGED <<formRecords, formDBInfos, rdb, recheck, calls, alive>>
      BY <1>2 DEF HandleHostDied
    <2>2. clientRecords' \in Maps(Hosts, SUBSET Forms)
      BY <2>1, FewerIs DEF Fewer
    <2> QED BY <2>1, <2>2 DEF Typed, TablesTyped
  <1> QED BY <1>1, <1>2

LEMMA RecheckTyped ==
    ASSUME Typed, NEW u, RecheckWhetherNeedCleanFormHost(u)
    PROVE  Typed' /\ calls' = calls /\ tempForms' = tempForms
  <1>1. /\ \/ clientRecords' = Without(clientRecords, {recheck[u]})
           \/ clientRecords' = clientRecords
        /\ recheck' = Without(recheck, {u})
        /\ UNCHANGED <<formRecords, tempForms, formDBInfos, rdb, calls, outside>>
    BY DEF RecheckWhetherNeedCleanFormHost
  <1>2. clientRecords' \in Maps(Hosts, SUBSET Forms)
    <2>1. Fewer(Without(clientRecords, {recheck[u]})) /\ Fewer(clientRecords)
      BY FewerIs, Zenon
    <2>2. Fewer(clientRecords')
      BY <1>1, <2>1, Zenon
    <2> QED BY <2>2 DEF Fewer
  <1>3. recheck' \in Maps(Uids, Hosts)
    BY <1>1, WithoutIs DEF Typed, TablesTyped
  <1> QED BY <1>1, <1>2, <1>3 DEF Typed, TablesTyped, outside

LEMMA OrphansTyped ==
    ASSUME Typed, DeleteRecordTempForms
    PROVE  Typed' /\ calls' = calls /\ tempForms' = tempForms
  <1>1. /\ formRecords' = Without(formRecords, orphans) /\ orphans' = {}
        /\ UNCHANGED <<tempForms, clientRecords, formDBInfos, rdb, recheck, calls, alive, deaths>>
    BY DEF DeleteRecordTempForms
  <1>2. formRecords' \in Maps(Forms, Records)
    BY <1>1, WithoutIs DEF Typed, TablesTyped
  <1> QED BY <1>1, <1>2 DEF Typed, TablesTyped

LEMMA NoTables ==
    /\ << >> \in Maps(Forms, Records) /\ << >> \in Maps(Hosts, SUBSET Forms)
    /\ << >> \in Maps(Forms, SUBSET Uids) /\ << >> \in Maps(Uids, Hosts)
  BY NoMap, Zenon

LEMMA RestartTyped ==
    ASSUME Typed, Restart
    PROVE  Typed' /\ tempForms' = {} /\ \A t \in Threads : calls'[t] = Idle
  BY NoTables DEF Restart, Typed, TablesTyped

LEMMA TypedStep ==
    ASSUME RecordsAssumption, Typed, [Next]_vars
    PROVE  Typed'
  <1>1. CASE Next
    <2>1. CASE \E t \in Threads : Request(t) \/ Serve(t)
      <3>1. PICK t \in Threads : Request(t) \/ Serve(t)
        BY <2>1
      <3>2. CASE Request(t)
        BY <3>2, RequestBegins, BegunTyped
      <3>3. CASE Serve(t)
        BY <3>3, ServeTyped, TurnTyped DEF Served
      <3> QED BY <3>1, <3>2, <3>3
    <2> QED BY <1>1, <2>1, HostsTyped, OrphansTyped, RecheckTyped, RestartTyped DEF Next
  <1>2. CASE UNCHANGED vars
    BY <1>2 DEF Typed, TablesTyped, vars, tables, outside
  <1> QED BY <1>1, <1>2

LEMMA InitTyped ==
    ASSUME Init
    PROVE  Typed
  BY NoTables DEF Init, Typed, TablesTyped

--------------------------------------------------------------------------------
(* The limit of temporary forms.                                           *)

LEMMA AddingIs ==
    ASSUME RecordsAssumption
    PROVE  /\ IsFiniteSet(Adding) /\ Cardinality(Adding) \in Nat
           /\ Cardinality(Adding) <= Cardinality(Threads) /\ Cardinality(Threads) \in Nat \ {0}
           /\ MAX_TEMP_FORMS \in Nat
           /\ \A A \in SUBSET Adding : Cardinality(A) \in Nat /\ Cardinality(A) <= Cardinality(Adding)
  <1>1. IsFiniteSet(Threads) /\ Threads # {} /\ MAX_TEMP_FORMS \in Nat
    BY DEF RecordsAssumption
  <1>2. Adding \in SUBSET Threads
    BY DEF Adding
  <1>3. IsFiniteSet(Adding) /\ Cardinality(Adding) <= Cardinality(Threads)
    BY <1>1, <1>2, FS_Subset
  <1>4. Cardinality(Threads) \in Nat \ {0} /\ Cardinality(Adding) \in Nat
    BY <1>1, <1>3, FS_CardinalityType, FS_EmptySet
  <1>5. ASSUME NEW A \in SUBSET Adding
        PROVE  Cardinality(A) \in Nat /\ Cardinality(A) <= Cardinality(Adding)
    BY <1>3, FS_Subset, FS_CardinalityType
  <1> QED BY <1>1, <1>3, <1>4, <1>5

\* The list does not grow and no addition joins.
LEMMA LimitKept ==
    ASSUME RecordsAssumption, Limited, tempForms' \subseteq tempForms, Adding' \subseteq Adding
    PROVE  Limited'
  <1>1. /\ IsFiniteSet(tempForms') /\ Cardinality(tempForms') \in Nat
        /\ Cardinality(tempForms) \in Nat /\ Cardinality(tempForms') <= Cardinality(tempForms)
    BY FS_Subset, FS_CardinalityType DEF Limited
  <1>2. /\ Cardinality(Adding') \in Nat /\ Cardinality(Adding') <= Cardinality(Adding)
        /\ Cardinality(Adding) \in Nat /\ Cardinality(Threads) \in Nat /\ MAX_TEMP_FORMS \in Nat
    BY AddingIs
  <1> QED BY <1>1, <1>2 DEF Limited

\* An addition puts its form on the list.
LEMMA LimitMoves ==
    ASSUME RecordsAssumption, Limited, NEW f, NEW t \in Adding,
           tempForms' = tempForms \cup {f}, Adding' \subseteq Adding \ {t}
    PROVE  Limited'
  <1>1. /\ IsFiniteSet(tempForms') /\ Cardinality(tempForms') \in Nat
        /\ Cardinality(tempForms) \in Nat /\ Cardinality(tempForms') <= Cardinality(tempForms) + 1
    <2>1. IsFiniteSet(tempForms) /\ Cardinality(tempForms) \in Nat
      BY FS_CardinalityType DEF Limited
    <2>2. /\ IsFiniteSet(tempForms \cup {f})
          /\ Cardinality(tempForms \cup {f}) =
                IF f \in tempForms THEN Cardinality(tempForms) ELSE Cardinality(tempForms) + 1
      BY <2>1, FS_AddElement
    <2>3. Cardinality(tempForms \cup {f}) \in Nat
      BY <2>2, FS_CardinalityType
    <2> QED BY <2>1, <2>2, <2>3
  <1>2. /\ IsFiniteSet(Adding) /\ Cardinality(Adding) \in Nat
        /\ Cardinality(Threads) \in Nat /\ MAX_TEMP_FORMS \in Nat
    BY AddingIs
  <1>3. IsFiniteSet(Adding \ {t}) /\ Cardinality(Adding \ {t}) = Cardinality(Adding) - 1
    BY <1>2, FS_RemoveElement
  <1>4. Cardinality(Adding') \in Nat /\ Cardinality(Adding') <= Cardinality(Adding \ {t})
    BY <1>3, FS_Subset, FS_CardinalityType
  <1> QED BY <1>1, <1>2, <1>3, <1>4 DEF Limited

\* AddForm counts the temporary forms before it adds one.
LEMMA LimitChecked ==
    ASSUME RecordsAssumption, Limited, tempForms' = tempForms, Adding' \in SUBSET Threads,
           Cardinality(tempForms) < MAX_TEMP_FORMS
    PROVE  Limited'
  <1>1. IsFiniteSet(tempForms) /\ Cardinality(tempForms) \in Nat
    BY FS_CardinalityType DEF Limited
  <1>2. Cardinality(Threads) \in Nat /\ MAX_TEMP_FORMS \in Nat
    BY AddingIs
  <1>3. Cardinality(Adding') \in Nat /\ Cardinality(Adding') <= Cardinality(Threads)
    BY FS_Subset, FS_CardinalityType DEF RecordsAssumption
  <1> QED BY <1>1, <1>2, <1>3 DEF Limited

LEMMA StartsAdding ==
    ASSUME NEW d, Starts(d), AddsTemp(d)
    PROVE  StartsNew(d) /\ d.temp
  <1>1. "AllotTempForm" \in Range(d.todo) /\ d.temp
    BY DEF AddsTemp, Has
  <1>2. d \in FormCalls
    <2>1. "AllotTempForm" \notin TableHeads
      BY DEF TableHeads
    <2>2. d \notin TableCalls
      BY <1>1, <2>1, TableHas DEF Has
    <2> QED BY <2>2 DEF Starts
  <1>3. d.todo \notin {Join, Leave, Remove, RemoveHost, Release, LeaveTemp, HostLast, Cast}
    BY <1>1, JoinRanges, SaveRanges, DropRanges, RemoveRanges, CastRanges
  <1>4. ~StartsJoin(d) /\ ~StartsLeave(d) /\ ~StartsRemove(d) /\ ~StartsRelease(d)
        /\ ~StartsOther(d) /\ ~StartsFromRow(d)
    BY <1>1, <1>3 DEF StartsJoin, StartsLeave, StartsRemove, StartsRelease, StartsOther,
                      StartsFromRow
  <1>5. d.todo \notin {Clear, Uninstall}
    BY <1>1, ClearRanges, CleanRanges
  <1> QED BY <1>1, <1>4, <1>5 DEF Starts

LEMMA RequestLimited ==
    ASSUME RecordsAssumption, Typed, Limited, NEW t \in Threads, Begun(t)
    PROVE  Limited'
  <1>1. PICK d : Turn(t, d) /\ Starts(d)
    BY DEF Begun
  <1>2. TablesTyped' /\ tempForms' = tempForms
    BY BegunTyped DEF Begun, tables
  <1>3. calls'[t] = d /\ \A u \in Threads \ {t} : calls'[u] = calls[u]
    BY <1>1, <1>2, TurnTyped
  <1>4. CASE AddsTemp(d)
    <2>1. Cardinality(tempForms) < MAX_TEMP_FORMS
      BY <1>1, <1>4, StartsAdding DEF StartsNew
    <2>2. Adding' \in SUBSET Threads
      BY DEF Adding
    <2> QED BY <1>2, <2>1, <2>2, LimitChecked
  <1>5. CASE ~AddsTemp(d)
    <2>1. Adding' \subseteq Adding
      BY <1>3, <1>5 DEF Adding, AddsTemp, Has
    <2> QED BY <1>2, <2>1, LimitKept
  <1> QED BY <1>4, <1>5

LEMMA ServeLimited ==
    ASSUME RecordsAssumption, Typed, Limited, NEW t \in Threads, Served(t), TablesTyped'
    PROVE  Limited'
  <1>1. PICK d : /\ Turn(t, d)
                 /\ AddsTemp(d) => AddsTemp(calls[t])
                 /\ \/ tempForms' \subseteq tempForms
                    \/ /\ AddsTemp(calls[t]) /\ ~AddsTemp(d)
                       /\ tempForms' = tempForms \cup {calls[t].form}
    BY DEF Served
  <1>2. calls'[t] = d /\ \A u \in Threads \ {t} : calls'[u] = calls[u]
    BY <1>1, TurnTyped
  <1>3. Adding' \subseteq Adding
    BY <1>1, <1>2 DEF Adding, AddsTemp, Has
  <1>4. CASE tempForms' \subseteq tempForms
    BY <1>3, <1>4, LimitKept
  <1>5. CASE AddsTemp(calls[t]) /\ ~AddsTemp(d) /\ tempForms' = tempForms \cup {calls[t].form}
    <2>1. t \in Adding
      BY <1>5 DEF Adding
    <2>2. Adding' \subseteq Adding \ {t}
      BY <1>2, <1>3, <1>5 DEF Adding, AddsTemp, Has
    <2> QED BY <1>5, <2>1, <2>2, LimitMoves
  <1> QED BY <1>1, <1>4, <1>5

LEMMA LimitedStep ==
    ASSUME RecordsAssumption, Typed, Limited, [Next]_vars
    PROVE  Limited'
  <1>1. ASSUME calls' = calls, tempForms' \subseteq tempForms PROVE Limited'
    BY <1>1, LimitKept DEF Adding
  <1>2. CASE Next
    <2>1. CASE \E t \in Threads : Request(t) \/ Serve(t)
      <3>1. PICK t \in Threads : Request(t) \/ Serve(t)
        BY <2>1
      <3>2. CASE Request(t)
        BY <3>2, RequestBegins, RequestLimited
      <3>3. CASE Serve(t)
        BY <3>3, ServeTyped, ServeLimited
      <3> QED BY <3>1, <3>2, <3>3
    <2>2. CASE \E h \in Hosts : HostStarts(h) \/ HostEnds(h) \/ HandleHostDied(h)
      BY <1>1, <2>2, HostsTyped
    <2>3. CASE DeleteRecordTempForms
      BY <1>1, <2>3, OrphansTyped
    <2>4. CASE \E u \in Uids : RecheckWhetherNeedCleanFormHost(u)
      BY <1>1, <2>4, RecheckTyped
    <2>5. CASE Restart
      <3>1. tempForms' = {} /\ \A t \in Threads : calls'[t] = Idle
        BY <2>5, RestartTyped
      <3>2. Adding' = {}
        BY <3>1, IdleIs DEF Adding, AddsTemp, Has
      <3> QED BY <3>1, <3>2, LimitKept
    <2> QED BY <1>2, <2>1, <2>2, <2>3, <2>4, <2>5 DEF Next
  <1>3. CASE UNCHANGED vars
    BY <1>1, <1>3 DEF vars, tables
  <1> QED BY <1>2, <1>3

LEMMA InitLimited ==
    ASSUME RecordsAssumption, Init
    PROVE  Limited
  <1>1. tempForms = {} /\ Adding = {}
    BY IdleIs DEF Init, Adding, AddsTemp
  <1>2. Cardinality(Threads) \in Nat \ {0} /\ MAX_TEMP_FORMS \in Nat
    BY AddingIs
  <1> QED BY <1>1, <1>2, FS_EmptySet DEF Limited

--------------------------------------------------------------------------------
(* The types and the limit hold in every behaviour.                        *)

LEMMA TypedAndLimited == Spec => [](Typed /\ Limited)
  <1>1. Init => Typed /\ Limited
    BY RecordsAssumption, InitTyped, InitLimited
  <1>2. Typed /\ Limited /\ [Next]_vars => (Typed /\ Limited)'
    BY RecordsAssumption, TypedStep, LimitedStep
  <1> QED BY <1>1, <1>2, PTL DEF Spec

LEMMA CallTyped ==
    ASSUME Typed, NEW t \in Threads
    PROVE  /\ DOMAIN calls[t] \in {DOMAIN Idle, FormFields, TableFields}
           /\ Len(calls[t].todo) <= 5
           /\ \A s \in Range(calls[t].todo) : s \in Steps
  <1>1. calls[t] \in AnyCall
    BY DEF Typed, AnyCall
  <1>2. CASE calls[t] = Idle
    <2>1. Len(<<>>) = 0
      OBVIOUS
    <2> QED BY <1>2, <2>1, IdleIs, RangeOfNone
  <1>3. CASE calls[t] \in FormCalls
    <2>1. DOMAIN calls[t] = FormFields
      BY <1>3 DEF FormCalls, FormFields
    <2>2. calls[t].todo \in Seq(Steps) /\ Len(calls[t].todo) <= 5
      BY <1>3, FormCallIs, FormSections DEF FormSection
    <2> QED BY <2>1, <2>2 DEF Range
  <1>4. CASE calls[t] \in TableCalls
    <2>1. DOMAIN calls[t] = TableFields
      BY <1>4 DEF TableCalls, TableFields
    <2>2. calls[t].todo \in Seq(Steps) /\ Len(calls[t].todo) <= 5
      BY <1>4, TableCallIs, TableSections DEF TableSection
    <2> QED BY <2>1, <2>2 DEF Range
  <1> QED BY <1>1, <1>2, <1>3, <1>4 DEF AnyCall

\* The tables hold what their types say, no request has more than five sections ahead,
\* and the check of AddForm keeps the temporary forms at their limit, give or take the
\* additions checked meanwhile.
THEOREM TypesAreRight == Spec => []TypeOK
  <1>1. Typed /\ Limited => TypeOK
    <2> SUFFICES ASSUME Typed, Limited PROVE TypeOK
      OBVIOUS
    <2>1. /\ formRecords \in UNION {[S -> [temp : BOOLEAN, uids : SUBSET Uids]] : S \in SUBSET Forms}
          /\ clientRecords \in UNION {[S -> SUBSET Forms] : S \in SUBSET Hosts}
          /\ {formDBInfos, rdb} \subseteq UNION {[S -> SUBSET Uids] : S \in SUBSET Forms}
          /\ recheck \in UNION {[S -> Hosts] : S \in SUBSET Uids}
          /\ tempForms \in SUBSET Forms /\ alive \in SUBSET Hosts /\ deaths \in SUBSET Hosts
          /\ orphans \in SUBSET Forms
      BY DEF Typed, TablesTyped, Maps, Records
    <2>2. Cardinality(tempForms) <= MAX_TEMP_FORMS + Cardinality(Threads) - 1
      <3>1. Cardinality(tempForms) \in Nat
        BY FS_CardinalityType DEF Limited
      <3> QED BY <3>1, RecordsAssumption, AddingIs DEF Limited
    <2> QED BY <2>1, <2>2, CallTyped, Zenon DEF TypeOK
  <1> QED BY <1>1, TypedAndLimited, PTL

--------------------------------------------------------------------------------
(* One request at a time: the invariant of the tables and of the request.  *)

\* What the request that is served knows before section x ...
LEMMA Before ==
    ASSUME Typed, Serial, NEW t \in Threads, NEW x \in FormHeads, At(t, x), NEW c, c = calls[t]
    PROVE  /\ c \in FormCalls /\ FormSection(c.todo) /\ Head(c.todo) = x /\ Has(c, x)
           /\ c.host \in Hosts /\ c.uid \in Uids /\ c.form \in Forms /\ c.row \in SUBSET Uids
           /\ c.temp \in BOOLEAN
           /\ Apart /\ OneHost /\ FormCallOK(c) /\ ListAndFlags(c) /\ Stored(c)
  <1>1. c \in FormCalls /\ FormSection(c.todo) /\ Head(c.todo) = x
    BY AtForm
  <1>2. Has(c, x)
    BY <1>1 DEF FormSection, Has
  <1> QED BY <1>1, <1>2, FormCallIs DEF Serial, CallOK

LEMMA BeforeTable ==
    ASSUME Typed, Serial, NEW t \in Threads, NEW x \in TableHeads, At(t, x), NEW c, c = calls[t]
    PROVE  /\ c \in TableCalls /\ TableSection(c.todo) /\ Head(c.todo) = x /\ Has(c, x)
           /\ c.uid \in Uids
           /\ Apart /\ OneHost /\ TableCallOK(c) /\ ListAndFlags(Idle) /\ Stored(Idle)
  <1>1. c \in TableCalls /\ TableSection(c.todo) /\ Head(c.todo) = x
    BY AtTable
  <1>2. Has(c, x)
    BY <1>1 DEF TableSection, Has
  <1>3. Apart /\ OneHost /\ TableCallOK(c) /\ ListAndFlags(c) /\ Stored(c)
    BY DEF Serial, CallOK
  <1>4. \A y \in FormHeads : ~Has(c, y)
    BY <1>1, TableHas, HeadsApart
  <1>5. ~Listing(c) /\ ~Unlisting(c) /\ ~Has(c, "InsertStorage")
    BY <1>4 DEF Listing, Unlisting, FormHeads
  <1>6. ListAndFlags(Idle) /\ Stored(Idle)
    BY <1>3, <1>5 DEF ListAndFlags, Stored
  <1> QED BY <1>1, <1>2, <1>3, <1>6, TableCallIs

\* ... and outside the sections that put a form on the list or take it off, and those
\* that store a row, the list agrees with the flags and the store has the owners.
LEMMA Even ==
    ASSUME NEW c \in FormCalls, FormSection(c.todo), ListAndFlags(c), Stored(c)
    PROVE  /\ Head(c.todo) \notin {"AllotFormRecord", "DeleteFormRecord", "ModifyFormTempFlag"} =>
                 ~Listing(c) /\ ~Unlisting(c) /\ ListAndFlags(Idle)
           /\ Head(c.todo) \notin {"InsertStorage", "DeleteStorage"} =>
                 ~Has(c, "InsertStorage") /\ Stored(Idle)
  <1>1. ASSUME Head(c.todo) \notin {"AllotFormRecord", "DeleteFormRecord", "ModifyFormTempFlag"}
        PROVE  ~Listing(c) /\ ~Unlisting(c)
    BY <1>1 DEF FormSection, FormHeads, Listing, Unlisting, Has
  <1>2. ASSUME Head(c.todo) \notin {"InsertStorage", "DeleteStorage"}
        PROVE  ~Has(c, "InsertStorage")
    <2>1. c.todo \in {Save, Leave} =>
             Range(c.todo) \in {{"UpdateDBRecord"}, {"UpdateDBRecord", "DeleteFormUserUid",
                                                     "DeleteHostRecord"}}
      BY JoinRanges, SaveRanges
    <2> QED BY <1>2, <2>1 DEF FormSection, FormHeads, Has
  <1>3. ASSUME ~Listing(c), ~Unlisting(c) PROVE ListAndFlags(Idle)
    BY <1>3 DEF ListAndFlags
  <1>4. ASSUME ~Has(c, "InsertStorage") PROVE Stored(Idle)
    BY <1>4 DEF Stored
  <1> QED BY <1>1, <1>2, <1>3, <1>4

\* What has to be shown of the request as it goes on.
LEMMA SerialNext ==
    ASSUME Typed, NEW t, Threads = {t}, NEW d, Turn(t, d), Apart', OneHost', FormCallOK(d)',
           TableCallOK(d)', ListAndFlags(d)', Stored(d)'
    PROVE  Serial'
  <1>1. calls'[t] = d
    BY DEF Typed, Turn
  <1> QED BY <1>1 DEF Serial, CallOK

LEMMA EvenNext ==
    ASSUME Typed, NEW t, Threads = {t}, NEW d, Turn(t, d), Apart', OneHost', FormCallOK(d)',
           TableCallOK(d)', ListAndFlags(Idle)', Stored(Idle)'
    PROVE  Serial'
  <1>1. ~Listing(Idle) /\ ~Unlisting(Idle) /\ ~Has(Idle, "InsertStorage")
    BY IdleIs DEF Listing, Unlisting
  <1>2. ListAndFlags(d)' /\ Stored(d)'
    BY <1>1 DEF ListAndFlags, Stored
  <1> QED BY <1>2, SerialNext

\* A request that runs no section about a form relies on nothing, nor does one that runs
\* no section through a table.
LEMMA NoFormSection ==
    ASSUME NEW d, \A x \in FormHeads : ~Has(d, x)
    PROVE  FormCallOK(d) /\ FormCallOK(d)'
  <1>1. /\ ~AddsTemp(d) /\ ~Listing(d) /\ ~NeedsPlain(d) /\ ~Unlisting(d) /\ ~Saving(d)
        /\ ~Has(d, "DeleteFormDBInfoCache") /\ ~Has(d, "InsertStorage") /\ ~Has(d, "DeleteStorage")
    BY DEF AddsTemp, Listing, NeedsPlain, Unlisting, Saving, FormHeads
  <1> QED BY <1>1 DEF FormCallOK, Guarded, NewForm, NewRecord, PlainForm, OffTheList, RowIsFresh, OwnRow,
                      RowIsCached, NoRow

LEMMA NoTableSection ==
    ASSUME NEW d, d = Idle \/ d \in FormCalls
    PROVE  TableCallOK(d) /\ TableCallOK(d)'
  <1>1. ~Has(d, "BatchDeleteNoHostDBForms") /\ ~Has(d, "CleanRemovedFormRecords")
    BY IdleIs, FormHas DEF FormHeads
  <1> QED BY <1>1 DEF TableCallOK

LEMMA IdleOK == FormCallOK(Idle) /\ FormCallOK(Idle)' /\ TableCallOK(Idle) /\ TableCallOK(Idle)'
  BY IdleIs, NoFormSection, NoTableSection

\* The tables lose forms, users, owners and hosts, if anything.
LessRecords ==
    /\ DOMAIN formRecords' \subseteq DOMAIN formRecords
    /\ \A f \in DOMAIN formRecords' : formRecords'[f].temp = formRecords[f].temp
LessUsers == \A f \in DOMAIN formRecords' : formRecords'[f].uids \subseteq formRecords[f].uids
LessRows ==
    /\ DOMAIN formDBInfos' \subseteq DOMAIN formDBInfos
    /\ \A f \in DOMAIN formDBInfos' : formDBInfos'[f] \subseteq formDBInfos[f]
LessHeld ==
    /\ DOMAIN clientRecords' \subseteq DOMAIN clientRecords
    /\ \A h \in DOMAIN clientRecords' : clientRecords'[h] \subseteq clientRecords[h]
LessTemps == tempForms' \subseteq tempForms /\ tempForms' \cup orphans' \subseteq tempForms \cup orphans
Less == LessRecords /\ LessRows /\ LessHeld /\ LessTemps

LEMMA LessUnheld ==
    ASSUME LessHeld
    PROVE  /\ \A f : Unheld(f) => Unheld(f)'
           /\ \A f, S : HeldBy(f, S) => HeldBy(f, S)'
  BY DEF LessHeld, Unheld, HeldBy

LEMMA LessTemp ==
    ASSUME LessRecords, LessTemps
    PROVE  /\ \A f : IsTemp(f)' => IsTemp(f)
           /\ \A f : NotTemp(f) => NotTemp(f)'
  BY DEF LessRecords, LessTemps, IsTemp, NotTemp

LEMMA LessApart ==
    ASSUME Apart, LessRecords, LessRows, LessTemps, orphans' \subseteq orphans
    PROVE  Apart'
  <1>1. orphans' \cap tempForms' = {}
    BY DEF Apart, LessTemps
  <1>2. \A f \in DOMAIN formDBInfos' : NotTemp(f)'
    BY LessTemp DEF Apart, LessRows
  <1>3. \A f \in orphans' : f \in DOMAIN formRecords' => formRecords'[f].temp
    BY DEF Apart, LessRecords
  <1> QED BY <1>1, <1>2, <1>3 DEF Apart

LEMMA LessOneHost ==
    ASSUME OneHost, LessHeld, tempForms' \subseteq tempForms, orphans' \subseteq orphans
    PROVE  OneHost'
  <1>1. \A f \in tempForms' : \A g, h \in DOMAIN clientRecords' :
           f \in clientRecords'[g] /\ f \in clientRecords'[h] => g = h
    BY DEF OneHost, LessHeld
  <1>2. \A f \in orphans' : Unheld(f)'
    BY LessUnheld DEF OneHost
  <1> QED BY <1>1, <1>2 DEF OneHost

\* A form that leaves the list while its record is to come is no host's.
LEMMA LessGuarded ==
    ASSUME Less, NEW d, Guarded(d),
           Listing(d) /\ d.form \in tempForms => d.form \in tempForms' \/ Unheld(d.form)'
    PROVE  Guarded(d)'
  <1>1. NewForm(d)'
    <2>1. ASSUME AddsTemp(d)
          PROVE  /\ d.form \notin DOMAIN formRecords' \cup DOMAIN formDBInfos' \cup tempForms'
                                    \cup orphans'
                 /\ HeldBy(d.form, IF Has(d, "AllotFormHostRecord") THEN {} ELSE {d.host})'
      BY <2>1, LessUnheld DEF Guarded, NewForm, Less, LessRecords, LessRows, LessTemps
    <2> QED BY <2>1 DEF NewForm
  <1>2. NewRecord(d)'
    BY LessUnheld DEF Guarded, NewRecord, Less, LessRecords, LessRows
  <1>3. PlainForm(d)'
    BY LessTemp DEF Guarded, PlainForm, Less
  <1>4. OffTheList(d)'
    BY DEF Guarded, OffTheList, Less, LessTemps
  <1>5. OwnRow(d)' /\ RowIsCached(d)' /\ NoRow(d)'
    BY DEF Guarded, OwnRow, RowIsCached, NoRow, Less, LessRows
  <1> QED BY <1>1, <1>2, <1>3, <1>4, <1>5 DEF Guarded

LEMMA LessForm ==
    ASSUME Less, LessUsers, NEW d, FormCallOK(d),
           Listing(d) /\ d.form \in tempForms => d.form \in tempForms' \/ Unheld(d.form)'
    PROVE  FormCallOK(d)'
  <1>1. Guarded(d)'
    BY LessGuarded DEF FormCallOK
  <1>2. RowIsFresh(d)'
    BY DEF FormCallOK, RowIsFresh, Less, LessRecords, LessUsers, LessRows
  <1> QED BY <1>1, <1>2 DEF FormCallOK

LEMMA LessTable ==
    ASSUME LessRows, LessTemps, NEW d, TableCallOK(d)
    PROVE  TableCallOK(d)'
  BY DEF LessRows, LessTemps, TableCallOK

\* A form leaves the list with its record, or when no host has it.
LEMMA LessLists ==
    ASSUME Less, NEW d, ListAndFlags(d),
           \A f \in tempForms' : IsTemp(f) => f \in DOMAIN formRecords',
           \A f \in tempForms \ tempForms' : f \in DOMAIN formRecords' => Unheld(f)'
    PROVE  ListAndFlags(d)'
  <1>1. \A f \in tempForms' : IsTemp(f)' \/ (Listing(d) /\ d.form = f)
    BY DEF ListAndFlags, Less, LessRecords, LessTemps, IsTemp
  <1>2. ASSUME NEW f \in Forms \ tempForms', IsTemp(f)'
        PROVE  Unheld(f)' \/ (Unlisting(d) /\ d.form = f)
    <2>1. IsTemp(f) /\ f \in DOMAIN formRecords'
      BY <1>2, LessTemp DEF Less, IsTemp
    <2> QED BY <2>1, LessUnheld DEF ListAndFlags, Less
  <1> QED BY <1>1, <1>2 DEF ListAndFlags

LEMMA LessStored ==
    ASSUME LessRows, NEW d, Stored(d),
           \A f \in DOMAIN formDBInfos' : f \in DOMAIN rdb => f \in DOMAIN rdb' /\ rdb[f] \subseteq rdb'[f]
    PROVE  Stored(d)'
  BY DEF LessRows, Stored

\* Nothing but the request changes.
LEMMA SameIsLess ==
    ASSUME UNCHANGED <<formRecords, tempForms, clientRecords, formDBInfos, rdb, orphans>>
    PROVE  /\ Less /\ LessUsers /\ LessRecords /\ LessRows /\ LessHeld /\ LessTemps
           /\ Apart => Apart'
           /\ OneHost => OneHost'
           /\ \A f : NotTemp(f) => NotTemp(f)'
  <1>1. LessRecords /\ LessUsers /\ LessRows /\ LessHeld /\ LessTemps
    BY DEF LessRecords, LessUsers, LessRows, LessHeld, LessTemps
  <1>2. Apart => Apart'
    BY <1>1, LessApart
  <1>3. OneHost => OneHost'
    BY <1>1, LessOneHost
  <1> QED BY <1>1, <1>2, <1>3, LessTemp DEF Less

--------------------------------------------------------------------------------
(* One request at a time: the sections that only take away.                *)

\* n is m with entry k put to v.
PutsInto(m, k, v, n) ==
    /\ DOMAIN n = DOMAIN m \cup {k} /\ n[k] = v
    /\ \A x \in DOMAIN m \ {k} : n[x] = m[x]

LEMMA PutAt == \A m, k, v, n : n = Put(m, k, v) => PutsInto(m, k, v, n)
  BY DEF Put, Over, PutsInto

\* n is m without the entries of S.
LeavesOut(m, S, n) == DOMAIN n = DOMAIN m \ S /\ \A x \in DOMAIN n : n[x] = m[x]

LEMMA WithoutAt == \A m, S, n : n = Without(m, S) => LeavesOut(m, S, n)
  BY DEF Without, Restrict, LeavesOut

\* After most sections a request relies on no more than before.
LEMMA Onward ==
    ASSUME NEW c \in FormCalls, NEW d, NEW x, Past(c, d, x), FormCallOK(c),
           x \notin {"AllotFormHostRecord", "AllotTempForm", "ModifyFormTempFlag",
                     "DeleteTempForm", "CastUser", "DeleteFormDBInfoCache", "InsertStorage"}
    PROVE  FormCallOK(d) /\ TableCallOK(d) /\ TableCallOK(d)'
  <1>1. CASE d = Idle
    BY <1>1, IdleOK
  <1>2. CASE /\ d \in FormCalls /\ SameForm(c, d)
             /\ \A s \in Steps \ {"DeleteHostRecord"} : Has(d, s) <=> Has(c, s) /\ s # x
    <2>1. TableCallOK(d) /\ TableCallOK(d)'
      BY <1>2, NoTableSection
    <2>2. /\ AddsTemp(d) => AddsTemp(c)
          /\ Has(d, "AllotFormHostRecord") <=> Has(c, "AllotFormHostRecord")
          /\ Listing(d) => Listing(c)
          /\ NeedsPlain(d) => NeedsPlain(c)
          /\ Unlisting(d) => Unlisting(c)
          /\ Saving(d) => Saving(c)
      BY <1>2 DEF AddsTemp, Listing, NeedsPlain, Unlisting, Saving, Steps, SameForm
    <2>3. /\ Has(d, "DeleteFormDBInfoCache") <=> Has(c, "DeleteFormDBInfoCache")
          /\ Has(d, "InsertStorage") <=> Has(c, "InsertStorage")
          /\ Has(d, "DeleteStorage") => Has(c, "DeleteStorage")
      BY <1>2 DEF Steps
    <2>4. d.host = c.host /\ d.uid = c.uid /\ d.form = c.form /\ d.row = c.row
      BY <1>2 DEF SameForm
    <2>5. NewForm(d) /\ NewRecord(d)
      BY <2>2, <2>4 DEF FormCallOK, Guarded, NewForm, NewRecord
    <2>6. PlainForm(d) /\ OffTheList(d)
      BY <2>2, <2>4 DEF FormCallOK, Guarded, PlainForm, OffTheList
    <2>7. RowIsFresh(d) /\ OwnRow(d)
      BY <2>2, <2>3, <2>4 DEF FormCallOK, Guarded, RowIsFresh, OwnRow
    <2>8. RowIsCached(d) /\ NoRow(d)
      BY <2>3, <2>4 DEF FormCallOK, Guarded, RowIsCached, NoRow
    <2> QED BY <2>1, <2>5, <2>6, <2>7, <2>8 DEF FormCallOK, Guarded
  <1> QED BY <1>1, <1>2 DEF Past

\* Such a section, when the list stays as it is and no form of the list loses its record.
LEMMA TakenAway ==
    ASSUME Typed, Serial, NEW t, Threads = {t}, NEW x \in FormHeads, At(t, x),
           x \in {"DeleteFormUserUid", "DeleteUnusedRecord", "DeleteOwnRecord",
                  "DeleteHostRecord"},
           \E d : Turn(t, d) /\ Past(calls[t], d, x),
           Less, LessUsers, tempForms' = tempForms, rdb' = rdb,
           \A f \in tempForms : f \in DOMAIN formRecords => f \in DOMAIN formRecords'
    PROVE  Serial'
  <1>1. PICK c, d : c = calls[t] /\ Turn(t, d) /\ Past(c, d, x)
    OBVIOUS
  <1>2. /\ c \in FormCalls /\ FormSection(c.todo) /\ Head(c.todo) = x
        /\ Apart /\ OneHost /\ FormCallOK(c) /\ ListAndFlags(c) /\ Stored(c)
    BY <1>1, Before
  <1>3. ListAndFlags(Idle) /\ Stored(Idle)
    BY <1>2, Even
  <1>4. FormCallOK(d) /\ TableCallOK(d)'
    BY <1>1, <1>2, Onward
  <1>5. orphans' = orphans
    BY <1>1 DEF Turn, outside
  <1>6. Apart' /\ OneHost'
    BY <1>2, <1>5, LessApart, LessOneHost DEF Less, LessTemps
  <1>7. FormCallOK(d)'
    BY <1>4, LessForm
  <1>8. ListAndFlags(Idle)'
    BY <1>3, LessLists DEF IsTemp
  <1>9. Stored(Idle)'
    BY <1>3, LessStored DEF Less
  <1> QED BY <1>1, <1>4, <1>6, <1>7, <1>8, <1>9, EvenNext

LEMMA DelUidLess ==
    ASSUME Typed, NEW F, NEW u \in Uids, formRecords' = DelUid(F, u)
    PROVE  LessRecords /\ LessUsers /\ DOMAIN formRecords' = DOMAIN formRecords
  <1>1. formRecords \in Maps(Forms, Records)
    BY DEF Typed, TablesTyped
  <1>2. WithoutUser(formRecords', F, u)
    BY <1>1, DelUidIs, Zenon
  <1> QED BY <1>2 DEF WithoutUser, SameRecords, LessRecords, LessUsers

LEMMA WithoutLess ==
    ASSUME Typed, NEW S, formRecords' = Without(formRecords, S)
    PROVE  LessRecords /\ LessUsers /\ DOMAIN formRecords' = DOMAIN formRecords \ S
  <1>1. LeavesOut(formRecords, S, formRecords')
    BY WithoutAt, Zenon
  <1> QED BY <1>1 DEF LeavesOut, LessRecords, LessUsers

LEMMA LeaveSerial ==
    ASSUME Typed, Serial, NEW t, Threads = {t}, DeleteFormUserUid(t)
    PROVE  Serial'
  <1>1. /\ At(t, "DeleteFormUserUid") /\ "DeleteFormUserUid" \in FormHeads /\ Go(t, Rest(t))
        /\ formRecords' = DelUid({calls[t].form}, calls[t].uid)
        /\ UNCHANGED <<tempForms, clientRecords, formDBInfos, rdb, recheck>>
    BY DEF DeleteFormUserUid, FormHeads
  <1>2. \E d : Turn(t, d) /\ Past(calls[t], d, "DeleteFormUserUid")
    BY <1>1, FormGo
  <1>3. calls[t].uid \in Uids
    BY <1>1, AtForm, FormCallIs
  <1>4. LessRecords /\ LessUsers /\ DOMAIN formRecords' = DOMAIN formRecords
    BY <1>1, <1>3, DelUidLess
  <1>5. Less
    BY <1>1, <1>2, <1>4 DEF Less, LessRows, LessHeld, LessTemps, Turn, outside
  <1> QED BY <1>1, <1>2, <1>4, <1>5, TakenAway

LEMMA DropSerial ==
    ASSUME Typed, Serial, NEW t, Threads = {t}, DeleteUnusedRecord(t) \/ DeleteOwnRecord(t)
    PROVE  Serial'
  <1>1. PICK x : /\ x \in {"DeleteUnusedRecord", "DeleteOwnRecord"} /\ At(t, x)
                 /\ \E d : Turn(t, d) /\ Past(calls[t], d, x)
    <2>1. CASE DeleteUnusedRecord(t)
      <3>1. At(t, "DeleteUnusedRecord") /\ "DeleteUnusedRecord" \in FormHeads /\ Go(t, Rest(t))
        BY <2>1 DEF DeleteUnusedRecord, FormHeads
      <3> QED BY <3>1, FormGo
    <2>2. CASE DeleteOwnRecord(t)
      <3>1. At(t, "DeleteOwnRecord")
        BY <2>2 DEF DeleteOwnRecord
      <3> QED BY <2>2, <3>1, DeleteOwnIs
    <2> QED BY <2>1, <2>2
  <1>2. /\ \/ formRecords' = Without(formRecords, {calls[t].form})
           \/ formRecords' = formRecords
        /\ UNCHANGED <<tempForms, clientRecords, formDBInfos, rdb, recheck>>
    BY DEF DeleteUnusedRecord, DeleteOwnRecord
  <1>3. x \in FormHeads
    BY <1>1 DEF FormHeads
  <1>4. calls[t].form \notin tempForms
    <2>1. PICK c : c = calls[t]
      OBVIOUS
    <2>2. Has(c, x) /\ FormCallOK(c)
      BY <1>1, <1>3, <2>1, Before
    <2>3. NeedsPlain(c)
      BY <1>1, <2>2 DEF NeedsPlain
    <2> QED BY <2>1, <2>2, <2>3 DEF FormCallOK, Guarded, PlainForm, NotTemp
  <1>5. /\ LessRecords /\ LessUsers
        /\ \A f \in tempForms : f \in DOMAIN formRecords => f \in DOMAIN formRecords'
    <2>1. CASE formRecords' = Without(formRecords, {calls[t].form})
      <3>1. /\ LessRecords /\ LessUsers
            /\ DOMAIN formRecords' = DOMAIN formRecords \ {calls[t].form}
        BY <2>1, WithoutLess
      <3> QED BY <1>4, <3>1
    <2>2. CASE formRecords' = formRecords
      BY <2>2 DEF LessRecords, LessUsers
    <2> QED BY <1>2, <2>1, <2>2
  <1>6. Less
    BY <1>1, <1>2, <1>5 DEF Less, LessRows, LessHeld, LessTemps, Turn, outside
  <1> QED BY <1>1, <1>2, <1>3, <1>5, <1>6, TakenAway

LEMMA HostSerial ==
    ASSUME Typed, Serial, NEW t, Threads = {t}, DeleteHostRecord(t)
    PROVE  Serial'
  <1>1. /\ At(t, "DeleteHostRecord") /\ "DeleteHostRecord" \in FormHeads /\ Go(t, Rest(t))
        /\ UNCHANGED <<formRecords, tempForms, formDBInfos, rdb>>
    BY DEF DeleteHostRecord, FormHeads
  <1>2. PICK c : c = calls[t]
    OBVIOUS
  <1>3. c.host \in Hosts /\ Held(c.host) \ {c.form} \in SUBSET Forms
    BY <1>1, <1>2, AtForm, FormCallIs, HeldIs
  <1>4. LessHeld
    <2>1. \/ clientRecords' = clientRecords
          \/ /\ c.host \in DOMAIN clientRecords
             /\ clientRecords' = Put(clientRecords, c.host, Held(c.host) \ {c.form})
      BY <1>2 DEF DeleteHostRecord
    <2>2. CASE /\ c.host \in DOMAIN clientRecords
               /\ clientRecords' = Put(clientRecords, c.host, Held(c.host) \ {c.form})
      <3>1. clientRecords[c.host] = Held(c.host)
        BY <2>2, HeldIs
      <3>2. PutsInto(clientRecords, c.host, Held(c.host) \ {c.form}, clientRecords')
        BY <2>2, PutAt, Zenon
      <3> QED BY <2>2, <3>1, <3>2 DEF LessHeld, PutsInto
    <2> QED BY <2>1, <2>2 DEF LessHeld
  <1>5. \E d : Turn(t, d) /\ Past(calls[t], d, "DeleteHostRecord")
    BY <1>1, FormGo
  <1>6. Less /\ LessUsers
    BY <1>1, <1>4, <1>5 DEF Less, LessRecords, LessUsers, LessRows, LessTemps, Turn, outside
  <1> QED BY <1>1, <1>5, <1>6, TakenAway

--------------------------------------------------------------------------------
(* One request at a time: the sections that change users and flags.        *)

\* Like FormGo, and the request has all other sections ahead.
LEMMA FormAfter ==
    ASSUME Typed, NEW t \in Threads, NEW x \in FormHeads, At(t, x), Go(t, Rest(t))
    PROVE  \E d : /\ Turn(t, d) /\ Past(calls[t], d, x)
                  /\ \A s : Has(d, s) <=> Has(calls[t], s) /\ s # x
  <1>1. /\ calls[t] \in FormCalls /\ calls[t].todo \in FormScripts
        /\ Head(calls[t].todo) = x
    BY AtForm, FormCallIs
  <1>2. /\ Tail(calls[t].todo) \in FormScripts \cup {<<>>}
        /\ Range(Tail(calls[t].todo)) = Range(calls[t].todo) \ {x}
    BY <1>1, FormRest
  <1>3. GoWith(t, calls[t], Tail(calls[t].todo))
    BY DEF Go, Rest
  <1>4. PICK d : /\ Turn(t, d)
                 /\ \/ d = Idle /\ Tail(calls[t].todo) = <<>>
                    \/ /\ d \in FormCalls /\ d.todo = Tail(calls[t].todo)
                       /\ SameForm(calls[t], d)
    BY <1>1, <1>2, <1>3, GoesOn
  <1>5. d.todo = Tail(calls[t].todo)
    BY <1>4, IdleIs
  <1>6. \A s : Has(d, s) <=> Has(calls[t], s) /\ s # x
    BY <1>2, <1>5 DEF Has
  <1> QED BY <1>4, <1>6 DEF Past

\* The request when it leaves the list, the rows and the hosts as they were.
LEMMA EvenStep ==
    ASSUME Typed, Serial, NEW t, Threads = {t}, NEW x \in FormHeads, At(t, x),
           x \notin {"AllotFormRecord", "DeleteFormRecord", "ModifyFormTempFlag",
                     "InsertStorage", "DeleteStorage"},
           NEW d, Turn(t, d), LessRecords, DOMAIN formRecords' = DOMAIN formRecords,
           UNCHANGED <<tempForms, clientRecords, formDBInfos, rdb>>,
           FormCallOK(d)', TableCallOK(d)'
    PROVE  Serial'
  <1>1. PICK c : c = calls[t]
    OBVIOUS
  <1>2. /\ c \in FormCalls /\ FormSection(c.todo) /\ Head(c.todo) = x
        /\ Apart /\ OneHost /\ ListAndFlags(c) /\ Stored(c)
    BY <1>1, Before
  <1>3. ListAndFlags(Idle) /\ Stored(Idle)
    BY <1>2, Even
  <1>4. orphans' = orphans
    BY DEF Turn, outside
  <1>5. LessRows /\ LessHeld /\ LessTemps /\ Less
    BY <1>4 DEF Less, LessRows, LessHeld, LessTemps
  <1>6. Apart' /\ OneHost'
    BY <1>2, <1>4, <1>5, LessApart, LessOneHost DEF LessTemps
  <1>7. ListAndFlags(Idle)'
    BY <1>3, <1>5, LessLists DEF IsTemp
  <1>8. Stored(Idle)'
    BY <1>3, <1>5, LessStored
  <1> QED BY <1>6, <1>7, <1>8, EvenNext

LEMMA AddUidLess ==
    ASSUME Typed, NEW f, NEW u \in Uids, formRecords' = AddUid(f, u)
    PROVE  /\ LessRecords /\ DOMAIN formRecords' = DOMAIN formRecords
           /\ \A g \in DOMAIN formRecords :
                 formRecords'[g].uids = IF g = f THEN formRecords[f].uids \cup {u}
                                                 ELSE formRecords[g].uids
  <1>1. formRecords \in Maps(Forms, Records)
    BY DEF Typed, TablesTyped
  <1>2. WithUser(formRecords', f, u)
    BY <1>1, AddUidIs, Zenon
  <1> QED BY <1>2 DEF WithUser, SameRecords, LessRecords

LEMMA JoinSerial ==
    ASSUME Typed, Serial, NEW t, Threads = {t}, JoinUser(t)
    PROVE  Serial'
  <1>1. PICK c : c = calls[t]
    OBVIOUS
  <1>2. /\ At(t, "JoinUser") /\ "JoinUser" \in FormHeads /\ Go(t, Rest(t))
        /\ formRecords' = AddUid(c.form, c.uid)
        /\ UNCHANGED <<tempForms, clientRecords, formDBInfos, rdb>>
    BY <1>1 DEF JoinUser, FormHeads
  <1>3. c \in FormCalls /\ c.uid \in Uids /\ FormCallOK(c)
    BY <1>1, <1>2, Before
  <1>4. PICK d : Turn(t, d) /\ Past(c, d, "JoinUser")
    BY <1>1, <1>2, FormGo
  <1>5. FormCallOK(d) /\ TableCallOK(d)'
    BY <1>3, <1>4, Onward
  <1>6. /\ LessRecords /\ DOMAIN formRecords' = DOMAIN formRecords
        /\ \A g \in DOMAIN formRecords :
              formRecords'[g].uids = IF g = c.form THEN formRecords[c.form].uids \cup {c.uid}
                                                   ELSE formRecords[g].uids
    BY <1>2, <1>3, AddUidLess
  <1>7. Less
    BY <1>2, <1>4, <1>6 DEF Less, LessRows, LessHeld, LessTemps, Turn, outside
  <1>8. Guarded(d)'
    BY <1>2, <1>5, <1>7, LessGuarded DEF FormCallOK
  <1>9. RowIsFresh(d)'
    <2>1. CASE d = Idle
      BY <2>1, IdleOK DEF FormCallOK
    <2>2. CASE SameForm(c, d)
      <3>1. d.form = c.form /\ d.uid = c.uid /\ d.row = c.row
        BY <2>2 DEF SameForm
      <3> QED BY <1>2, <1>5, <1>6, <3>1 DEF FormCallOK, RowIsFresh
    <2> QED BY <1>4, <2>1, <2>2 DEF Past
  <1>10. FormCallOK(d)'
    BY <1>8, <1>9 DEF FormCallOK
  <1> QED BY <1>2, <1>4, <1>5, <1>6, <1>10, EvenStep

LEMMA LeaveTempSerial ==
    ASSUME Typed, Serial, NEW t, Threads = {t}, LeaveTempForm(t)
    PROVE  Serial'
  <1>1. PICK c : c = calls[t]
    OBVIOUS
  <1>2. /\ At(t, "LeaveTempForm") /\ "LeaveTempForm" \in FormHeads
        /\ formRecords' = formRecords \/ formRecords' = AddUid(c.form, c.uid)
        /\ UNCHANGED <<tempForms, clientRecords, formDBInfos, rdb>>
    BY <1>1 DEF LeaveTempForm, FormHeads
  <1>3. c.uid \in Uids
    BY <1>1, <1>2, Before
  <1>4. PICK d : /\ Turn(t, d)
                 /\ Range(d.todo) \subseteq {"DeleteTempForm", "DeleteFormRecord",
                                             "DeleteHostRecord"}
                 /\ Has(d, "DeleteFormRecord") => Has(d, "DeleteTempForm")
    BY LeaveTempIs
  <1>5. LessRecords /\ DOMAIN formRecords' = DOMAIN formRecords
    <2>1. CASE formRecords' = formRecords
      BY <2>1 DEF LessRecords
    <2>2. CASE formRecords' = AddUid(c.form, c.uid)
      BY <1>3, <2>2, AddUidLess
    <2> QED BY <1>2, <2>1, <2>2
  <1>6. /\ ~AddsTemp(d) /\ ~Listing(d) /\ ~NeedsPlain(d) /\ ~Unlisting(d) /\ ~Saving(d)
        /\ ~Has(d, "DeleteFormDBInfoCache") /\ ~Has(d, "InsertStorage") /\ ~Has(d, "DeleteStorage")
    BY <1>4 DEF AddsTemp, Listing, NeedsPlain, Unlisting, Saving, Has
  <1>7. FormCallOK(d)'
    BY <1>6 DEF FormCallOK, Guarded, NewForm, NewRecord, PlainForm, OffTheList, RowIsFresh, OwnRow,
                RowIsCached, NoRow
  <1>8. TableCallOK(d)'
    BY <1>4 DEF TableCallOK, Has
  <1> QED BY <1>2, <1>4, <1>5, <1>7, <1>8, EvenStep

\* A request that has gone past its sections, or returns, when nothing else changed.
LEMMA SameStep ==
    ASSUME Typed, NEW t, Threads = {t}, NEW d, Turn(t, d),
           UNCHANGED <<formRecords, tempForms, clientRecords, formDBInfos, rdb>>,
           Apart, OneHost, FormCallOK(d)', TableCallOK(d)', ListAndFlags(Idle), Stored(Idle)
    PROVE  Serial'
  <1>1. UNCHANGED <<formRecords, tempForms, clientRecords, formDBInfos, rdb, orphans>>
    BY DEF Turn, outside
  <1>2. Less /\ LessRows /\ Apart' /\ OneHost'
    BY <1>1, SameIsLess
  <1>3. ListAndFlags(Idle)'
    BY <1>1, <1>2, LessLists DEF IsTemp
  <1>4. Stored(Idle)'
    BY <1>1, <1>2, LessStored
  <1> QED BY <1>2, <1>3, <1>4, EvenNext

LEMMA DeleteTempSerial ==
    ASSUME Typed, Serial, NEW t, Threads = {t}, DeleteTempForm(t)
    PROVE  Serial'
  <1>1. PICK c : c = calls[t]
    OBVIOUS
  <1>2. /\ At(t, "DeleteTempForm") /\ "DeleteTempForm" \in FormHeads
        /\ tempForms' = tempForms \ {c.form}
        /\ UNCHANGED <<formRecords, clientRecords, formDBInfos, rdb>>
    BY <1>1 DEF DeleteTempForm, FormHeads
  <1>3. /\ c \in FormCalls /\ FormSection(c.todo) /\ Head(c.todo) = "DeleteTempForm"
        /\ c.form \in Forms
        /\ Apart /\ OneHost /\ FormCallOK(c) /\ ListAndFlags(c) /\ Stored(c)
    BY <1>1, <1>2, Before
  <1>4. ListAndFlags(Idle) /\ Stored(Idle)
    BY <1>3, Even
  <1>5. CASE c.form \notin tempForms
    <2>1. Turn(t, Idle)
      BY <1>1, <1>5 DEF DeleteTempForm, Go, GoWith, Turn, AnyCall
    <2>2. tempForms' = tempForms
      BY <1>2, <1>5
    <2> QED BY <1>2, <1>3, <1>4, <2>1, <2>2, IdleOK, SameStep
  <1>6. CASE c.form \in tempForms
    <2>1. Go(t, Rest(t))
      BY <1>1, <1>6 DEF DeleteTempForm
    <2>2. PICK d : /\ Turn(t, d) /\ Past(c, d, "DeleteTempForm")
                   /\ \A s : Has(d, s) <=> Has(c, s) /\ s # "DeleteTempForm"
      BY <1>1, <1>2, <2>1, FormAfter
    <2>3. /\ Range(c.todo) \in {{"DeleteTempForm", "DeleteFormRecord", "DeleteHostRecord"},
              {"DeleteTempForm", "ModifyFormTempFlag", "CastUser", "UpdateDBRecord"}}
      BY <1>3 DEF FormSection
    <2>4. Unlisting(d)
      BY <2>2, <2>3 DEF Unlisting, Has
    <2>5. d \in FormCalls /\ d.form = c.form
      BY <2>2, <2>4, IdleIs DEF Past, SameForm, Unlisting
    <2>6. /\ ~AddsTemp(d) /\ ~Listing(d) /\ ~NeedsPlain(d) /\ ~Saving(d)
          /\ ~Has(d, "DeleteFormDBInfoCache") /\ ~Has(d, "InsertStorage")
          /\ ~Has(d, "DeleteStorage")
      BY <2>2, <2>3 DEF AddsTemp, Listing, NeedsPlain, Saving, Has
    <2>7. orphans' = orphans
      BY <2>2 DEF Turn, outside
    <2>8. c.form \notin tempForms' \cup orphans'
      BY <1>2, <1>3, <1>6, <2>7 DEF Apart
    <2>9. FormCallOK(d)'
      BY <2>5, <2>6, <2>8 DEF FormCallOK, Guarded, NewForm, NewRecord, PlainForm, OffTheList,
                              RowIsFresh, OwnRow, RowIsCached, NoRow
    <2>10. TableCallOK(d)'
      BY <2>5, NoTableSection
    <2>11. LessRecords /\ LessRows /\ LessHeld /\ LessTemps /\ tempForms' \subseteq tempForms
      BY <1>2, <2>7 DEF LessRecords, LessRows, LessHeld, LessTemps
    <2>12. Apart' /\ OneHost'
      BY <1>3, <2>7, <2>11, LessApart, LessOneHost
    <2>13. ListAndFlags(d)'
      <3>1. \A f \in tempForms' : IsTemp(f)'
        BY <1>2, <1>4, IdleIs DEF ListAndFlags, Listing, IsTemp
      <3>2. \A f \in Forms \ tempForms' : IsTemp(f)' => Unheld(f)' \/ f = c.form
        <4>1. \A f \in Forms \ tempForms : IsTemp(f) => Unheld(f)
          BY <1>4, IdleIs DEF ListAndFlags, Unlisting
        <4> QED BY <1>2, <4>1 DEF IsTemp, Unheld
      <3> QED BY <2>4, <2>5, <3>1, <3>2 DEF ListAndFlags
    <2>14. Stored(d)'
      <3>1. Stored(Idle)'
        BY <1>2, <1>4, <2>11, LessStored
      <3> QED BY <3>1, IdleIs DEF Stored
    <2> QED BY <2>2, <2>9, <2>10, <2>12, <2>13, <2>14, SerialNext
  <1> QED BY <1>5, <1>6

LEMMA DropRecordSerial ==
    ASSUME Typed, Serial, NEW t, Threads = {t}, DeleteFormRecord(t)
    PROVE  Serial'
  <1>1. PICK c : c = calls[t]
    OBVIOUS
  <1>2. /\ At(t, "DeleteFormRecord") /\ "DeleteFormRecord" \in FormHeads /\ Go(t, Rest(t))
        /\ formRecords' = Without(formRecords, {c.form})
        /\ UNCHANGED <<tempForms, clientRecords, formDBInfos, rdb>>
    BY <1>1 DEF DeleteFormRecord, FormHeads
  <1>3. /\ c \in FormCalls /\ FormSection(c.todo) /\ Head(c.todo) = "DeleteFormRecord"
        /\ Apart /\ OneHost /\ FormCallOK(c) /\ ListAndFlags(c) /\ Stored(c)
    BY <1>1, <1>2, Before
  <1>4. Stored(Idle)
    BY <1>3, Even
  <1>5. PICK d : Turn(t, d) /\ Past(c, d, "DeleteFormRecord")
    BY <1>1, <1>2, FormGo
  <1>6. orphans' = orphans
    BY <1>5 DEF Turn, outside
  <1>7. /\ LessRecords /\ LessUsers /\ DOMAIN formRecords' = DOMAIN formRecords \ {c.form}
    BY <1>2, WithoutLess
  <1>8. Less /\ LessRows /\ LessHeld /\ LessTemps
    BY <1>2, <1>6, <1>7 DEF Less, LessRows, LessHeld, LessTemps
  <1>9. Apart' /\ OneHost'
    BY <1>2, <1>3, <1>6, <1>8, LessApart, LessOneHost DEF Less
  <1>10. FormCallOK(d) /\ TableCallOK(d)'
    BY <1>3, <1>5, Onward
  <1>11. FormCallOK(d)'
    BY <1>2, <1>7, <1>8, <1>10, LessForm
  <1>12. Range(c.todo) = {"DeleteFormRecord", "DeleteHostRecord"}
    BY <1>3 DEF FormSection
  <1>13. ~Listing(c) /\ c.form \notin tempForms
    BY <1>3, <1>12 DEF Listing, Unlisting, Has, FormCallOK, Guarded, OffTheList
  <1>14. ListAndFlags(Idle)'
    <2>1. \A f \in tempForms' : IsTemp(f)'
      BY <1>2, <1>3, <1>7, <1>13 DEF ListAndFlags, IsTemp, LessRecords
    <2>2. ASSUME NEW f \in Forms \ tempForms', IsTemp(f)' PROVE Unheld(f)'
      <3>1. IsTemp(f) /\ f # c.form
        BY <1>7, <2>2 DEF IsTemp, LessRecords
      <3>2. Unheld(f)
        BY <1>2, <1>3, <2>2, <3>1 DEF ListAndFlags
      <3> QED BY <1>2, <3>2 DEF Unheld
    <2> QED BY <2>1, <2>2 DEF ListAndFlags
  <1>15. Stored(Idle)'
    BY <1>2, <1>4, <1>8, LessStored
  <1> QED BY <1>5, <1>9, <1>10, <1>11, <1>14, <1>15, EvenNext

LEMMA CastFlagSerial ==
    ASSUME Typed, Serial, NEW t, Threads = {t}, ModifyFormTempFlag(t)
    PROVE  Serial'
  <1>1. PICK c : c = calls[t]
    OBVIOUS
  <1>2. /\ At(t, "ModifyFormTempFlag") /\ "ModifyFormTempFlag" \in FormHeads
        /\ UNCHANGED <<tempForms, clientRecords, formDBInfos, rdb>>
    BY <1>1 DEF ModifyFormTempFlag, FormHeads
  <1>3. /\ c \in FormCalls /\ FormSection(c.todo) /\ Head(c.todo) = "ModifyFormTempFlag"
        /\ Apart /\ OneHost /\ FormCallOK(c) /\ ListAndFlags(c) /\ Stored(c)
    BY <1>1, <1>2, Before
  <1>4. Stored(Idle)
    BY <1>3, Even
  <1>5. Range(c.todo) = {"ModifyFormTempFlag", "CastUser", "UpdateDBRecord"}
    BY <1>3 DEF FormSection
  <1>6. ~Listing(c) /\ c.form \notin tempForms \cup orphans
    BY <1>3, <1>5 DEF Listing, Unlisting, Has, FormCallOK, Guarded, OffTheList
  <1>7. /\ \A f \in tempForms : IsTemp(f)
        /\ \A f \in Forms \ tempForms : IsTemp(f) => Unheld(f) \/ f = c.form
    BY <1>3, <1>6 DEF ListAndFlags
  <1>8. CASE c.form \notin DOMAIN formRecords
    <2>1. Turn(t, Idle) /\ formRecords' = formRecords
      BY <1>1, <1>8 DEF ModifyFormTempFlag, Go, GoWith, Turn, AnyCall
    <2>2. ListAndFlags(Idle)
      BY <1>7, <1>8 DEF ListAndFlags, IsTemp
    <2> QED BY <1>2, <1>3, <1>4, <2>1, <2>2, IdleOK, SameStep
  <1>9. CASE c.form \in DOMAIN formRecords
    <2>1. formRecords' = [formRecords EXCEPT ![c.form].temp = FALSE] /\ Go(t, Rest(t))
      BY <1>1, <1>9 DEF ModifyFormTempFlag
    <2>2. /\ DOMAIN formRecords' = DOMAIN formRecords
          /\ \A g \in DOMAIN formRecords :
                formRecords'[g].temp = (g # c.form /\ formRecords[g].temp)
      BY <1>9, <2>1, PlainIs
    <2>3. PICK d : Turn(t, d) /\ Past(c, d, "ModifyFormTempFlag")
      BY <1>1, <1>2, <2>1, FormGo
    <2>4. orphans' = orphans
      BY <2>3 DEF Turn, outside
    <2>5. \A f : IsTemp(f)' <=> IsTemp(f) /\ f # c.form
      BY <2>2 DEF IsTemp
    <2>6. Apart'
      <3>1. \A f \in DOMAIN formDBInfos' : NotTemp(f)'
        BY <1>2, <1>3, <2>4, <2>5 DEF Apart, NotTemp
      <3>2. \A f \in orphans' : f \in DOMAIN formRecords' => formRecords'[f].temp
        BY <1>3, <1>6, <2>2, <2>4 DEF Apart
      <3> QED BY <1>2, <1>3, <2>4, <3>1, <3>2 DEF Apart
    <2>7. OneHost'
      BY <1>2, <1>3, <2>4, LessOneHost DEF LessHeld
    <2>8. ListAndFlags(Idle)'
      <3>1. \A f \in tempForms' : IsTemp(f)'
        BY <1>2, <1>6, <1>7, <2>5
      <3>2. \A f \in Forms \ tempForms' : IsTemp(f)' => Unheld(f)'
        BY <1>2, <1>7, <2>5 DEF Unheld
      <3> QED BY <3>1, <3>2 DEF ListAndFlags
    <2>9. Stored(Idle)'
      BY <1>2, <1>4, LessStored DEF LessRows
    <2>10. TableCallOK(d)'
      BY <2>3, NoTableSection DEF Past
    <2>11. FormCallOK(d)'
      <3>1. CASE d = Idle
        BY <3>1, IdleOK
      <3>2. CASE d \in FormCalls /\ d # Idle
        <4>1. d.form = c.form
          BY <2>3, <3>2 DEF Past, SameForm
        <4>2. NotTemp(d.form)'
          BY <1>2, <1>6, <2>4, <2>5, <4>1 DEF NotTemp
        <4>3. \A s \in Steps \ {"DeleteHostRecord"} : Has(d, s) => s \in {"CastUser", "UpdateDBRecord"}
          BY <1>5, <2>3, <3>2 DEF Past, Has
        <4>4. Has(d, "CastUser")
          BY <1>5, <2>3, <3>2 DEF Past, Has, Steps
        <4>5. /\ ~AddsTemp(d) /\ ~Listing(d) /\ ~Unlisting(d) /\ ~Saving(d)
              /\ ~Has(d, "DeleteFormDBInfoCache") /\ ~Has(d, "InsertStorage")
              /\ ~Has(d, "DeleteStorage")
          BY <4>3, <4>4 DEF AddsTemp, Listing, Unlisting, Saving, Steps
        <4> QED BY <4>2, <4>5 DEF FormCallOK, Guarded, NewForm, NewRecord, PlainForm, OffTheList,
                                  RowIsFresh, OwnRow, RowIsCached, NoRow
      <3> QED BY <2>3, <3>1, <3>2 DEF Past
    <2> QED BY <2>3, <2>6, <2>7, <2>8, <2>9, <2>10, <2>11, EvenNext
  <1> QED BY <1>8, <1>9

\* A request that has only to save the row it copied.
LEMMA CopiedOK ==
    ASSUME NEW c, NEW d, NEW S, Copied(c, d, S)
    PROVE  /\ TableCallOK(d)'
           /\ NotTemp(c.form)' /\ (c.form \in DOMAIN formRecords' => formRecords'[c.form].uids \subseteq S)
                 => FormCallOK(d)'
  <1>1. d \in FormCalls /\ d.form = c.form /\ d.row = S
    BY DEF Copied
  <1>2. Range(d.todo) = {"UpdateDBRecord"}
    BY DEF Copied
  <1>3. /\ ~AddsTemp(d) /\ ~Listing(d) /\ ~Unlisting(d)
        /\ ~Has(d, "DeleteFormDBInfoCache") /\ ~Has(d, "InsertStorage") /\ ~Has(d, "DeleteStorage")
    BY <1>2 DEF AddsTemp, Listing, Unlisting, Has
  <1>4. ASSUME NotTemp(c.form)',
               c.form \in DOMAIN formRecords' => formRecords'[c.form].uids \subseteq S
        PROVE  FormCallOK(d)'
    <2>1. RowIsFresh(d)'
      BY <1>1, <1>4 DEF RowIsFresh
    <2> QED BY <1>1, <1>3, <1>4, <2>1 DEF FormCallOK, Guarded, NewForm, NewRecord, PlainForm,
                                          OffTheList, OwnRow, RowIsCached, NoRow
  <1> QED BY <1>1, <1>4, NoTableSection

LEMMA CastUserSerial ==
    ASSUME Typed, Serial, NEW t, Threads = {t}, CastUser(t)
    PROVE  Serial'
  <1>1. PICK c : c = calls[t]
    OBVIOUS
  <1>2. /\ At(t, "CastUser") /\ "CastUser" \in FormHeads
        /\ formRecords' = AddUid(c.form, c.uid)
        /\ UNCHANGED <<tempForms, clientRecords, formDBInfos, rdb>>
    BY <1>1 DEF CastUser, FormHeads
  <1>3. c \in FormCalls /\ c.uid \in Uids /\ FormCallOK(c)
    BY <1>1, <1>2, Before
  <1>4. /\ LessRecords /\ DOMAIN formRecords' = DOMAIN formRecords
        /\ \A g \in DOMAIN formRecords :
              formRecords'[g].uids = IF g = c.form THEN formRecords[c.form].uids \cup {c.uid}
                                                   ELSE formRecords[g].uids
    BY <1>2, <1>3, AddUidLess
  <1>5. Range(c.todo) = {"CastUser", "UpdateDBRecord"}
    BY <1>1, CastUserIs
  <1>6. PICK d : /\ Turn(t, d)
                 /\ \/ d = Idle
                    \/ /\ c.form \in DOMAIN formRecords
                       /\ Copied(c, d, formRecords[c.form].uids \cup {c.uid})
    BY <1>1, CastUserIs
  <1>7. NotTemp(c.form)'
    <2>1. NotTemp(c.form)
      BY <1>3, <1>5 DEF FormCallOK, Guarded, PlainForm, NeedsPlain, Has
    <2>2. LessTemps
      BY <1>2, <1>6 DEF LessTemps, Turn, outside
    <2> QED BY <1>4, <2>1, <2>2, LessTemp
  <1>8. FormCallOK(d)' /\ TableCallOK(d)'
    <2>1. CASE d = Idle
      BY <2>1, IdleOK
    <2>2. CASE d # Idle
      <3>1. PICK S : S = formRecords[c.form].uids \cup {c.uid} /\ Copied(c, d, S)
        BY <1>6, <2>2
      <3>2. c.form \in DOMAIN formRecords' => formRecords'[c.form].uids \subseteq S
        BY <1>4, <3>1
      <3> QED BY <1>7, <3>1, <3>2, CopiedOK
    <2> QED BY <2>1, <2>2
  <1> QED BY <1>2, <1>4, <1>6, <1>8, EvenStep

--------------------------------------------------------------------------------
(* One request at a time: the sections of an addition.                     *)

LEMMA AllotHostSerial ==
    ASSUME Typed, Serial, NEW t, Threads = {t}, AllotFormHostRecord(t)
    PROVE  Serial'
  <1>1. PICK c : c = calls[t]
    OBVIOUS
  <1>2. /\ At(t, "AllotFormHostRecord") /\ "AllotFormHostRecord" \in FormHeads
        /\ Go(t, Rest(t)) \/ Go(t, <<>>)
        /\ clientRecords' = Put(clientRecords, c.host, Held(c.host) \cup {c.form})
        /\ UNCHANGED <<formRecords, tempForms, formDBInfos, rdb>>
    BY <1>1 DEF AllotFormHostRecord, AcquireFails, FormHeads
  <1>3. /\ c \in FormCalls /\ FormSection(c.todo) /\ Head(c.todo) = "AllotFormHostRecord"
        /\ Has(c, "AllotFormHostRecord")
        /\ Apart /\ OneHost /\ FormCallOK(c) /\ ListAndFlags(c) /\ Stored(c)
    BY <1>1, <1>2, Before
  <1>4. ListAndFlags(Idle) /\ Stored(Idle)
    BY <1>3, Even
  <1>5. PICK d : Turn(t, d) /\ Past(c, d, "AllotFormHostRecord")
    BY <1>1, <1>2, FormGo
  <1>6. orphans' = orphans
    BY <1>5 DEF Turn, outside
  <1>7. Range(c.todo) \in {{"AllotFormHostRecord", "AllotTempForm", "AllotFormRecord"},
                           {"AllotFormHostRecord", "JoinUser", "UpdateDBRecord"}}
    BY <1>3 DEF FormSection
  <1>8. NotTemp(c.form)
    <2>1. CASE AddsTemp(c)
      BY <1>3, <2>1 DEF FormCallOK, Guarded, NewForm, NotTemp, IsTemp
    <2>2. CASE ~AddsTemp(c)
      <3>1. NeedsPlain(c)
        BY <1>7, <2>2 DEF NeedsPlain, AddsTemp, Has
      <3> QED BY <1>3, <3>1 DEF FormCallOK, Guarded, PlainForm
    <2> QED BY <2>1, <2>2
  <1>9. \A h \in DOMAIN clientRecords' : \A f \in clientRecords'[h] :
           \/ f = c.form /\ h = c.host
           \/ h \in DOMAIN clientRecords /\ f \in clientRecords[h]
    <2>1. PutsInto(clientRecords, c.host, Held(c.host) \cup {c.form}, clientRecords')
      BY <1>2, PutAt, Zenon
    <2>2. \A f \in Held(c.host) : c.host \in DOMAIN clientRecords /\ f \in clientRecords[c.host]
      BY HeldIs
    <2> QED BY <2>1, <2>2 DEF PutsInto
  <1>10. /\ \A f : f # c.form /\ Unheld(f) => Unheld(f)'
         /\ \A f : HeldBy(f, {}) => HeldBy(f, {c.host})'
    BY <1>9 DEF Unheld, HeldBy
  <1>11. LessRecords /\ LessRows /\ LessTemps
    BY <1>2, <1>6 DEF LessRecords, LessRows, LessTemps
  <1>12. Apart'
    BY <1>3, <1>6, <1>11, LessApart
  <1>13. OneHost'
    <2>1. ASSUME NEW f \in tempForms', NEW g \in DOMAIN clientRecords',
                 NEW h \in DOMAIN clientRecords', f \in clientRecords'[g], f \in clientRecords'[h]
          PROVE  g = h
      <3>1. f \in tempForms /\ f # c.form
        BY <1>2, <1>8 DEF NotTemp
      <3>2. /\ g \in DOMAIN clientRecords /\ f \in clientRecords[g]
            /\ h \in DOMAIN clientRecords /\ f \in clientRecords[h]
        BY <1>9, <2>1, <3>1
      <3> QED BY <1>3, <3>1, <3>2 DEF OneHost
    <2>2. \A f \in orphans' : Unheld(f)'
      BY <1>3, <1>6, <1>8, <1>10 DEF OneHost, NotTemp
    <2> QED BY <2>1, <2>2 DEF OneHost
  <1>14. ListAndFlags(Idle)'
    <2>1. \A f \in tempForms' : IsTemp(f)'
      BY <1>2, <1>4, IdleIs DEF ListAndFlags, Listing, IsTemp
    <2>2. \A f \in Forms \ tempForms' : IsTemp(f)' => Unheld(f)'
      <3>1. \A f \in Forms \ tempForms : IsTemp(f) => Unheld(f) /\ f # c.form
        BY <1>4, <1>8, IdleIs DEF ListAndFlags, Unlisting, NotTemp
      <3> QED BY <1>2, <1>10, <3>1 DEF IsTemp
    <2> QED BY <2>1, <2>2 DEF ListAndFlags
  <1>15. Stored(Idle)'
    BY <1>2, <1>4, <1>11, LessStored
  <1>16. FormCallOK(d)' /\ TableCallOK(d)'
    <2>1. CASE d = Idle
      BY <2>1, IdleOK
    <2>2. CASE /\ d \in FormCalls /\ SameForm(c, d)
               /\ \A s \in Steps \ {"DeleteHostRecord"} :
                     Has(d, s) <=> Has(c, s) /\ s # "AllotFormHostRecord"
      <3>1. d.host = c.host /\ d.uid = c.uid /\ d.form = c.form /\ d.row = c.row /\ d.temp = c.temp
        BY <2>2 DEF SameForm
      <3>2. /\ ~Has(d, "AllotFormHostRecord")
            /\ Has(d, "AllotTempForm") <=> Has(c, "AllotTempForm")
            /\ Has(d, "AllotFormRecord") <=> Has(c, "AllotTempForm")
            /\ Has(d, "UpdateDBRecord") <=> Has(c, "UpdateDBRecord")
            /\ ~Has(c, "CastUser")
        BY <1>7, <2>2 DEF Has, Steps
      <3>3. /\ ~Listing(d) /\ ~Unlisting(d)
            /\ ~Has(d, "DeleteFormDBInfoCache") /\ ~Has(d, "InsertStorage")
            /\ ~Has(d, "DeleteStorage")
        BY <1>7, <2>2, <3>2 DEF Listing, Unlisting, Has, Steps
      <3>4. NewForm(d)'
        <4>1. ASSUME AddsTemp(d)
              PROVE  /\ d.form \notin DOMAIN formRecords' \cup DOMAIN formDBInfos' \cup tempForms'
                                        \cup orphans'
                     /\ HeldBy(d.form, {d.host})'
          <5>1. AddsTemp(c)
            BY <3>1, <3>2, <4>1 DEF AddsTemp
          <5>2. /\ c.form \notin DOMAIN formRecords \cup DOMAIN formDBInfos \cup tempForms
                                   \cup orphans
                /\ HeldBy(c.form, {})
            BY <1>3, <5>1 DEF FormCallOK, Guarded, NewForm
          <5> QED BY <1>2, <1>6, <1>10, <3>1, <5>2
        <4> QED BY <3>2, <4>1 DEF NewForm
      <3>5. PlainForm(d)'
        BY <1>8, <1>11, <3>1, LessTemp DEF PlainForm
      <3>6. RowIsFresh(d)'
        BY <1>2, <1>3, <3>1, <3>2 DEF FormCallOK, RowIsFresh, Saving
      <3>7. TableCallOK(d)'
        BY <2>2, NoTableSection
      <3> QED BY <3>3, <3>4, <3>5, <3>6, <3>7 DEF FormCallOK, Guarded, NewRecord, OffTheList, OwnRow,
                                                  RowIsCached, NoRow
    <2> QED BY <1>5, <2>1, <2>2 DEF Past
  <1> QED BY <1>5, <1>12, <1>13, <1>14, <1>15, <1>16, EvenNext

LEMMA AllotTempSerial ==
    ASSUME Typed, Serial, NEW t, Threads = {t}, AllotTempForm(t)
    PROVE  Serial'
  <1>1. PICK c : c = calls[t]
    OBVIOUS
  <1>2. /\ At(t, "AllotTempForm") /\ "AllotTempForm" \in FormHeads /\ Go(t, Rest(t))
        /\ tempForms' = IF c.temp THEN tempForms \cup {c.form} ELSE tempForms
        /\ UNCHANGED <<formRecords, clientRecords, formDBInfos, rdb>>
    BY <1>1 DEF AllotTempForm, FormHeads
  <1>3. /\ c \in FormCalls /\ FormSection(c.todo) /\ Head(c.todo) = "AllotTempForm"
        /\ c.temp \in BOOLEAN
        /\ Apart /\ OneHost /\ FormCallOK(c) /\ ListAndFlags(c) /\ Stored(c)
    BY <1>1, <1>2, Before
  <1>4. ListAndFlags(Idle) /\ Stored(Idle)
    BY <1>3, Even
  <1>5. PICK d : /\ Turn(t, d) /\ Past(c, d, "AllotTempForm")
                 /\ \A s : Has(d, s) <=> Has(c, s) /\ s # "AllotTempForm"
    BY <1>1, <1>2, FormAfter
  <1>6. orphans' = orphans
    BY <1>5 DEF Turn, outside
  <1>7. Range(c.todo) = {"AllotTempForm", "AllotFormRecord"}
    BY <1>3 DEF FormSection
  <1>8. Has(d, "AllotFormRecord") /\ \A s : Has(d, s) => s = "AllotFormRecord"
    BY <1>5, <1>7 DEF Has
  <1>9. d \in FormCalls /\ d.form = c.form /\ d.temp = c.temp
    BY <1>5, <1>8, IdleIs DEF Past, SameForm
  <1>10. TableCallOK(d)'
    BY <1>9, NoTableSection
  <1>11. /\ ~AddsTemp(d) /\ ~Unlisting(d) /\ ~Saving(d)
         /\ ~Has(d, "DeleteFormDBInfoCache") /\ ~Has(d, "InsertStorage")
         /\ ~Has(d, "DeleteStorage")
         /\ Listing(d) <=> c.temp
         /\ NeedsPlain(d) <=> ~c.temp
    BY <1>8, <1>9 DEF AddsTemp, Listing, NeedsPlain, Unlisting, Saving
  <1>12. CASE ~c.temp
    <2>1. tempForms' = tempForms
      BY <1>2, <1>12
    <2>2. NotTemp(c.form)
      BY <1>3, <1>7, <1>12 DEF FormCallOK, Guarded, PlainForm, NeedsPlain, Has
    <2>3. NotTemp(c.form)'
      BY <1>2, <1>6, <2>1, <2>2 DEF NotTemp, IsTemp
    <2>4. FormCallOK(d)'
      BY <1>9, <1>11, <1>12, <2>3 DEF FormCallOK, Guarded, NewForm, NewRecord, PlainForm, OffTheList,
                                      RowIsFresh, OwnRow, RowIsCached, NoRow
    <2> QED BY <1>2, <1>3, <1>4, <1>5, <1>10, <2>1, <2>4, SameStep
  <1>13. CASE c.temp
    <2>1. /\ c.form \notin DOMAIN formRecords \cup DOMAIN formDBInfos \cup tempForms \cup orphans
          /\ HeldBy(c.form, {c.host})
      <3>1. AddsTemp(c) /\ ~Has(c, "AllotFormHostRecord")
        BY <1>7, <1>13 DEF AddsTemp, Has
      <3> QED BY <1>3, <3>1 DEF FormCallOK, Guarded, NewForm
    <2>2. tempForms' = tempForms \cup {c.form}
      BY <1>2, <1>13
    <2>3. FormCallOK(d)'
      <3>1. NewRecord(d)'
        BY <1>2, <1>9, <2>1, <2>2 DEF NewRecord
      <3> QED BY <1>11, <1>13, <3>1 DEF FormCallOK, Guarded, NewForm, PlainForm, OffTheList,
                                        RowIsFresh, OwnRow, RowIsCached, NoRow
    <2>4. Apart'
      <3>1. \A f \in DOMAIN formDBInfos' : NotTemp(f)'
        BY <1>2, <1>3, <1>6, <2>1, <2>2 DEF Apart, NotTemp, IsTemp
      <3> QED BY <1>2, <1>3, <1>6, <2>1, <2>2, <3>1 DEF Apart
    <2>5. OneHost'
      <3>1. \A g, h \in DOMAIN clientRecords :
               c.form \in clientRecords[g] /\ c.form \in clientRecords[h] => g = h
        BY <2>1 DEF HeldBy
      <3>2. \A f \in orphans' : Unheld(f)'
        BY <1>2, <1>3, <1>6 DEF OneHost, Unheld
      <3> QED BY <1>2, <1>3, <2>2, <3>1, <3>2 DEF OneHost
    <2>6. ListAndFlags(d)'
      <3>1. \A f \in tempForms' : IsTemp(f)' \/ d.form = f
        BY <1>2, <1>4, <1>9, <2>2, IdleIs DEF ListAndFlags, Listing, IsTemp
      <3>2. \A f \in Forms \ tempForms' : IsTemp(f)' => Unheld(f)'
        BY <1>2, <1>4, <2>2, IdleIs DEF ListAndFlags, Unlisting, IsTemp, Unheld
      <3> QED BY <1>11, <1>13, <3>1, <3>2 DEF ListAndFlags
    <2>7. Stored(d)'
      <3>1. Stored(Idle)'
        BY <1>2, <1>4, LessStored DEF LessRows
      <3> QED BY <3>1, IdleIs DEF Stored
    <2> QED BY <1>5, <1>10, <2>3, <2>4, <2>5, <2>6, <2>7, SerialNext
  <1> QED BY <1>3, <1>12, <1>13

LEMMA AllotRecordSerial ==
    ASSUME Typed, Serial, NEW t, Threads = {t}, AllotFormRecord(t)
    PROVE  Serial'
  <1>1. PICK c : c = calls[t]
    OBVIOUS
  <1>2. /\ At(t, "AllotFormRecord") /\ "AllotFormRecord" \in FormHeads
        /\ UNCHANGED <<tempForms, clientRecords, formDBInfos, rdb>>
    BY <1>1 DEF AllotFormRecord, FormHeads
  <1>3. /\ c \in FormCalls /\ FormSection(c.todo) /\ Head(c.todo) = "AllotFormRecord"
        /\ c.temp \in BOOLEAN /\ c.form \in Forms
        /\ Apart /\ OneHost /\ FormCallOK(c) /\ ListAndFlags(c) /\ Stored(c)
    BY <1>1, <1>2, Before
  <1>4. Stored(Idle)
    BY <1>3, Even
  <1>5. formRecords' = Put(formRecords, c.form, RecordOf(c))
    BY <1>1, AllotRecordIs
  <1>6. PICK d : /\ Turn(t, d)
                 /\ d = Idle \/ (~c.temp /\ Copied(c, d, RecordOf(c).uids))
    BY <1>1, AllotRecordIs
  <1>7. orphans' = orphans
    BY <1>6 DEF Turn, outside
  <1>8. PutsInto(formRecords, c.form, RecordOf(c), formRecords')
    BY <1>5, PutAt, Zenon
  <1>9. /\ c.form \in DOMAIN formRecords => RecordOf(c) = formRecords[c.form]
        /\ c.form \notin DOMAIN formRecords => RecordOf(c).temp = c.temp
    BY <1>3, RecordOfIs
  <1>10. /\ ~Unlisting(c) /\ (Listing(c) <=> c.temp) /\ (NeedsPlain(c) <=> ~c.temp)
    <2>1. Range(c.todo) = {"AllotFormRecord"}
      BY <1>3 DEF FormSection
    <2> QED BY <1>3, <2>1 DEF Unlisting, Listing, NeedsPlain, Has
  <1>11. IF c.temp THEN /\ c.form \notin DOMAIN formRecords \cup DOMAIN formDBInfos
                        /\ c.form \in tempForms \/ Unheld(c.form)
                   ELSE NotTemp(c.form)
    BY <1>3, <1>10 DEF FormCallOK, Guarded, NewRecord, PlainForm
  <1>12. /\ \A f : IsTemp(f)' <=> IsTemp(f) \/ (c.temp /\ f = c.form)
         /\ \A f \in DOMAIN formRecords' : f # c.form => f \in DOMAIN formRecords
                                             /\ formRecords'[f] = formRecords[f]
         /\ formRecords'[c.form] = RecordOf(c)
         /\ formRecords'[c.form].temp = c.temp
    <2>1. DOMAIN formRecords' = DOMAIN formRecords \cup {c.form}
      BY <1>8 DEF PutsInto
    <2>2. formRecords'[c.form] = RecordOf(c)
      BY <1>8 DEF PutsInto
    <2>3. \A f \in DOMAIN formRecords' : f # c.form => f \in DOMAIN formRecords
                                             /\ formRecords'[f] = formRecords[f]
      BY <1>8, <2>1 DEF PutsInto
    <2>4. RecordOf(c).temp = c.temp
      <3>1. CASE c.form \in DOMAIN formRecords
        <4>1. ~c.temp /\ ~formRecords[c.form].temp
          BY <1>11, <3>1 DEF NotTemp, IsTemp
        <4>2. formRecords[c.form].temp \in BOOLEAN
          BY <3>1, RecordsAre
        <4> QED BY <1>3, <1>9, <3>1, <4>1, <4>2
      <3> QED BY <1>9, <3>1
    <2>5. \A f : IsTemp(f)' <=> IsTemp(f) \/ (c.temp /\ f = c.form)
      <3>1. ASSUME NEW f, f # c.form PROVE IsTemp(f)' <=> IsTemp(f)
        BY <2>1, <2>3, <3>1 DEF IsTemp
      <3>2. IsTemp(c.form)' <=> c.temp
        BY <2>1, <2>2, <2>4 DEF IsTemp
      <3>3. IsTemp(c.form) => c.temp
        BY <1>11 DEF NotTemp
      <3> QED BY <3>1, <3>2, <3>3
    <2> QED BY <2>2, <2>3, <2>4, <2>5
  <1>13. Apart'
    <2>1. \A f \in DOMAIN formDBInfos' : NotTemp(f)'
      BY <1>2, <1>3, <1>7, <1>11, <1>12 DEF Apart, NotTemp
    <2>2. \A f \in orphans' : f \in DOMAIN formRecords' => formRecords'[f].temp
      BY <1>3, <1>7, <1>11, <1>12 DEF Apart, NotTemp
    <2> QED BY <1>2, <1>3, <1>7, <2>1, <2>2 DEF Apart
  <1>14. OneHost'
    BY <1>2, <1>3, <1>7, LessOneHost DEF LessHeld
  <1>15. ListAndFlags(Idle)'
    <2>1. \A f \in tempForms' : IsTemp(f)'
      BY <1>2, <1>3, <1>10, <1>12 DEF ListAndFlags
    <2>2. ASSUME NEW f \in Forms \ tempForms', IsTemp(f)' PROVE Unheld(f)'
      <3>1. Unheld(f)
        BY <1>2, <1>3, <1>10, <1>11, <1>12, <2>2 DEF ListAndFlags
      <3> QED BY <1>2, <3>1 DEF Unheld
    <2> QED BY <2>1, <2>2 DEF ListAndFlags
  <1>16. Stored(Idle)'
    BY <1>2, <1>4, LessStored DEF LessRows
  <1>17. FormCallOK(d)' /\ TableCallOK(d)'
    <2>1. CASE d = Idle
      BY <2>1, IdleOK
    <2>2. CASE d # Idle
      <3>1. PICK S : S = RecordOf(c).uids /\ Copied(c, d, S) /\ ~c.temp
        BY <1>6, <2>2
      <3>2. NotTemp(c.form)'
        BY <1>2, <1>7, <1>11, <1>12, <3>1 DEF NotTemp
      <3>3. c.form \in DOMAIN formRecords' => formRecords'[c.form].uids \subseteq S
        BY <1>12, <3>1
      <3> QED BY <3>1, <3>2, <3>3, CopiedOK
    <2> QED BY <2>1, <2>2
  <1> QED BY <1>6, <1>13, <1>14, <1>15, <1>16, <1>17, EvenNext

--------------------------------------------------------------------------------
(* One request at a time: the sections that save or delete a row.          *)

LEMMA Storing ==
    ASSUME NEW d,
           \A x : Has(d, x) => x \in {"DeleteStorage", "InsertStorage", "DeleteFormUserUid",
                                      "DeleteHostRecord"}
    PROVE  /\ TableCallOK(d)'
           /\ RowIsCached(d)' /\ NoRow(d)' => FormCallOK(d)'
  <1>1. /\ ~AddsTemp(d) /\ ~Listing(d) /\ ~NeedsPlain(d) /\ ~Unlisting(d) /\ ~Saving(d)
        /\ ~Has(d, "DeleteFormDBInfoCache")
    BY DEF AddsTemp, Listing, NeedsPlain, Unlisting, Saving
  <1>2. TableCallOK(d)'
    BY DEF TableCallOK
  <1> QED BY <1>1, <1>2 DEF FormCallOK, Guarded, NewForm, NewRecord, PlainForm, OffTheList,
                            RowIsFresh, OwnRow

LEMMA IdleLists ==
    /\ ListAndFlags(Idle) => \A d : ListAndFlags(d)
    /\ ListAndFlags(Idle)' => \A d : ListAndFlags(d)'
  BY IdleIs DEF ListAndFlags, Listing, Unlisting

\* Only the rows change.
LEMMA RowsStep ==
    ASSUME Typed, NEW t, Threads = {t}, NEW d, Turn(t, d),
           UNCHANGED <<formRecords, tempForms, clientRecords>>,
           Apart, OneHost, ListAndFlags(Idle), \A f \in DOMAIN formDBInfos' : NotTemp(f),
           FormCallOK(d)', TableCallOK(d)', Stored(d)'
    PROVE  Serial'
  <1>1. orphans' = orphans
    BY DEF Turn, outside
  <1>2. Apart'
    BY <1>1 DEF Apart, NotTemp, IsTemp
  <1>3. OneHost'
    BY <1>1, LessOneHost DEF LessHeld
  <1>4. ListAndFlags(Idle)'
    <2>1. \A f \in tempForms' : IsTemp(f)'
      BY IdleIs DEF ListAndFlags, Listing, IsTemp
    <2>2. \A f \in Forms \ tempForms' : IsTemp(f)' => Unheld(f)'
      BY IdleIs DEF ListAndFlags, Unlisting, IsTemp, Unheld
    <2> QED BY <2>1, <2>2 DEF ListAndFlags
  <1> QED BY <1>2, <1>3, <1>4, IdleLists, SerialNext

LEMMA SaveSerial ==
    ASSUME Typed, Serial, NEW t, Threads = {t}, UpdateDBRecord(t)
    PROVE  Serial'
  <1>1. PICK c : c = calls[t]
    OBVIOUS
  <1>2. /\ At(t, "UpdateDBRecord") /\ "UpdateDBRecord" \in FormHeads
        /\ formDBInfos' = Put(formDBInfos, c.form, c.row)
        /\ UNCHANGED <<formRecords, tempForms, clientRecords, rdb>>
    BY <1>1 DEF UpdateDBRecord, FormHeads
  <1>3. /\ c \in FormCalls /\ FormSection(c.todo) /\ Head(c.todo) = "UpdateDBRecord"
        /\ Apart /\ OneHost /\ FormCallOK(c) /\ ListAndFlags(c) /\ Stored(c)
    BY <1>1, <1>2, Before
  <1>4. ListAndFlags(Idle) /\ Stored(Idle)
    BY <1>3, Even
  <1>5. PICK d : Turn(t, d) /\ Saved(c, d)
    BY <1>1, UpdateIs
  <1>6. NotTemp(c.form)
    <2>1. NeedsPlain(c)
      BY <1>3 DEF FormSection, NeedsPlain, Has
    <2> QED BY <1>3, <2>1 DEF FormCallOK, Guarded, PlainForm
  <1>7. PutsInto(formDBInfos, c.form, c.row, formDBInfos')
    BY <1>2, PutAt, Zenon
  <1>8. \A f \in DOMAIN formDBInfos' : NotTemp(f)
    BY <1>3, <1>6, <1>7 DEF Apart, PutsInto
  <1>9. /\ \A x : Has(d, x) => x \in {"DeleteStorage", "InsertStorage", "DeleteFormUserUid",
                                      "DeleteHostRecord"}
        /\ Has(d, "DeleteStorage") => Has(d, "InsertStorage")
        /\ Has(d, "InsertStorage") => d.form = c.form /\ d.row = c.row
    BY <1>5, IdleIs DEF Saved, Has, SameForm
  <1>10. RowIsCached(d)'
    BY <1>7, <1>9 DEF RowIsCached, PutsInto
  <1>11. NoRow(d)'
    BY <1>9 DEF NoRow
  <1>12. FormCallOK(d)' /\ TableCallOK(d)'
    BY <1>9, <1>10, <1>11, Storing
  <1>13. Stored(d)'
    <2>1. ASSUME NEW f \in DOMAIN formDBInfos'
          PROVE  \/ f \in DOMAIN rdb' /\ formDBInfos'[f] \subseteq rdb'[f]
                 \/ formDBInfos'[f] = {}
                 \/ Has(d, "InsertStorage") /\ d.form = f
      <3>1. CASE f = c.form /\ Has(d, "InsertStorage")
        BY <1>9, <3>1
      <3>2. CASE f # c.form \/ ~Has(d, "InsertStorage")
        <4>1. f \in DOMAIN formDBInfos /\ formDBInfos'[f] = formDBInfos[f]
          BY <1>5, <1>7, <3>2 DEF Saved, PutsInto
        <4>2. (f \in DOMAIN rdb /\ formDBInfos[f] \subseteq rdb[f]) \/ formDBInfos[f] = {}
          BY <1>4, <4>1, IdleIs DEF Stored
        <4> QED BY <1>2, <4>1, <4>2
      <3> QED BY <3>1, <3>2
    <2> QED BY <2>1 DEF Stored
  <1> QED BY <1>2, <1>3, <1>4, <1>5, <1>8, <1>12, <1>13, RowsStep

LEMMA UnstoreSerial ==
    ASSUME Typed, Serial, NEW t, Threads = {t}, DeleteStorage(t)
    PROVE  Serial'
  <1>1. PICK c : c = calls[t]
    OBVIOUS
  <1>2. /\ At(t, "DeleteStorage") /\ "DeleteStorage" \in FormHeads /\ Go(t, Rest(t))
        /\ rdb' = Without(rdb, {c.form})
        /\ UNCHANGED <<formRecords, tempForms, clientRecords, formDBInfos>>
    BY <1>1 DEF DeleteStorage, FormHeads
  <1>3. /\ c \in FormCalls /\ FormSection(c.todo) /\ Head(c.todo) = "DeleteStorage"
        /\ Has(c, "DeleteStorage")
        /\ Apart /\ OneHost /\ FormCallOK(c) /\ ListAndFlags(c) /\ Stored(c)
    BY <1>1, <1>2, Before
  <1>4. ListAndFlags(Idle)
    BY <1>3, Even
  <1>5. PICK d : /\ Turn(t, d) /\ Past(c, d, "DeleteStorage")
                 /\ \A s : Has(d, s) <=> Has(c, s) /\ s # "DeleteStorage"
    BY <1>1, <1>2, FormAfter
  <1>6. /\ FormCallOK(d) /\ TableCallOK(d)'
    BY <1>3, <1>5, Onward
  <1>7. Less /\ LessUsers
    BY <1>2, <1>5 DEF Less, LessRecords, LessUsers, LessRows, LessHeld, LessTemps, Turn, outside
  <1>8. FormCallOK(d)'
    BY <1>2, <1>6, <1>7, LessForm
  <1>9. /\ DOMAIN rdb' = DOMAIN rdb \ {c.form}
        /\ \A f \in DOMAIN rdb' : rdb'[f] = rdb[f]
    <2>1. LeavesOut(rdb, {c.form}, rdb')
      BY <1>2, WithoutAt, Zenon
    <2> QED BY <2>1 DEF LeavesOut
  <1>10. Has(c, "InsertStorage") => Has(d, "InsertStorage") /\ d.form = c.form
    BY <1>5, IdleIs DEF Past, SameForm
  <1>11. ~Has(c, "InsertStorage") => c.form \notin DOMAIN formDBInfos
    <2>1. ~Has(c, "DeleteFormDBInfoCache")
      BY <1>3 DEF FormSection, Has
    <2> QED BY <1>3, <2>1 DEF FormCallOK, Guarded, NoRow
  <1>12. Stored(d)'
    <2>1. ASSUME NEW f \in DOMAIN formDBInfos'
          PROVE  \/ f \in DOMAIN rdb' /\ formDBInfos'[f] \subseteq rdb'[f]
                 \/ formDBInfos'[f] = {}
                 \/ Has(d, "InsertStorage") /\ d.form = f
      <3>1. CASE f = c.form
        BY <1>2, <1>10, <1>11, <3>1
      <3>2. CASE f # c.form
        <4>1. (f \in DOMAIN rdb /\ formDBInfos[f] \subseteq rdb[f]) \/ formDBInfos[f] = {}
          BY <1>2, <1>3, <3>2 DEF Stored
        <4> QED BY <1>2, <1>9, <3>2, <4>1
      <3> QED BY <3>1, <3>2
    <2> QED BY <2>1 DEF Stored
  <1>13. \A f \in DOMAIN formDBInfos' : NotTemp(f)
    BY <1>2, <1>3 DEF Apart
  <1> QED BY <1>2, <1>3, <1>4, <1>5, <1>6, <1>8, <1>12, <1>13, RowsStep

LEMMA StoreSerial ==
    ASSUME Typed, Serial, NEW t, Threads = {t}, InsertStorage(t)
    PROVE  Serial'
  <1>1. PICK c : c = calls[t]
    OBVIOUS
  <1>2. /\ At(t, "InsertStorage") /\ "InsertStorage" \in FormHeads /\ Go(t, Rest(t))
        /\ rdb' = Put(rdb, c.form, c.row)
        /\ UNCHANGED <<formRecords, tempForms, clientRecords, formDBInfos>>
    BY <1>1 DEF InsertStorage, FormHeads
  <1>3. /\ c \in FormCalls /\ FormSection(c.todo) /\ Head(c.todo) = "InsertStorage"
        /\ Has(c, "InsertStorage")
        /\ Apart /\ OneHost /\ FormCallOK(c) /\ ListAndFlags(c) /\ Stored(c)
    BY <1>1, <1>2, Before
  <1>4. ListAndFlags(Idle)
    BY <1>3, Even
  <1>5. PICK d : /\ Turn(t, d) /\ Past(c, d, "InsertStorage")
                 /\ \A s : Has(d, s) <=> Has(c, s) /\ s # "InsertStorage"
    BY <1>1, <1>2, FormAfter
  <1>6. \A x : Has(d, x) => x \in {"DeleteFormUserUid", "DeleteHostRecord"}
    BY <1>3, <1>5 DEF FormSection, Has
  <1>7. FormCallOK(d)' /\ TableCallOK(d)'
    <2>1. RowIsCached(d)' /\ NoRow(d)'
      BY <1>6 DEF RowIsCached, NoRow
    <2> QED BY <1>6, <2>1, Storing
  <1>8. PutsInto(rdb, c.form, c.row, rdb')
    BY <1>2, PutAt, Zenon
  <1>9. c.form \in DOMAIN formDBInfos => formDBInfos[c.form] \subseteq c.row
    BY <1>3 DEF FormCallOK, Guarded, RowIsCached
  <1>10. Stored(d)'
    <2>1. ASSUME NEW f \in DOMAIN formDBInfos'
          PROVE  \/ f \in DOMAIN rdb' /\ formDBInfos'[f] \subseteq rdb'[f]
                 \/ formDBInfos'[f] = {}
      <3>1. CASE f = c.form
        BY <1>2, <1>8, <1>9, <3>1 DEF PutsInto
      <3>2. CASE f # c.form
        <4>1. (f \in DOMAIN rdb /\ formDBInfos[f] \subseteq rdb[f]) \/ formDBInfos[f] = {}
          BY <1>2, <1>3, <3>2 DEF Stored
        <4> QED BY <1>2, <1>8, <3>2, <4>1 DEF PutsInto
      <3> QED BY <3>1, <3>2
    <2> QED BY <2>1 DEF Stored
  <1>11. \A f \in DOMAIN formDBInfos' : NotTemp(f)
    BY <1>2, <1>3 DEF Apart
  <1> QED BY <1>2, <1>3, <1>4, <1>5, <1>7, <1>10, <1>11, RowsStep

LEMMA UncacheSerial ==
    ASSUME Typed, Serial, NEW t, Threads = {t}, DeleteFormDBInfoCache(t)
    PROVE  Serial'
  <1>1. PICK c : c = calls[t]
    OBVIOUS
  <1>2. /\ At(t, "DeleteFormDBInfoCache") /\ "DeleteFormDBInfoCache" \in FormHeads
        /\ Go(t, Rest(t))
        /\ formDBInfos' = Without(formDBInfos, {c.form})
        /\ UNCHANGED <<formRecords, tempForms, clientRecords, rdb>>
    BY <1>1 DEF DeleteFormDBInfoCache, FormHeads
  <1>3. /\ c \in FormCalls /\ FormSection(c.todo) /\ Head(c.todo) = "DeleteFormDBInfoCache"
        /\ Apart /\ OneHost /\ FormCallOK(c) /\ ListAndFlags(c) /\ Stored(c)
    BY <1>1, <1>2, Before
  <1>4. ListAndFlags(Idle) /\ Stored(Idle)
    BY <1>3, Even
  <1>5. PICK d : /\ Turn(t, d) /\ Past(c, d, "DeleteFormDBInfoCache")
                 /\ \A s : Has(d, s) <=> Has(c, s) /\ s # "DeleteFormDBInfoCache"
    BY <1>1, <1>2, FormAfter
  <1>6. /\ DOMAIN formDBInfos' = DOMAIN formDBInfos \ {c.form}
        /\ \A f \in DOMAIN formDBInfos' : formDBInfos'[f] = formDBInfos[f]
    <2>1. LeavesOut(formDBInfos, {c.form}, formDBInfos')
      BY <1>2, WithoutAt, Zenon
    <2> QED BY <2>1 DEF LeavesOut
  <1>7. \A x : Has(d, x) => x \in {"DeleteStorage", "DeleteHostRecord"}
    BY <1>3, <1>5 DEF FormSection, Has
  <1>8. Has(d, "DeleteStorage") => d.form = c.form
    BY <1>5, IdleIs DEF Past, SameForm
  <1>9. FormCallOK(d)' /\ TableCallOK(d)'
    <2>1. RowIsCached(d)' /\ NoRow(d)'
      BY <1>6, <1>7, <1>8 DEF RowIsCached, NoRow
    <2> QED BY <1>7, <2>1, Storing
  <1>10. Stored(d)'
    <2>1. LessRows
      BY <1>6 DEF LessRows
    <2>2. Stored(Idle)'
      BY <1>2, <1>4, <2>1, LessStored
    <2> QED BY <2>2, IdleIs DEF Stored
  <1>11. \A f \in DOMAIN formDBInfos' : NotTemp(f)
    BY <1>3, <1>6 DEF Apart
  <1> QED BY <1>2, <1>3, <1>4, <1>5, <1>9, <1>10, <1>11, RowsStep

--------------------------------------------------------------------------------
(* One request at a time: the sections that go through a table.            *)

\* Such a section when the tables lose what they lose, and the list only forms whose
\* records go as well.
LEMMA LessTableStep ==
    ASSUME Typed, Serial, NEW t, Threads = {t}, NEW x \in TableHeads, At(t, x),
           NEW c, NEW d, Turn(t, d), PastTable(c, d, x),
           LessRecords, LessRows, LessHeld, tempForms' \subseteq tempForms,
           \A f \in tempForms' : IsTemp(f) => f \in DOMAIN formRecords',
           \A f \in tempForms \ tempForms' : f \notin DOMAIN formRecords',
           \A f \in DOMAIN formDBInfos' : f \in DOMAIN rdb => f \in DOMAIN rdb' /\ rdb[f] \subseteq rdb'[f],
           TableCallOK(d)'
    PROVE  Serial'
  <1>1. Apart /\ OneHost /\ ListAndFlags(Idle) /\ Stored(Idle)
    <2>1. PICK b : b = calls[t]
      OBVIOUS
    <2> QED BY <2>1, BeforeTable
  <1>2. orphans' = orphans
    BY DEF Turn, outside
  <1>3. LessTemps /\ Less
    BY <1>2 DEF Less, LessTemps
  <1>4. Apart' /\ OneHost'
    BY <1>1, <1>2, <1>3, LessApart, LessOneHost
  <1>5. ListAndFlags(Idle)'
    BY <1>1, <1>3, LessLists
  <1>6. Stored(Idle)'
    BY <1>1, LessStored
  <1>7. FormCallOK(d)'
    <2>1. \A y \in FormHeads : ~Has(d, y)
      BY IdleIs, TableHas, HeadsApart DEF PastTable
    <2> QED BY <2>1, NoFormSection
  <1> QED BY <1>4, <1>5, <1>6, <1>7, EvenNext

\* The request has collected what it needed, or deletes no records by their forms.
LEMMA TableDone ==
    ASSUME NEW d, ~Has(d, "BatchDeleteNoHostDBForms"), ~Has(d, "CleanRemovedFormRecords")
    PROVE  TableCallOK(d)'
  BY DEF TableCallOK

LEMMA PastTableHas ==
    ASSUME NEW c, NEW d, NEW x, PastTable(c, d, x)
    PROVE  \A s : Has(d, s) => Has(c, s) /\ s # x
  BY IdleIs DEF PastTable, Has

LEMMA GetDBSerial ==
    ASSUME Typed, Serial, NEW t, Threads = {t}, GetNoHostDBForms(t)
    PROVE  Serial'
  <1>1. PICK b : b = calls[t]
    OBVIOUS
  <1>2. /\ At(t, "GetNoHostDBForms") /\ "GetNoHostDBForms" \in TableHeads
        /\ UNCHANGED <<tempForms, clientRecords, rdb>>
    BY DEF GetNoHostDBForms, TableHeads
  <1>3. b \in TableCalls /\ TableSection(b.todo) /\ Head(b.todo) = "GetNoHostDBForms"
        /\ b.uid \in Uids /\ Apart
    BY <1>1, <1>2, BeforeTable
  <1>4. /\ formDBInfos' = Disowned(Mine(b), b.uid)
        /\ formRecords' = DelUid(Mine(b) \ Emptied(b), b.uid)
    BY <1>1, GetDBIs
  <1>5. PICK c, d : /\ c \in TableCalls /\ c.noHost = Emptied(b) /\ c.todo = b.todo
                    /\ Turn(t, d) /\ PastTable(c, d, "GetNoHostDBForms")
    BY <1>1, GetDBIs
  <1>6. LessRecords /\ DOMAIN formRecords' = DOMAIN formRecords
    BY <1>3, <1>4, DelUidLess
  <1>7. /\ DOMAIN formDBInfos' = DOMAIN formDBInfos
        /\ \A f \in DOMAIN formDBInfos : formDBInfos'[f] \subseteq formDBInfos[f]
        /\ \A f \in DOMAIN formDBInfos \cap Mine(b) : formDBInfos'[f] = formDBInfos[f] \ {b.uid}
    <2>1. PICK F : F = Mine(b)
      OBVIOUS
    <2>2. formDBInfos' = Disowned(F, b.uid)
      BY <1>4, <2>1
    <2> QED BY <2>1, <2>2, DisownedIs
  <1>8. LessRows /\ LessHeld
    BY <1>2, <1>7 DEF LessRows, LessHeld
  <1>9. TableCallOK(d)'
    <2>1. ASSUME Has(d, "BatchDeleteNoHostDBForms")
          PROVE  /\ d.noHost \cap tempForms' = {}
                 /\ \A f \in d.noHost \cap DOMAIN formDBInfos' : formDBInfos'[f] = {}
      <3>1. d.noHost = Emptied(b)
        BY <1>5, <2>1, IdleIs DEF PastTable, SameTables
      <3>2. \A f \in Emptied(b) : f \in Mine(b) /\ f \in DOMAIN formDBInfos /\ formDBInfos[f] = {b.uid}
        BY DEF Emptied, Mine
      <3>3. \A f \in Emptied(b) : f \notin tempForms' /\ formDBInfos'[f] = {}
        BY <1>2, <1>3, <1>7, <3>2 DEF Apart, NotTemp
      <3> QED BY <3>1, <3>3
    <2>2. ~Has(d, "CleanRemovedFormRecords")
      <3>1. ~Has(c, "CleanRemovedFormRecords")
        BY <1>3, <1>5 DEF TableSection, Has
      <3> QED BY <1>5, <3>1, PastTableHas
    <2> QED BY <2>1, <2>2 DEF TableCallOK
  <1>10. \A f \in tempForms' : IsTemp(f) => f \in DOMAIN formRecords'
    BY <1>6 DEF IsTemp
  <1> QED BY <1>2, <1>5, <1>6, <1>8, <1>9, <1>10, LessTableStep

\* m with the entries of n over it.
LaidOver(m, n, k) ==
    /\ DOMAIN k = DOMAIN m \cup DOMAIN n
    /\ \A x \in DOMAIN k : k[x] = IF x \in DOMAIN n THEN n[x] ELSE m[x]

LEMMA OverAt == \A m, n, k : k = Over(m, n) => LaidOver(m, n, k)
  BY DEF Over, LaidOver

LEMMA BatchDBSerial ==
    ASSUME Typed, Serial, NEW t, Threads = {t}, BatchDeleteNoHostDBForms(t)
    PROVE  Serial'
  <1>1. PICK c : c = calls[t]
    OBVIOUS
  <1>2. /\ At(t, "BatchDeleteNoHostDBForms") /\ "BatchDeleteNoHostDBForms" \in TableHeads
        /\ Go(t, Rest(t))
        /\ UNCHANGED <<tempForms, clientRecords>>
    BY DEF BatchDeleteNoHostDBForms, TableHeads
  <1>3. /\ c \in TableCalls /\ TableSection(c.todo) /\ Head(c.todo) = "BatchDeleteNoHostDBForms"
        /\ c.uid \in Uids
        /\ Apart /\ OneHost /\ TableCallOK(c) /\ ListAndFlags(Idle) /\ Stored(Idle)
    BY <1>1, <1>2, BeforeTable
  <1>4. PICK d : Turn(t, d) /\ PastTable(c, d, "BatchDeleteNoHostDBForms")
    BY <1>1, <1>2, TableGo
  <1>5. /\ c.noHost \cap tempForms = {}
        /\ \A f \in c.noHost \cap DOMAIN formDBInfos : formDBInfos[f] = {}
    BY <1>3 DEF TableSection, TableCallOK, Has
  <1>6. TableCallOK(d)'
    <2>1. ~Has(c, "CleanRemovedFormRecords")
      BY <1>3 DEF TableSection, Has
    <2> QED BY <1>4, <2>1, PastTableHas, TableDone
  <1>7. CASE /\ formDBInfos' = Without(formDBInfos, c.noHost \cap DOMAIN formDBInfos)
             /\ rdb' = Without(rdb, c.noHost \cap DOMAIN formDBInfos)
             /\ formRecords' = Without(formRecords, c.noHost)
    <2>1. LessRecords /\ DOMAIN formRecords' = DOMAIN formRecords \ c.noHost
      BY <1>7, WithoutLess
    <2>2. /\ LeavesOut(formDBInfos, c.noHost \cap DOMAIN formDBInfos, formDBInfos')
          /\ LeavesOut(rdb, c.noHost \cap DOMAIN formDBInfos, rdb')
      BY <1>7, WithoutAt, Zenon
    <2>3. LessRows /\ LessHeld
      BY <1>2, <2>2 DEF LessRows, LessHeld, LeavesOut
    <2>4. \A f \in DOMAIN formDBInfos' : f \in DOMAIN rdb => f \in DOMAIN rdb' /\ rdb[f] \subseteq rdb'[f]
      BY <2>2 DEF LeavesOut
    <2>5. \A f \in tempForms' : IsTemp(f) => f \in DOMAIN formRecords'
      BY <1>2, <1>5, <2>1 DEF IsTemp
    <2> QED BY <1>2, <1>4, <1>6, <2>1, <2>3, <2>4, <2>5, LessTableStep
  <1>8. CASE /\ formDBInfos' = Over(formDBInfos, Back(c.noHost, c.uid))
             /\ rdb' = Over(rdb, Back(c.noHost, c.uid))
             /\ formRecords' = formRecords
    <2>1. PICK n : n = Back(c.noHost, c.uid)
      OBVIOUS
    <2>2. DOMAIN n \subseteq DOMAIN formDBInfos
      BY <2>1 DEF Back
    <2>3. LaidOver(formDBInfos, n, formDBInfos') /\ LaidOver(rdb, n, rdb')
      BY <1>8, <2>1, OverAt, Zenon
    <2>4. \A f \in DOMAIN formDBInfos' : NotTemp(f)
      BY <1>3, <2>2, <2>3 DEF LaidOver, Apart
    <2>5. Stored(d)'
      <3>1. ASSUME NEW f \in DOMAIN formDBInfos'
            PROVE  \/ f \in DOMAIN rdb' /\ formDBInfos'[f] \subseteq rdb'[f]
                   \/ formDBInfos'[f] = {}
        <4>1. CASE f \in DOMAIN n
          BY <2>3, <4>1 DEF LaidOver
        <4>2. CASE f \notin DOMAIN n
          <5>1. (f \in DOMAIN rdb /\ formDBInfos[f] \subseteq rdb[f]) \/ formDBInfos[f] = {}
            BY <1>3, <2>2, <2>3, <4>2, IdleIs DEF Stored, LaidOver
          <5> QED BY <2>3, <4>2, <5>1 DEF LaidOver
        <4> QED BY <4>1, <4>2
      <3> QED BY <3>1 DEF Stored
    <2>6. FormCallOK(d)'
      <3>1. \A y \in FormHeads : ~Has(d, y)
        BY <1>4, IdleIs, TableHas, HeadsApart DEF PastTable
      <3> QED BY <3>1, NoFormSection
    <2> QED BY <1>2, <1>3, <1>4, <1>6, <1>8, <2>4, <2>5, <2>6, RowsStep
  <1> QED BY <1>1, <1>7, <1>8, BatchDBIs

LEMMA GetTempSerial ==
    ASSUME Typed, Serial, NEW t, Threads = {t}, GetNoHostTempForms(t)
    PROVE  Serial'
  <1>1. PICK b : b = calls[t]
    OBVIOUS
  <1>2. /\ At(t, "GetNoHostTempForms") /\ "GetNoHostTempForms" \in TableHeads
        /\ UNCHANGED <<tempForms, clientRecords, formDBInfos, rdb>>
    BY DEF GetNoHostTempForms, TableHeads
  <1>3. b \in TableCalls /\ TableSection(b.todo) /\ Head(b.todo) = "GetNoHostTempForms"
        /\ b.uid \in Uids
    BY <1>1, <1>2, BeforeTable
  <1>4. formRecords' = DelUid(MineTemp(b), b.uid)
    BY <1>1, GetTempIs
  <1>5. PICK c, d : /\ c \in TableCalls /\ c.todo = b.todo
                    /\ Turn(t, d) /\ PastTable(c, d, "GetNoHostTempForms")
    BY <1>1, GetTempIs
  <1>6. LessRecords /\ DOMAIN formRecords' = DOMAIN formRecords
    BY <1>3, <1>4, DelUidLess
  <1>7. LessRows /\ LessHeld
    BY <1>2 DEF LessRows, LessHeld
  <1>8. TableCallOK(d)'
    <2>1. ~Has(c, "CleanRemovedFormRecords") /\ ~Has(c, "BatchDeleteNoHostDBForms")
      BY <1>3, <1>5 DEF TableSection, Has
    <2> QED BY <1>5, <2>1, PastTableHas, TableDone
  <1>9. \A f \in tempForms' : IsTemp(f) => f \in DOMAIN formRecords'
    BY <1>6 DEF IsTemp
  <1> QED BY <1>2, <1>5, <1>6, <1>7, <1>8, <1>9, LessTableStep

LEMMA BatchTempSerial ==
    ASSUME Typed, Serial, NEW t, Threads = {t}, BatchDeleteNoHostTempForms(t)
    PROVE  Serial'
  <1>1. PICK c : c = calls[t]
    OBVIOUS
  <1>2. /\ At(t, "BatchDeleteNoHostTempForms") /\ "BatchDeleteNoHostTempForms" \in TableHeads
        /\ Go(t, Rest(t))
        /\ UNCHANGED <<clientRecords, formDBInfos, rdb>>
    BY DEF BatchDeleteNoHostTempForms, TableHeads
  <1>3. /\ c \in TableCalls /\ TableSection(c.todo)
        /\ Head(c.todo) = "BatchDeleteNoHostTempForms" /\ c.uid \in Uids
    BY <1>1, <1>2, BeforeTable
  <1>4. PICK d : Turn(t, d) /\ PastTable(c, d, "BatchDeleteNoHostTempForms")
    BY <1>1, <1>2, TableGo
  <1>5. TableCallOK(d)'
    <2>1. ~Has(c, "CleanRemovedFormRecords") /\ ~Has(c, "BatchDeleteNoHostDBForms")
      BY <1>3 DEF TableSection, Has
    <2> QED BY <1>4, <2>1, PastTableHas, TableDone
  <1>6. /\ LessRecords /\ tempForms' \subseteq tempForms
        /\ \A f \in tempForms' : IsTemp(f) => f \in DOMAIN formRecords'
        /\ \A f \in tempForms \ tempForms' : f \notin DOMAIN formRecords'
    <2>1. CASE formRecords' = Without(formRecords, c.noHost) /\ tempForms' = tempForms \ c.noHost
      <3>1. LessRecords /\ DOMAIN formRecords' = DOMAIN formRecords \ c.noHost
        BY <2>1, WithoutLess
      <3> QED BY <2>1, <3>1 DEF IsTemp
    <2>2. CASE formRecords' = Rejoined(c.noHost, c.uid) /\ tempForms' = tempForms
      <3>1. SameRecords(formRecords')
        BY <1>3, <2>2, RejoinedIs, Zenon
      <3> QED BY <2>2, <3>1 DEF SameRecords, LessRecords, IsTemp
    <2> QED BY <1>1, <2>1, <2>2, BatchTempIs
  <1>7. LessRows /\ LessHeld
    BY <1>2 DEF LessRows, LessHeld
  <1> QED BY <1>2, <1>4, <1>5, <1>6, <1>7, LessTableStep

LEMMA ClearHostSerial ==
    ASSUME Typed, Serial, NEW t, Threads = {t}, ClearHostData(t) \/ CleanHostRemovedForms(t)
    PROVE  Serial'
  <1>1. PICK c : c = calls[t]
    OBVIOUS
  <1>2. PICK x : /\ x \in {"ClearHostData", "CleanHostRemovedForms"} /\ At(t, x)
                 /\ Go(t, Rest(t))
    BY DEF ClearHostData, CleanHostRemovedForms
  <1>3. UNCHANGED <<formRecords, tempForms, formDBInfos, rdb>>
    BY DEF ClearHostData, CleanHostRemovedForms
  <1>4. x \in TableHeads
    BY <1>2 DEF TableHeads
  <1>5. c \in TableCalls /\ TableSection(c.todo) /\ Head(c.todo) = x
    BY <1>1, <1>2, <1>4, BeforeTable
  <1>6. PICK d : Turn(t, d) /\ PastTable(c, d, x)
    BY <1>1, <1>2, <1>4, TableGo
  <1>7. TableCallOK(d)'
    <2>1. ~Has(c, "CleanRemovedFormRecords") /\ ~Has(c, "BatchDeleteNoHostDBForms")
      BY <1>2, <1>5 DEF TableSection, Has
    <2> QED BY <1>6, <2>1, PastTableHas, TableDone
  <1>8. LessHeld
    <2>1. Fewer(clientRecords')
      <3>1. CASE ClearHostData(t)
        BY <3>1, ClearHostIs
      <3>2. CASE CleanHostRemovedForms(t)
        BY <3>2, FewerIs DEF CleanHostRemovedForms
      <3> QED BY <3>1, <3>2
    <2> QED BY <2>1 DEF Fewer, LessHeld
  <1>9. LessRecords /\ LessRows
    BY <1>3 DEF LessRecords, LessRows
  <1> QED BY <1>2, <1>3, <1>4, <1>6, <1>7, <1>8, <1>9, LessTableStep DEF IsTemp

LEMMA DeleteBundleSerial ==
    ASSUME Typed, Serial, NEW t, Threads = {t}, DeleteFormInfoByBundleName(t)
    PROVE  Serial'
  <1>1. PICK b : b = calls[t]
    OBVIOUS
  <1>2. /\ At(t, "DeleteFormInfoByBundleName") /\ "DeleteFormInfoByBundleName" \in TableHeads
        /\ formDBInfos' = << >>
        /\ UNCHANGED <<formRecords, tempForms, clientRecords>>
    BY DEF DeleteFormInfoByBundleName, TableHeads
  <1>3. /\ b \in TableCalls /\ TableSection(b.todo)
        /\ Head(b.todo) = "DeleteFormInfoByBundleName" /\ Apart
    BY <1>1, <1>2, BeforeTable
  <1>4. PICK c, d : /\ c \in TableCalls /\ c.found = DOMAIN formDBInfos /\ c.todo = b.todo
                    /\ Turn(t, d) /\ PastTable(c, d, "DeleteFormInfoByBundleName")
    BY <1>1, DeleteBundleIs
  <1>5. DOMAIN formDBInfos' = {}
    BY <1>2, NoMap
  <1>6. LessRecords /\ LessRows /\ LessHeld
    BY <1>2, <1>5 DEF LessRecords, LessRows, LessHeld
  <1>7. TableCallOK(d)'
    <2>1. ~Has(d, "BatchDeleteNoHostDBForms")
      <3>1. ~Has(c, "BatchDeleteNoHostDBForms")
        BY <1>3, <1>4 DEF TableSection, Has
      <3> QED BY <1>4, <3>1, PastTableHas
    <2>2. Has(d, "CleanRemovedFormRecords") => d.found = DOMAIN formDBInfos
      BY <1>4, IdleIs DEF PastTable, SameTables
    <2>3. DOMAIN formDBInfos \cap tempForms' = {}
      BY <1>2, <1>3 DEF Apart, NotTemp
    <2> QED BY <2>1, <2>2, <2>3 DEF TableCallOK
  <1> QED BY <1>2, <1>4, <1>5, <1>6, <1>7, LessTableStep DEF IsTemp

LEMMA CleanRowsSerial ==
    ASSUME Typed, Serial, NEW t, Threads = {t}, CleanRemovedFormRecords(t)
    PROVE  Serial'
  <1>1. PICK c : c = calls[t]
    OBVIOUS
  <1>2. /\ At(t, "CleanRemovedFormRecords") /\ "CleanRemovedFormRecords" \in TableHeads
        /\ Go(t, Rest(t))
        /\ formRecords' = Without(formRecords, c.found)
        /\ UNCHANGED <<tempForms, clientRecords, formDBInfos, rdb>>
    BY <1>1 DEF CleanRemovedFormRecords, TableHeads
  <1>3. /\ c \in TableCalls /\ TableSection(c.todo)
        /\ Head(c.todo) = "CleanRemovedFormRecords" /\ TableCallOK(c)
    BY <1>1, <1>2, BeforeTable
  <1>4. PICK d : Turn(t, d) /\ PastTable(c, d, "CleanRemovedFormRecords")
    BY <1>1, <1>2, TableGo
  <1>5. c.found \cap tempForms = {}
    BY <1>3 DEF TableSection, TableCallOK, Has
  <1>6. TableCallOK(d)'
    <2>1. ~Has(c, "BatchDeleteNoHostDBForms")
      BY <1>3 DEF TableSection, Has
    <2> QED BY <1>4, <2>1, PastTableHas, TableDone
  <1>7. LessRecords /\ DOMAIN formRecords' = DOMAIN formRecords \ c.found
    BY <1>2, WithoutLess
  <1>8. LessRows /\ LessHeld
    BY <1>2 DEF LessRows, LessHeld
  <1>9. \A f \in tempForms' : IsTemp(f) => f \in DOMAIN formRecords'
    BY <1>2, <1>5, <1>7 DEF IsTemp
  <1> QED BY <1>2, <1>4, <1>6, <1>7, <1>8, <1>9, LessTableStep

LEMMA CleanTempsSerial ==
    ASSUME Typed, Serial, NEW t, Threads = {t}, CleanRemovedTempFormRecords(t)
    PROVE  Serial'
  <1>1. PICK b : b = calls[t]
    OBVIOUS
  <1>2. PICK S : S = {f \in DOMAIN formRecords : IsTemp(f)}
    OBVIOUS
  <1>3. /\ At(t, "CleanRemovedTempFormRecords") /\ "CleanRemovedTempFormRecords" \in TableHeads
        /\ formRecords' = Without(formRecords, S) /\ tempForms' = tempForms \ S
        /\ UNCHANGED <<clientRecords, formDBInfos, rdb>>
    BY <1>2 DEF CleanRemovedTempFormRecords, TableHeads
  <1>4. /\ b \in TableCalls /\ TableSection(b.todo)
        /\ Head(b.todo) = "CleanRemovedTempFormRecords"
    BY <1>1, <1>3, BeforeTable
  <1>5. PICK c, d : /\ c \in TableCalls /\ c.todo = b.todo
                    /\ Turn(t, d) /\ PastTable(c, d, "CleanRemovedTempFormRecords")
    BY <1>1, CleanTempIs
  <1>6. TableCallOK(d)'
    <2>1. ~Has(c, "CleanRemovedFormRecords") /\ ~Has(c, "BatchDeleteNoHostDBForms")
      BY <1>4, <1>5 DEF TableSection, Has
    <2> QED BY <1>5, <2>1, PastTableHas, TableDone
  <1>7. LessRecords /\ DOMAIN formRecords' = DOMAIN formRecords \ S
    BY <1>3, WithoutLess
  <1>8. LessRows /\ LessHeld
    BY <1>3 DEF LessRows, LessHeld
  <1>9. /\ \A f \in tempForms' : IsTemp(f) => f \in DOMAIN formRecords'
        /\ \A f \in tempForms \ tempForms' : f \notin DOMAIN formRecords'
    BY <1>2, <1>3, <1>7 DEF IsTemp
  <1> QED BY <1>3, <1>5, <1>6, <1>7, <1>8, <1>9, LessTableStep

--------------------------------------------------------------------------------
(* One request at a time: any section, and the beginning of a request.     *)

LEMMA ServeSerial ==
    ASSUME Typed, Serial, NEW t, Threads = {t}, Serve(t)
    PROVE  Serial'
  <1>1. CASE AllotFormHostRecord(t) \/ AllotTempForm(t) \/ AllotFormRecord(t) \/ JoinUser(t)
    BY <1>1, AllotHostSerial, AllotTempSerial, AllotRecordSerial, JoinSerial
  <1>2. CASE UpdateDBRecord(t) \/ DeleteStorage(t) \/ InsertStorage(t)
             \/ DeleteFormDBInfoCache(t)
    BY <1>2, SaveSerial, UnstoreSerial, StoreSerial, UncacheSerial
  <1>3. CASE DeleteFormUserUid(t) \/ DeleteUnusedRecord(t) \/ DeleteOwnRecord(t)
             \/ DeleteHostRecord(t)
    BY <1>3, LeaveSerial, DropSerial, HostSerial
  <1>4. CASE LeaveTempForm(t) \/ DeleteTempForm(t) \/ DeleteFormRecord(t)
             \/ ModifyFormTempFlag(t) \/ CastUser(t)
    BY <1>4, LeaveTempSerial, DeleteTempSerial, DropRecordSerial, CastFlagSerial,
       CastUserSerial
  <1>5. CASE GetNoHostDBForms(t) \/ BatchDeleteNoHostDBForms(t) \/ GetNoHostTempForms(t)
             \/ BatchDeleteNoHostTempForms(t)
    BY <1>5, GetDBSerial, BatchDBSerial, GetTempSerial, BatchTempSerial
  <1>6. CASE DeleteFormInfoByBundleName(t) \/ CleanRemovedFormRecords(t)
             \/ CleanRemovedTempFormRecords(t) \/ ClearHostData(t) \/ CleanHostRemovedForms(t)
    BY <1>6, DeleteBundleSerial, CleanRowsSerial, CleanTempsSerial, ClearHostSerial
  <1> QED BY <1>1, <1>2, <1>3, <1>4, <1>5, <1>6, Zenon DEF Serve

\* The request d has the sections of S ahead.
Ahead(d, S) == \A x : Has(d, x) <=> x \in S

LEMMA AddStartOK ==
    ASSUME Apart, NEW d \in FormCalls, StartsNew(d) \/ StartsFromRow(d)
    PROVE  FormCallOK(d)
  <1>1. Ahead(d, {"AllotFormHostRecord", "AllotTempForm", "AllotFormRecord"})
    BY AddRanges DEF Ahead, Has, StartsNew, StartsFromRow
  <1>2. /\ Has(d, "AllotFormHostRecord") /\ Has(d, "AllotTempForm") /\ Has(d, "AllotFormRecord")
        /\ ~Has(d, "UpdateDBRecord") /\ ~Has(d, "DeleteUnusedRecord")
        /\ ~Has(d, "DeleteOwnRecord") /\ ~Has(d, "DeleteFormRecord")
        /\ ~Has(d, "ModifyFormTempFlag") /\ ~Has(d, "DeleteFormDBInfoCache")
        /\ ~Has(d, "InsertStorage") /\ ~Has(d, "DeleteStorage")
    BY <1>1 DEF Ahead
  <1>3. NewForm(d)
    <2>1. CASE StartsNew(d)
      BY <1>2, <2>1 DEF NewForm, AddsTemp, StartsNew, Nowhere, Unheld, HeldBy
    <2>2. CASE StartsFromRow(d)
      BY <2>2 DEF NewForm, AddsTemp, StartsFromRow
    <2> QED BY <2>1, <2>2
  <1>4. PlainForm(d)
    <2>1. NeedsPlain(d) => ~d.temp
      BY <1>2 DEF NeedsPlain
    <2>2. CASE StartsNew(d)
      BY <2>2 DEF PlainForm, StartsNew, Nowhere, NotTemp, IsTemp
    <2>3. CASE StartsFromRow(d)
      BY <2>3 DEF PlainForm, StartsFromRow, Apart
    <2> QED BY <2>2, <2>3
  <1>5. NewRecord(d) /\ OffTheList(d) /\ OwnRow(d) /\ RowIsCached(d) /\ NoRow(d) /\ RowIsFresh(d)
    BY <1>2 DEF NewRecord, Listing, OffTheList, Unlisting, OwnRow, RowIsCached, NoRow, RowIsFresh,
                Saving
  <1> QED BY <1>3, <1>4, <1>5 DEF FormCallOK, Guarded

\* The other requests put no form on the list and store no row by themselves.
LEMMA NoAddition ==
    ASSUME NEW d, ~Has(d, "AllotTempForm"), ~Has(d, "AllotFormRecord"), ~Unlisting(d),
           ~Has(d, "InsertStorage"), Has(d, "DeleteStorage") => Has(d, "DeleteFormDBInfoCache")
    PROVE  PlainForm(d) /\ OwnRow(d) /\ RowIsFresh(d) => FormCallOK(d)
  <1>1. NewForm(d) /\ NewRecord(d) /\ OffTheList(d) /\ RowIsCached(d) /\ NoRow(d)
    BY DEF NewForm, AddsTemp, NewRecord, Listing, OffTheList, RowIsCached, NoRow
  <1> QED BY <1>1 DEF FormCallOK, Guarded

LEMMA SaveStartOK ==
    ASSUME Apart, ListAndFlags(Idle), NEW d \in FormCalls, StartsJoin(d) \/ StartsLeave(d)
    PROVE  FormCallOK(d)
  <1>1. \/ Ahead(d, {"AllotFormHostRecord", "JoinUser", "UpdateDBRecord"})
        \/ Ahead(d, {"UpdateDBRecord", "DeleteFormUserUid", "DeleteHostRecord"})
    BY JoinRanges, SaveRanges DEF Ahead, Has, StartsJoin, StartsLeave
  <1>2. /\ ~Has(d, "AllotTempForm") /\ ~Has(d, "AllotFormRecord") /\ ~Unlisting(d)
        /\ ~Has(d, "InsertStorage") /\ ~Has(d, "DeleteStorage")
        /\ ~Has(d, "DeleteFormDBInfoCache")
    BY <1>1 DEF Ahead, Unlisting
  <1>3. NotTemp(d.form)
    <2>1. CASE StartsJoin(d)
      <3>1. d.form \in DOMAIN formRecords /\ ~IsTemp(d.form)
        BY <2>1 DEF StartsJoin, IsTemp
      <3>2. d.form \notin tempForms
        BY <3>1, IdleIs DEF ListAndFlags, Listing
      <3>3. d.form \notin orphans
        BY <3>1 DEF Apart, IsTemp
      <3> QED BY <3>1, <3>2, <3>3 DEF NotTemp
    <2>2. CASE StartsLeave(d)
      BY <2>2 DEF StartsLeave, Apart
    <2> QED BY <2>1, <2>2
  <1>4. PlainForm(d) /\ OwnRow(d)
    BY <1>2, <1>3 DEF PlainForm, OwnRow
  <1>5. RowIsFresh(d)
    BY DEF RowIsFresh, StartsJoin, StartsLeave
  <1> QED BY <1>2, <1>4, <1>5, NoAddition

LEMMA DropStartOK ==
    ASSUME Apart, NEW d \in FormCalls, StartsRemove(d) \/ StartsRelease(d)
    PROVE  FormCallOK(d)
  <1>1. \/ Ahead(d, {"DeleteOwnRecord", "DeleteFormDBInfoCache", "DeleteStorage"})
        \/ Ahead(d, {"DeleteOwnRecord", "DeleteFormDBInfoCache", "DeleteStorage",
                     "DeleteHostRecord"})
        \/ Ahead(d, {"DeleteFormUserUid", "DeleteUnusedRecord", "DeleteHostRecord"})
    BY RemoveRanges, DropRanges DEF Ahead, Has, StartsRemove, StartsRelease
  <1>2. /\ ~Has(d, "AllotTempForm") /\ ~Has(d, "AllotFormRecord") /\ ~Unlisting(d)
        /\ ~Has(d, "InsertStorage") /\ ~Has(d, "UpdateDBRecord")
        /\ Has(d, "DeleteStorage") => Has(d, "DeleteFormDBInfoCache")
    BY <1>1 DEF Ahead, Unlisting
  <1>3. PlainForm(d) /\ RowIsFresh(d)
    BY <1>2 DEF PlainForm, RowIsFresh, Saving, Apart, StartsRemove, StartsRelease
  <1>4. OwnRow(d)
    <2>1. CASE StartsRemove(d)
      BY <2>1 DEF OwnRow, StartsRemove
    <2>2. CASE StartsRelease(d)
      <3>1. ~Has(d, "DeleteFormDBInfoCache")
        BY <2>2, DropRanges DEF StartsRelease, Has
      <3> QED BY <3>1 DEF OwnRow
    <2> QED BY <2>1, <2>2
  <1> QED BY <1>2, <1>3, <1>4, NoAddition

LEMMA OtherStartOK ==
    ASSUME NEW d \in FormCalls, StartsOther(d)
    PROVE  FormCallOK(d)
  <1>1. \/ Ahead(d, {"DeleteFormUserUid", "LeaveTempForm"}) \/ Ahead(d, {"DeleteHostRecord"})
        \/ Ahead(d, {"DeleteTempForm", "ModifyFormTempFlag", "CastUser", "UpdateDBRecord"})
    BY SaveRanges, DropRanges, CastRanges DEF Ahead, Has, StartsOther
  <1>2. /\ ~Has(d, "AllotTempForm") /\ ~Has(d, "AllotFormRecord") /\ ~Unlisting(d)
        /\ ~Has(d, "InsertStorage") /\ ~Has(d, "DeleteStorage") /\ ~NeedsPlain(d)
        /\ ~Has(d, "DeleteFormDBInfoCache") /\ ~Saving(d)
    BY <1>1 DEF Ahead, Unlisting, NeedsPlain, Saving
  <1>3. PlainForm(d) /\ OwnRow(d) /\ RowIsFresh(d)
    BY <1>2 DEF PlainForm, OwnRow, RowIsFresh
  <1> QED BY <1>2, <1>3, NoAddition

LEMMA TableStartOK ==
    ASSUME NEW d \in TableCalls, d.todo \in {Clear, Uninstall}
    PROVE  FormCallOK(d) /\ TableCallOK(d)'
  <1>1. \A x \in FormHeads : ~Has(d, x)
    BY TableHas, HeadsApart
  <1>2. \/ Ahead(d, {"GetNoHostDBForms", "BatchDeleteNoHostDBForms", "GetNoHostTempForms",
                     "BatchDeleteNoHostTempForms", "ClearHostData"})
        \/ Ahead(d, {"DeleteFormInfoByBundleName", "CleanRemovedFormRecords",
                     "CleanRemovedTempFormRecords", "CleanHostRemovedForms"})
    BY ClearRanges, CleanRanges DEF Ahead, Has
  <1>3. /\ Has(d, "BatchDeleteNoHostDBForms") => Has(d, "GetNoHostDBForms")
        /\ Has(d, "CleanRemovedFormRecords") => Has(d, "DeleteFormInfoByBundleName")
    BY <1>2 DEF Ahead
  <1>4. TableCallOK(d)'
    BY <1>3 DEF TableCallOK
  <1> QED BY <1>1, <1>4, NoFormSection

LEMMA RequestSerial ==
    ASSUME Typed, Serial, NEW t, Threads = {t}, Begun(t)
    PROVE  Serial'
  <1>1. PICK d : Turn(t, d) /\ Starts(d)
    BY DEF Begun
  <1>2. /\ calls[t] = Idle
        /\ UNCHANGED <<formRecords, tempForms, clientRecords, formDBInfos, rdb>>
    BY DEF Begun, tables
  <1>3. Apart /\ OneHost /\ ListAndFlags(Idle) /\ Stored(Idle)
    BY <1>2 DEF Serial, CallOK
  <1>4. FormCallOK(d) /\ TableCallOK(d)'
    <2>1. CASE d \in FormCalls /\ ~(d \in TableCalls /\ d.todo \in {Clear, Uninstall})
      <3>1. FormCallOK(d)
        BY <1>1, <1>3, <2>1, AddStartOK, SaveStartOK, DropStartOK, OtherStartOK DEF Starts
      <3> QED BY <2>1, <3>1, NoTableSection
    <2>2. CASE d \in TableCalls /\ d.todo \in {Clear, Uninstall}
      BY <2>2, TableStartOK
    <2> QED BY <1>1, <2>1, <2>2 DEF Starts
  <1>5. UNCHANGED <<formRecords, tempForms, clientRecords, formDBInfos, rdb, orphans>>
    BY <1>1, <1>2 DEF Turn, outside
  <1>6. Less /\ LessUsers
    BY <1>5, SameIsLess
  <1>7. FormCallOK(d)'
    BY <1>4, <1>5, <1>6, LessForm
  <1> QED BY <1>1, <1>2, <1>3, <1>4, <1>7, SameStep

--------------------------------------------------------------------------------
(* One request at a time: what happens besides the request.                *)

\* The request stays where it is and the tables lose what they lose.
LEMMA BesidesStep ==
    ASSUME Serial, NEW t, Threads = {t}, calls' = calls, NEW c, c = calls[t],
           Less, LessUsers, Apart', OneHost', rdb' = rdb,
           Listing(c) /\ c.form \in tempForms => c.form \in tempForms' \/ Unheld(c.form)',
           \A f \in tempForms' : IsTemp(f) => f \in DOMAIN formRecords',
           \A f \in tempForms \ tempForms' : f \in DOMAIN formRecords' => Unheld(f)'
    PROVE  Serial'
  <1>1. FormCallOK(c) /\ TableCallOK(c) /\ ListAndFlags(c) /\ Stored(c)
    BY DEF Serial, CallOK
  <1>2. FormCallOK(c)'
    BY <1>1, LessForm
  <1>3. TableCallOK(c)'
    BY <1>1, LessTable DEF Less
  <1>4. ListAndFlags(c)'
    BY <1>1, LessLists
  <1>5. Stored(c)'
    BY <1>1, LessStored DEF Less
  <1>6. CallOK(c)'
    BY <1>2, <1>3, <1>4, <1>5 DEF CallOK
  <1>7. {calls'[u] : u \in Threads} = {c}
    OBVIOUS
  <1> QED BY <1>6, <1>7 DEF Serial

LEMMA SameSerial ==
    ASSUME Serial, NEW t, Threads = {t},
           UNCHANGED <<formRecords, tempForms, clientRecords, formDBInfos, rdb, orphans, calls>>
    PROVE  Serial'
  <1>1. PICK c : c = calls[t]
    OBVIOUS
  <1>2. Less /\ LessUsers /\ Apart' /\ OneHost'
    BY SameIsLess DEF Serial
  <1> QED BY <1>1, <1>2, BesidesStep DEF IsTemp

LEMMA DiedSerial ==
    ASSUME Typed, Serial, NEW t, Threads = {t}, NEW h, HandleHostDied(h)
    PROVE  Serial'
  <1>1. PICK c : c = calls[t]
    OBVIOUS
  <1>2. /\ orphans = {} /\ orphans' = tempForms \cap Held(h) /\ tempForms' = tempForms \ Held(h)
        /\ clientRecords' = Without(clientRecords, {h})
        /\ UNCHANGED <<formRecords, formDBInfos, rdb, calls>>
    BY DEF HandleHostDied
  <1>3. Apart /\ OneHost /\ FormCallOK(c) /\ ListAndFlags(c)
    BY <1>1 DEF Serial, CallOK
  <1>4. /\ DOMAIN clientRecords' = DOMAIN clientRecords \ {h}
        /\ \A g \in DOMAIN clientRecords' : clientRecords'[g] = clientRecords[g]
    <2>1. LeavesOut(clientRecords, {h}, clientRecords')
      BY <1>2, WithoutAt, Zenon
    <2> QED BY <2>1 DEF LeavesOut
  <1>5. LessRecords /\ LessUsers /\ LessRows /\ LessHeld /\ LessTemps /\ Less
    BY <1>2, <1>4 DEF LessRecords, LessUsers, LessRows, LessHeld, LessTemps, Less
  <1>6. \A f \in orphans' : Unheld(f)'
    <2> SUFFICES ASSUME NEW f \in orphans', NEW g \in DOMAIN clientRecords', f \in clientRecords'[g]
                 PROVE  FALSE
      BY DEF Unheld
    <2>1. g \in DOMAIN clientRecords /\ g # h /\ f \in clientRecords[g]
      BY <1>4
    <2>2. h \in DOMAIN clientRecords /\ f \in clientRecords[h] /\ f \in tempForms
      BY <1>2, HeldIs
    <2> QED BY <1>3, <2>1, <2>2 DEF OneHost
  <1>7. OneHost'
    <2>1. \A f \in tempForms' : \A g, k \in DOMAIN clientRecords' :
             f \in clientRecords'[g] /\ f \in clientRecords'[k] => g = k
      BY <1>2, <1>3, <1>4 DEF OneHost
    <2> QED BY <1>6, <2>1 DEF OneHost
  <1>8. \A f \in tempForms : f \in DOMAIN formRecords => formRecords[f].temp
    BY <1>3 DEF ListAndFlags, FormCallOK, Guarded, NewRecord, IsTemp
  <1>9. Apart'
    <2>1. \A f \in DOMAIN formDBInfos' : NotTemp(f)'
      BY <1>2, <1>3, <1>5, LessTemp DEF Apart
    <2> QED BY <1>2, <1>8, <2>1 DEF Apart
  <1>10. \A f \in tempForms \ tempForms' : Unheld(f)'
    BY <1>2, <1>6
  <1> QED BY <1>1, <1>2, <1>5, <1>7, <1>9, <1>10, BesidesStep DEF IsTemp

LEMMA OrphansSerial ==
    ASSUME Typed, Serial, NEW t, Threads = {t}, DeleteRecordTempForms
    PROVE  Serial'
  <1>1. PICK c : c = calls[t]
    OBVIOUS
  <1>2. /\ formRecords' = Without(formRecords, orphans) /\ orphans' = {}
        /\ UNCHANGED <<tempForms, clientRecords, formDBInfos, rdb, calls>>
    BY DEF DeleteRecordTempForms
  <1>3. Apart /\ OneHost
    BY DEF Serial
  <1>4. /\ LessRecords /\ LessUsers /\ DOMAIN formRecords' = DOMAIN formRecords \ orphans
    BY <1>2, WithoutLess
  <1>5. LessRows /\ LessHeld /\ LessTemps /\ Less
    BY <1>2, <1>4 DEF LessRows, LessHeld, LessTemps, Less
  <1>6. Apart' /\ OneHost'
    BY <1>2, <1>3, <1>4, <1>5, LessApart, LessOneHost
  <1>7. \A f \in tempForms' : IsTemp(f) => f \in DOMAIN formRecords'
    BY <1>2, <1>3, <1>4 DEF Apart, IsTemp
  <1> QED BY <1>1, <1>2, <1>4, <1>5, <1>6, <1>7, BesidesStep

LEMMA RecheckSerial ==
    ASSUME Typed, Serial, NEW t, Threads = {t}, NEW u, RecheckWhetherNeedCleanFormHost(u)
    PROVE  Serial'
  <1>1. PICK c : c = calls[t]
    OBVIOUS
  <1>2. /\ \/ clientRecords' = Without(clientRecords, {recheck[u]})
           \/ clientRecords' = clientRecords
        /\ UNCHANGED <<formRecords, tempForms, formDBInfos, rdb, calls, orphans>>
    BY DEF RecheckWhetherNeedCleanFormHost, outside
  <1>3. Apart /\ OneHost
    BY DEF Serial
  <1>4. LessHeld
    <2>1. CASE clientRecords' = Without(clientRecords, {recheck[u]})
      <3>1. LeavesOut(clientRecords, {recheck[u]}, clientRecords')
        BY <2>1, WithoutAt, Zenon
      <3> QED BY <3>1 DEF LeavesOut, LessHeld
    <2>2. CASE clientRecords' = clientRecords
      BY <2>2 DEF LessHeld
    <2> QED BY <1>2, <2>1, <2>2
  <1>5. LessRecords /\ LessUsers /\ LessRows /\ LessTemps /\ Less
    BY <1>2, <1>4 DEF LessRecords, LessUsers, LessRows, LessTemps, Less
  <1>6. Apart' /\ OneHost'
    BY <1>2, <1>3, <1>4, <1>5, LessApart, LessOneHost
  <1> QED BY <1>1, <1>2, <1>5, <1>6, BesidesStep DEF IsTemp

\* The rows come back from the store.
LEMMA RestartSerial ==
    ASSUME NEW t, Threads = {t}, Restart
    PROVE  Serial'
  <1>1. /\ DOMAIN formRecords' = {} /\ tempForms' = {} /\ DOMAIN clientRecords' = {}
        /\ orphans' = {} /\ formDBInfos' = rdb'
    BY NoMap DEF Restart
  <1>2. \A f : ~IsTemp(f)' /\ NotTemp(f)'
    BY <1>1 DEF IsTemp, NotTemp
  <1>3. Apart' /\ OneHost'
    BY <1>1, <1>2 DEF Apart, OneHost
  <1>4. ListAndFlags(Idle)'
    BY <1>1, <1>2 DEF ListAndFlags
  <1>5. Stored(Idle)'
    BY <1>1 DEF Stored
  <1>6. CallOK(Idle)'
    BY <1>4, <1>5, IdleOK DEF CallOK
  <1>7. {calls'[u] : u \in Threads} = {Idle}
    BY DEF Restart
  <1> QED BY <1>3, <1>6, <1>7 DEF Serial

LEMMA SerialStep ==
    ASSUME RecordsAssumption, Typed, Serial, NEW t, Threads = {t}, [Next]_vars
    PROVE  Serial'
  <1>1. CASE \E u \in Threads : Request(u) \/ Serve(u)
    BY <1>1, RequestBegins, RequestSerial, ServeSerial
  <1>2. CASE \E h \in Hosts : HostStarts(h) \/ HostEnds(h) \/ HandleHostDied(h)
    <2>1. PICK h \in Hosts : HostStarts(h) \/ HostEnds(h) \/ HandleHostDied(h)
      BY <1>2
    <2>2. CASE HostStarts(h) \/ HostEnds(h)
      BY <2>2, SameSerial DEF HostStarts, HostEnds, tables
    <2>3. CASE HandleHostDied(h)
      BY <2>3, DiedSerial
    <2> QED BY <2>1, <2>2, <2>3
  <1>3. CASE DeleteRecordTempForms
    BY <1>3, OrphansSerial
  <1>4. CASE \E u \in Uids : RecheckWhetherNeedCleanFormHost(u)
    BY <1>4, RecheckSerial
  <1>5. CASE Restart
    BY <1>5, RestartSerial
  <1>6. CASE UNCHANGED vars
    BY <1>6, SameSerial DEF vars, tables, outside
  <1> QED BY <1>1, <1>2, <1>3, <1>4, <1>5, <1>6 DEF Next

LEMMA InitSerial ==
    ASSUME Init
    PROVE  Serial
  <1>1. /\ DOMAIN formRecords = {} /\ tempForms = {} /\ DOMAIN clientRecords = {}
        /\ DOMAIN formDBInfos = {} /\ orphans = {}
    BY NoMap DEF Init
  <1>2. Apart /\ OneHost /\ ListAndFlags(Idle) /\ Stored(Idle)
    BY <1>1 DEF Apart, OneHost, ListAndFlags, Stored, IsTemp
  <1>3. \A c \in {calls[t] : t \in Threads} : c = Idle
    BY DEF Init
  <1> QED BY <1>2, <1>3, IdleOK DEF Serial, CallOK

LEMMA OneAtATime ==
    ASSUME NEW t, Threads = {t}
    PROVE  Spec => [](Typed /\ Serial)
  <1>1. Init => Typed /\ Serial
    BY InitTyped, InitSerial
  <1>2. Typed /\ Serial /\ [Next]_vars => (Typed /\ Serial)'
    BY RecordsAssumption, TypedStep, SerialStep
  <1> QED BY <1>1, <1>2, PTL DEF Spec

--------------------------------------------------------------------------------
(* What follows while requests are served one at a time.                   *)

\* Once no request is being served, an owner the cache knows is one the store knows.
THEOREM StoreKnowsOwners ==
    ASSUME NEW t, Threads = {t}
    PROVE  Spec => []OwnersAreStored
  <1>1. Typed /\ Serial => OwnersAreStored
    <2> SUFFICES ASSUME Serial, Quiet, NEW f \in DOMAIN formDBInfos
                 PROVE  formDBInfos[f] \subseteq Row(rdb, f)
      BY DEF OwnersAreStored
    <2>1. Stored(Idle)
      BY DEF Serial, CallOK, Quiet
    <2> QED BY <2>1, IdleIs DEF Stored, Row
  <1> QED BY <1>1, OneAtATime, PTL

\* Then also the list of temporary forms and the flags of the records agree on the forms
\* of running hosts.
THEOREM ListAgreesWithFlags ==
    ASSUME NEW t, Threads = {t}
    PROVE  Spec => []LiveTempAgrees
  <1>1. Typed /\ Serial => LiveTempAgrees
    <2> SUFFICES ASSUME Typed, Serial, Quiet, NEW h \in alive, NEW f \in Held(h)
                 PROVE  f \in tempForms <=> IsTemp(f)
      BY DEF LiveTempAgrees
    <2>1. ListAndFlags(Idle)
      BY DEF Serial, CallOK, Quiet
    <2>2. f \in Forms /\ ~Unheld(f)
      BY HeldIs DEF Unheld
    <2> QED BY <2>1, <2>2, IdleIs DEF ListAndFlags, Listing, Unlisting
  <1> QED BY <1>1, OneAtATime, PTL

\* What UsersKeepTheirForms says of a step.
Kept ==
    \A f \in DOMAIN formRecords : \A u \in formRecords[f].uids \cap Row(formDBInfos, f) :
          \/ u \in Row(formDBInfos', f)
          \/ Restart
          \/ \E t \in Threads : /\ calls[t] # Idle
                              /\ (calls[t].uid = u \/ At(t, "DeleteFormInfoByBundleName"))

\* The owners a section takes from rows are the request's, or users of no record.
LEMMA KeptBy ==
    ASSUME Typed, NEW t \in Threads, NEW x \in FormHeads \cup TableHeads, At(t, x),
           \A f \in DOMAIN formRecords : \A u \in formRecords[f].uids \cap Row(formDBInfos, f) :
              u \in Row(formDBInfos', f) \/ u = calls[t].uid
    PROVE  Kept
  <1>1. calls[t] # Idle
    BY IdleIs DEF At
  <1> QED BY <1>1 DEF Kept

LEMMA SaveKeeps ==
    ASSUME Typed, Serial, NEW t, Threads = {t}, UpdateDBRecord(t)
    PROVE  Kept
  <1>1. PICK c : c = calls[t]
    OBVIOUS
  <1>2. /\ At(t, "UpdateDBRecord") /\ "UpdateDBRecord" \in FormHeads
        /\ formDBInfos' = Put(formDBInfos, c.form, c.row)
    BY <1>1 DEF UpdateDBRecord, FormHeads
  <1>3. FormSection(c.todo) /\ Head(c.todo) = "UpdateDBRecord" /\ FormCallOK(c)
    BY <1>1, <1>2, Before
  <1>4. Saving(c)
    BY <1>3 DEF FormSection, Saving, Has
  <1>5. PutsInto(formDBInfos, c.form, c.row, formDBInfos')
    BY <1>2, PutAt, Zenon
  <1>6. ASSUME NEW f \in DOMAIN formRecords, NEW u \in formRecords[f].uids \cap Row(formDBInfos, f)
        PROVE  u \in Row(formDBInfos', f) \/ u = c.uid
    <2>1. f \in DOMAIN formDBInfos /\ u \in formDBInfos[f]
      BY <1>6 DEF Row
    <2>2. CASE f = c.form
      BY <1>3, <1>4, <1>5, <1>6, <2>1, <2>2 DEF FormCallOK, RowIsFresh, PutsInto, Row
    <2>3. CASE f # c.form
      BY <1>5, <2>1, <2>3 DEF PutsInto, Row
    <2> QED BY <2>2, <2>3
  <1> QED BY <1>1, <1>2, <1>6, KeptBy

LEMMA UncacheKeeps ==
    ASSUME Typed, Serial, NEW t, Threads = {t}, DeleteFormDBInfoCache(t)
    PROVE  Kept
  <1>1. PICK c : c = calls[t]
    OBVIOUS
  <1>2. /\ At(t, "DeleteFormDBInfoCache") /\ "DeleteFormDBInfoCache" \in FormHeads
        /\ formDBInfos' = Without(formDBInfos, {c.form})
    BY <1>1 DEF DeleteFormDBInfoCache, FormHeads
  <1>3. Has(c, "DeleteFormDBInfoCache") /\ FormCallOK(c)
    BY <1>1, <1>2, Before
  <1>4. LeavesOut(formDBInfos, {c.form}, formDBInfos')
    BY <1>2, WithoutAt, Zenon
  <1>5. ASSUME NEW f \in DOMAIN formRecords, NEW u \in formRecords[f].uids \cap Row(formDBInfos, f)
        PROVE  u \in Row(formDBInfos', f) \/ u = c.uid
    <2>1. f \in DOMAIN formDBInfos /\ u \in formDBInfos[f]
      BY <1>5 DEF Row
    <2>2. CASE f = c.form
      BY <1>3, <2>1, <2>2 DEF FormCallOK, Guarded, OwnRow
    <2>3. CASE f # c.form
      BY <1>4, <2>1, <2>3 DEF LeavesOut, Row
    <2> QED BY <2>2, <2>3
  <1> QED BY <1>1, <1>2, <1>5, KeptBy

LEMMA GetDBKeeps ==
    ASSUME Typed, Serial, NEW t, Threads = {t}, GetNoHostDBForms(t)
    PROVE  Kept
  <1>1. PICK c : c = calls[t]
    OBVIOUS
  <1>2. At(t, "GetNoHostDBForms") /\ "GetNoHostDBForms" \in TableHeads
    BY DEF GetNoHostDBForms, TableHeads
  <1>3. formDBInfos' = Disowned(Mine(c), c.uid)
    BY <1>1, GetDBIs
  <1>4. ASSUME NEW f \in DOMAIN formRecords, NEW u \in formRecords[f].uids \cap Row(formDBInfos, f)
        PROVE  u \in Row(formDBInfos', f) \/ u = c.uid
    <2>1. f \in DOMAIN formDBInfos /\ u \in formDBInfos[f]
      BY <1>4 DEF Row
    <2> QED BY <1>3, <2>1 DEF Disowned, Row
  <1> QED BY <1>1, <1>2, <1>4, KeptBy

LEMMA BatchDBKeeps ==
    ASSUME Typed, Serial, NEW t, Threads = {t}, BatchDeleteNoHostDBForms(t)
    PROVE  Kept
  <1>1. PICK c : c = calls[t]
    OBVIOUS
  <1>2. At(t, "BatchDeleteNoHostDBForms") /\ "BatchDeleteNoHostDBForms" \in TableHeads
    BY DEF BatchDeleteNoHostDBForms, TableHeads
  <1>3. TableSection(c.todo) /\ Head(c.todo) = "BatchDeleteNoHostDBForms" /\ TableCallOK(c)
    BY <1>1, <1>2, BeforeTable
  <1>4. \A f \in c.noHost \cap DOMAIN formDBInfos : formDBInfos[f] = {}
    BY <1>3 DEF TableSection, TableCallOK, Has
  <1>5. ASSUME NEW f \in DOMAIN formRecords, NEW u \in formRecords[f].uids \cap Row(formDBInfos, f)
        PROVE  u \in Row(formDBInfos', f)
    <2>1. f \in DOMAIN formDBInfos /\ u \in formDBInfos[f]
      BY <1>5 DEF Row
    <2>2. f \notin c.noHost
      BY <1>4, <2>1
    <2>3. CASE formDBInfos' = Without(formDBInfos, c.noHost \cap DOMAIN formDBInfos)
      <3>1. LeavesOut(formDBInfos, c.noHost \cap DOMAIN formDBInfos, formDBInfos')
        BY <2>3, WithoutAt, Zenon
      <3> QED BY <2>1, <2>2, <3>1 DEF LeavesOut, Row
    <2>4. CASE formDBInfos' = Over(formDBInfos, Back(c.noHost, c.uid))
      <3>1. PICK n : n = Back(c.noHost, c.uid)
        OBVIOUS
      <3>2. f \notin DOMAIN n
        BY <2>2, <3>1 DEF Back
      <3>3. LaidOver(formDBInfos, n, formDBInfos')
        BY <2>4, <3>1, OverAt, Zenon
      <3> QED BY <2>1, <3>2, <3>3 DEF LaidOver, Row
    <2> QED BY <1>1, <2>3, <2>4, BatchDBIs
  <1> QED BY <1>2, <1>5, KeptBy

\* The other sections leave the rows as they are.
LEMMA RowsChangedBy ==
    ASSUME NEW t, Serve(t), formDBInfos' # formDBInfos
    PROVE  \/ UpdateDBRecord(t) \/ DeleteFormDBInfoCache(t) \/ GetNoHostDBForms(t)
           \/ BatchDeleteNoHostDBForms(t) \/ DeleteFormInfoByBundleName(t)
  <1>1. ~AllotFormHostRecord(t) /\ ~AllotTempForm(t) /\ ~AllotFormRecord(t) /\ ~JoinUser(t)
    BY DEF AllotFormHostRecord, AllotTempForm, AllotFormRecord, JoinUser
  <1>2. ~DeleteStorage(t) /\ ~InsertStorage(t) /\ ~DeleteFormUserUid(t) /\ ~DeleteUnusedRecord(t)
        /\ ~DeleteOwnRecord(t)
    BY DEF DeleteStorage, InsertStorage, DeleteFormUserUid, DeleteUnusedRecord, DeleteOwnRecord
  <1>3. ~LeaveTempForm(t) /\ ~DeleteTempForm(t) /\ ~DeleteFormRecord(t) /\ ~DeleteHostRecord(t)
        /\ ~ModifyFormTempFlag(t) /\ ~CastUser(t)
    BY DEF LeaveTempForm, DeleteTempForm, DeleteFormRecord, DeleteHostRecord,
           ModifyFormTempFlag, CastUser
  <1>4. ~GetNoHostTempForms(t) /\ ~BatchDeleteNoHostTempForms(t) /\ ~ClearHostData(t)
    BY DEF GetNoHostTempForms, BatchDeleteNoHostTempForms, ClearHostData
  <1>5. ~CleanRemovedFormRecords(t) /\ ~CleanRemovedTempFormRecords(t) /\ ~CleanHostRemovedForms(t)
    BY DEF CleanRemovedFormRecords, CleanRemovedTempFormRecords, CleanHostRemovedForms
  <1> QED BY <1>1, <1>2, <1>3, <1>4, <1>5, Zenon DEF Serve

LEMMA KeptStep ==
    ASSUME RecordsAssumption, Typed, Serial, NEW t, Threads = {t}, Next
    PROVE  Kept
  <1>1. CASE formDBInfos' = formDBInfos
    BY <1>1 DEF Kept, Row
  <1>2. CASE formDBInfos' # formDBInfos
    <2>1. CASE \E u \in Threads : Request(u) \/ Serve(u)
      <3>1. CASE Request(t)
        <4>1. Begun(t)
          BY <3>1, RequestBegins
        <4> QED BY <1>2, <4>1 DEF Begun, tables
      <3>2. CASE Serve(t)
        <4>1. DeleteFormInfoByBundleName(t) => Kept
          BY IdleIs DEF DeleteFormInfoByBundleName, Kept, At
        <4> QED BY <1>2, <3>2, <4>1, RowsChangedBy, SaveKeeps, UncacheKeeps, GetDBKeeps,
                   BatchDBKeeps
      <3> QED BY <2>1, <3>1, <3>2
    <2>2. CASE \E h \in Hosts : HostStarts(h) \/ HostEnds(h) \/ HandleHostDied(h)
      BY <1>2, <2>2 DEF HostStarts, HostEnds, HandleHostDied, tables
    <2>3. CASE DeleteRecordTempForms
      BY <1>2, <2>3 DEF DeleteRecordTempForms
    <2>4. CASE \E u \in Uids : RecheckWhetherNeedCleanFormHost(u)
      BY <1>2, <2>4 DEF RecheckWhetherNeedCleanFormHost
    <2>5. CASE Restart
      BY <2>5 DEF Kept
    <2> QED BY <2>1, <2>2, <2>3, <2>4, <2>5 DEF Next
  <1> QED BY <1>1, <1>2

\* A step takes a user of a form from the form's owners only in a request of that user,
\* unless the bundle is uninstalled or the service restarts.
THEOREM HostsKeepTheirForms ==
    ASSUME NEW t, Threads = {t}
    PROVE  Spec => UsersKeepTheirForms
  <1>1. Typed /\ Serial /\ [Next]_vars => [Kept]_vars
    BY RecordsAssumption, KeptStep
  <1> QED BY <1>1, OneAtATime, PTL DEF Spec, Kept, UsersKeepTheirForms
================================================================================
