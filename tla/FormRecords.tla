---------------------------- MODULE FormRecords ----------------------------
(***************************************************************************)
(* Who owns which form: the tables FormMgrService keeps about the forms of *)
(* its hosts, and the store they come back from after a restart.           *)
(*                                                                         *)
(*   formRecords    FormDataMgr::formRecords_, the forms in use            *)
(*   tempForms      FormDataMgr::tempForms_                                *)
(*   clientRecords  FormDataMgr::clientRecords_, one entry per host token  *)
(*   formDBInfos    FormDbCache::formDBInfos_, the uids owning each form   *)
(*   rdb            the rows FormInfoRdbStorageMgr has written             *)
(*                                                                         *)
(* Each table has its lock and a request takes them one after another: a   *)
(* request is the sequence of critical sections it still has to run, and   *)
(* host deaths, the recheck task and a restart come between any two.  All  *)
(* forms are of one bundle and one user.                                   *)
(***************************************************************************)
EXTENDS Integers, Sequences, FiniteSets, Functions

CONSTANTS Forms,         \* form ids; an id that is nowhere is free again
          Hosts,         \* tokens of host processes
          Uids,          \* application uids; an application restarts under its uid
          UidOf(_),      \* the uid of a token
          Threads,       \* binder threads serving requests
          MAX_TEMP_FORMS

ASSUME RecordsAssumption ==
    /\ Uids # {} /\ \A h \in Hosts : UidOf(h) \in Uids
    /\ Threads # {} /\ IsFiniteSet(Threads)
    /\ MAX_TEMP_FORMS \in Nat

VARIABLES formRecords, tempForms, clientRecords, formDBInfos, rdb,
          recheck,       \* uid -> token whose emptiness DELETE_FORM_HOST_RECORD rechecks
          calls,         \* thread -> the request it serves
          alive,         \* tokens whose process runs
          deaths,        \* dead tokens whose HostDied task is queued
          orphans        \* temp forms of a dead host whose record is to be deleted

tables == <<formRecords, tempForms, clientRecords, formDBInfos, rdb, recheck>>
outside == <<alive, deaths, orphans>>
vars == <<tables, calls, outside>>

Steps == {"AllotFormHostRecord", "AllotTempForm", "AllotFormRecord", "JoinUser",
          "UpdateDBRecord", "DeleteStorage", "InsertStorage", "DeleteFormUserUid",
          "DeleteUnusedRecord", "DeleteOwnRecord", "DeleteFormRecord", "LeaveTempForm",
          "DeleteTempForm", "DeleteFormDBInfoCache", "DeleteHostRecord",
          "ModifyFormTempFlag", "CastUser", "GetNoHostDBForms",
          "BatchDeleteNoHostDBForms", "GetNoHostTempForms",
          "BatchDeleteNoHostTempForms", "ClearHostData", "DeleteFormInfoByBundleName",
          "CleanRemovedFormRecords", "CleanRemovedTempFormRecords",
          "CleanHostRemovedForms"}

\* A request is the critical sections ahead and what they work on: its host, form,
\* the temporary flag asked for and the copy of the owners (a request about a form),
\* or the forms still valid and those collected (one that goes through the tables).
FormFields == {"todo", "host", "uid", "form", "temp", "row"}
TableFields == {"todo", "uid", "kind", "valid", "noHost", "found"}
Idle == [todo |-> <<>>]

Row(db, f) == IF f \in DOMAIN db THEN db[f] ELSE {}
Without(map, S) == Restrict(map, DOMAIN map \ S)
Over(map, new) == [f \in DOMAIN map \cup DOMAIN new |->
                     IF f \in DOMAIN new THEN new[f] ELSE map[f]]
Put(map, f, v) == Over(map, [g \in {f} |-> v])
Held(h) == IF h \in DOMAIN clientRecords THEN clientRecords[h] ELSE {}
IsTemp(f) == f \in DOMAIN formRecords /\ formRecords[f].temp

Init ==
    /\ formRecords = << >> /\ tempForms = {} /\ clientRecords = << >>
    /\ formDBInfos = << >> /\ rdb = << >> /\ recheck = << >>
    /\ calls = [t \in Threads |-> Idle]
    /\ alive = {} /\ deaths = {} /\ orphans = {}

-----------------------------------------------------------------------------
(* The requests: what each checks before its first change, and the sections  *)
(* it then runs.                                                             *)

Begin(t, h, f, todo, row, temp) ==
    /\ calls[t] = Idle
    /\ calls' = [calls EXCEPT ![t] =
          [todo |-> todo, host |-> h, uid |-> UidOf(h), form |-> f, temp |-> temp,
           row |-> row]]
    /\ UNCHANGED <<tables, outside>>

\* Saving a row is FindAndSaveFormDBInfoCache and then, if the cached row was
\* another, the storage.
AddNewFormRecord(t, h, f, temp) ==
    Begin(t, h, f, <<"AllotFormHostRecord", "AllotTempForm", "AllotFormRecord">>, {}, temp)

\* Mutant: no limit on the temporary forms.
AllotFormByInfoUnlimited(t, h, f, temp) ==
    /\ f \notin DOMAIN formRecords \cup DOMAIN formDBInfos \cup DOMAIN rdb \cup tempForms
    /\ f \notin orphans \cup UNION {Held(g) : g \in Hosts}
    /\ AddNewFormRecord(t, h, f, temp)

\* AddForm with formId 0: a fresh id.
AllotFormByInfo(t, h, f, temp) ==
    /\ f \notin DOMAIN formRecords \cup DOMAIN formDBInfos \cup DOMAIN rdb \cup tempForms
    /\ f \notin orphans \cup UNION {Held(g) : g \in Hosts}
    /\ \A u \in Threads : calls[u] # Idle =>
          IF "form" \in DOMAIN calls[u] THEN calls[u].form # f
                                       ELSE f \notin calls[u].noHost \cup calls[u].found
    /\ temp => Cardinality(tempForms) < MAX_TEMP_FORMS
    /\ AddNewFormRecord(t, h, f, temp)

\* AddForm with an id: the record in use, or else the row of the database.
AllotFormById(t, h, f) ==
    \/ /\ f \in DOMAIN formRecords /\ ~formRecords[f].temp
       /\ Begin(t, h, f, <<"AllotFormHostRecord", "JoinUser", "UpdateDBRecord">>,
                formRecords[f].uids \cup {UidOf(h)}, FALSE)
    \/ /\ f \in DOMAIN formDBInfos \ DOMAIN formRecords
       /\ AddNewFormRecord(t, h, f, FALSE)

DeleteTempFormOf(t, h, f) ==
    /\ IsTemp(f) /\ UidOf(h) \in formRecords[f].uids
    /\ Begin(t, h, f, <<"DeleteFormUserUid", "LeaveTempForm">>, {}, TRUE)

\* HandleDeleteForm works on a copy of the cached row.  A provider that cannot be
\* notified does not stop the deletion, but the host record is then kept.
DeleteForm(t, h, f) ==
    IF f \in tempForms
    THEN DeleteTempFormOf(t, h, f)
    ELSE /\ UidOf(h) \in Row(formDBInfos, f)
         /\ LET left == formDBInfos[f] \ {UidOf(h)}
            IN  IF left # {}
                THEN Begin(t, h, f, <<"UpdateDBRecord", "DeleteFormUserUid",
                                      "DeleteHostRecord">>, left, FALSE)
                ELSE \E todo \in {<<"DeleteOwnRecord", "DeleteFormDBInfoCache",
                                     "DeleteStorage", "DeleteHostRecord">>,
                                   <<"DeleteOwnRecord", "DeleteFormDBInfoCache",
                                     "DeleteStorage">>} :
                       Begin(t, h, f, todo, left, FALSE)

ReleaseForm(t, h, f, delCache) ==
    IF f \in tempForms
    THEN DeleteTempFormOf(t, h, f)
    ELSE /\ UidOf(h) \in Row(formDBInfos, f)
         /\ delCache => f \in DOMAIN formRecords /\ f \in Held(h)
         /\ Begin(t, h, f, IF delCache THEN <<"DeleteFormUserUid", "DeleteUnusedRecord",
                                              "DeleteHostRecord">>
                                       ELSE <<"DeleteHostRecord">>, {}, FALSE)

\* Mutant: the record keeps its temporary flag.
CastTempFormKeepsFlag(t, h, f) ==
    /\ f \in DOMAIN formRecords \cap tempForms /\ f \in Held(h)
    /\ Begin(t, h, f, <<"DeleteTempForm", "CastUser", "UpdateDBRecord">>, {}, FALSE)

CastTempForm(t, h, f) ==
    /\ f \in DOMAIN formRecords \cap tempForms /\ f \in Held(h)
    /\ Begin(t, h, f, <<"DeleteTempForm", "ModifyFormTempFlag", "CastUser",
                        "UpdateDBRecord">>, {}, FALSE)

BeginForAll(t, u, kind, valid, todo) ==
    /\ calls[t] = Idle
    /\ calls' = [calls EXCEPT ![t] =
          [todo |-> todo, uid |-> u, kind |-> kind, valid |-> valid,
           noHost |-> {}, found |-> {}]]
    /\ UNCHANGED <<tables, outside>>

ClearSteps == <<"GetNoHostDBForms", "BatchDeleteNoHostDBForms", "GetNoHostTempForms",
                "BatchDeleteNoHostTempForms", "ClearHostData">>

\* The data of an application is cleared.
HandleFormHostDataCleared(t, u) == BeginForAll(t, u, "cleared", {}, ClearSteps)

\* h says which of its forms are still valid.
DeleteInvalidForms(t, h, valid) == BeginForAll(t, UidOf(h), "invalid", valid, ClearSteps)

\* The bundle of the forms is uninstalled.
HandleProviderRemoved(t) ==
    BeginForAll(t, CHOOSE u \in Uids : TRUE, "removed", {},
        <<"DeleteFormInfoByBundleName", "CleanRemovedFormRecords",
          "CleanRemovedTempFormRecords", "CleanHostRemovedForms">>)

Request(t) ==
    \/ \E h \in alive, f \in Forms :
          \/ \E temp \in BOOLEAN : AllotFormByInfo(t, h, f, temp)
          \/ AllotFormById(t, h, f)
          \/ DeleteForm(t, h, f)
          \/ \E delCache \in BOOLEAN : ReleaseForm(t, h, f, delCache)
          \/ CastTempForm(t, h, f)
    \/ \E h \in alive : \E valid \in SUBSET Held(h) : DeleteInvalidForms(t, h, valid)
    \/ \E u \in Uids : HandleFormHostDataCleared(t, u)
    \/ HandleProviderRemoved(t)

-----------------------------------------------------------------------------
(* The critical sections.  At(t, s): thread t is about to run s; Go(t, rest): *)
(* it goes on with rest, and an empty rest is its return.                     *)

At(t, s) == calls[t].todo # <<>> /\ Head(calls[t].todo) = s
Rest(t) == Tail(calls[t].todo)
GoWith(t, c, rest) ==
    /\ calls' = [calls EXCEPT ![t] = IF rest = <<>> THEN Idle ELSE [c EXCEPT !.todo = rest]]
    /\ UNCHANGED outside
Go(t, rest) == GoWith(t, calls[t], rest)

\* AcquireProviderFormInfoAsync fails: the addition returns, what it did stays.
AcquireFails(t) == Go(t, <<>>)

AllotFormHostRecord(t) ==
    LET c == calls[t] IN
    /\ At(t, "AllotFormHostRecord")
    /\ recheck' = IF c.host \in DOMAIN clientRecords /\ Held(c.host) = {}
                  THEN Without(recheck, {c.uid}) ELSE recheck
    /\ clientRecords' = Put(clientRecords, c.host, Held(c.host) \cup {c.form})
    /\ \/ Go(t, Rest(t))
       \/ Rest(t)[1] = "JoinUser" /\ AcquireFails(t)
    /\ UNCHANGED <<formRecords, tempForms, formDBInfos, rdb>>

\* AllotFormRecord: the list of temporary forms under its lock ...
AllotTempForm(t) ==
    /\ At(t, "AllotTempForm")
    /\ tempForms' = IF calls[t].temp THEN tempForms \cup {calls[t].form} ELSE tempForms
    /\ Go(t, Rest(t))
    /\ UNCHANGED <<formRecords, clientRecords, formDBInfos, rdb, recheck>>

\* ... and the record under its own.  A new record knows only the caller's uid,
\* whatever the row of the form says.
AllotFormRecord(t) ==
    LET c == calls[t]
        record == IF c.form \in DOMAIN formRecords THEN formRecords[c.form]
                  ELSE [temp |-> c.temp, uids |-> {c.uid}]
    IN  /\ At(t, "AllotFormRecord")
        /\ formRecords' = Put(formRecords, c.form, record)
        /\ \/ GoWith(t, [c EXCEPT !.row = record.uids],
                     IF c.temp THEN <<>> ELSE <<"UpdateDBRecord">>)
           \/ AcquireFails(t)
        /\ UNCHANGED <<tempForms, clientRecords, formDBInfos, rdb, recheck>>

\* FormDataMgr::AddFormUserUid
AddUid(f, u) == IF f \in DOMAIN formRecords
                THEN [formRecords EXCEPT ![f].uids = @ \cup {u}] ELSE formRecords

JoinUser(t) ==
    /\ At(t, "JoinUser")
    /\ formRecords' = AddUid(calls[t].form, calls[t].uid)
    /\ Go(t, Rest(t))
    /\ UNCHANGED <<tempForms, clientRecords, formDBInfos, rdb, recheck>>

\* Mutant: the row is compared after it was put into the cache.
UpdateDBRecordCompared(t) ==
    LET c == calls[t] IN
    /\ At(t, "UpdateDBRecord")
    /\ formDBInfos' = Put(formDBInfos, c.form, c.row)
    /\ Go(t, (IF c.form \notin DOMAIN formDBInfos THEN <<"InsertStorage">> ELSE <<>>) \o Rest(t))
    /\ UNCHANGED <<formRecords, tempForms, clientRecords, rdb, recheck>>

\* FormDbCache::SaveFormInfo up to the storage
UpdateDBRecord(t) ==
    LET c == calls[t] IN
    /\ At(t, "UpdateDBRecord")
    /\ formDBInfos' = Put(formDBInfos, c.form, c.row)
    /\ Go(t, (IF c.form \notin DOMAIN formDBInfos THEN <<"InsertStorage">>
              ELSE IF formDBInfos[c.form] # c.row THEN <<"DeleteStorage", "InsertStorage">>
              ELSE <<>>) \o Rest(t))
    /\ UNCHANGED <<formRecords, tempForms, clientRecords, rdb, recheck>>

DeleteStorage(t) ==
    /\ At(t, "DeleteStorage")
    /\ rdb' = Without(rdb, {calls[t].form})
    /\ Go(t, Rest(t))
    /\ UNCHANGED <<formRecords, tempForms, clientRecords, formDBInfos, recheck>>

InsertStorage(t) ==
    /\ At(t, "InsertStorage")
    /\ rdb' = Put(rdb, calls[t].form, calls[t].row)
    /\ Go(t, Rest(t))
    /\ UNCHANGED <<formRecords, tempForms, clientRecords, formDBInfos, recheck>>

DelUid(F, u) == [f \in DOMAIN formRecords |->
                   IF f \in F THEN [formRecords[f] EXCEPT !.uids = @ \ {u}]
                              ELSE formRecords[f]]

DeleteFormUserUid(t) ==
    /\ At(t, "DeleteFormUserUid")
    /\ formRecords' = DelUid({calls[t].form}, calls[t].uid)
    /\ Go(t, Rest(t))
    /\ UNCHANGED <<tempForms, clientRecords, formDBInfos, rdb, recheck>>

HasFormUserUids(f) == f \in DOMAIN formRecords /\ formRecords[f].uids # {}

\* HandleReleaseForm
DeleteUnusedRecord(t) ==
    /\ At(t, "DeleteUnusedRecord")
    /\ formRecords' = IF HasFormUserUids(calls[t].form) THEN formRecords
                      ELSE Without(formRecords, {calls[t].form})
    /\ Go(t, Rest(t))
    /\ UNCHANGED <<tempForms, clientRecords, formDBInfos, rdb, recheck>>

\* HandleDeleteFormCache: no record is an error, and the host record is kept.
DeleteOwnRecord(t) ==
    /\ At(t, "DeleteOwnRecord")
    /\ formRecords' = Without(formRecords, {calls[t].form})
    /\ Go(t, IF calls[t].form \in DOMAIN formRecords THEN Rest(t)
             ELSE <<"DeleteFormDBInfoCache", "DeleteStorage">>)
    /\ UNCHANGED <<tempForms, clientRecords, formDBInfos, rdb, recheck>>

\* HandleDeleteTempForm once its uid is gone from the record: it comes back when
\* the provider cannot be notified.
LeaveTempForm(t) ==
    LET c == calls[t] IN
    /\ At(t, "LeaveTempForm")
    /\ \/ /\ HasFormUserUids(c.form)
          /\ Go(t, <<"DeleteHostRecord">>) /\ UNCHANGED formRecords
       \/ /\ ~HasFormUserUids(c.form)
          /\ \/ /\ Go(t, <<"DeleteTempForm", "DeleteFormRecord", "DeleteHostRecord">>)
                /\ UNCHANGED formRecords
             \/ /\ formRecords' = AddUid(c.form, c.uid)
                /\ Go(t, <<>>)
    /\ UNCHANGED <<tempForms, clientRecords, formDBInfos, rdb, recheck>>

DeleteTempForm(t) ==
    /\ At(t, "DeleteTempForm")
    /\ tempForms' = tempForms \ {calls[t].form}
    /\ Go(t, IF calls[t].form \in tempForms THEN Rest(t) ELSE <<>>)
    /\ UNCHANGED <<formRecords, clientRecords, formDBInfos, rdb, recheck>>

DeleteFormRecord(t) ==
    /\ At(t, "DeleteFormRecord")
    /\ formRecords' = Without(formRecords, {calls[t].form})
    /\ Go(t, Rest(t))
    /\ UNCHANGED <<tempForms, clientRecords, formDBInfos, rdb, recheck>>

DeleteFormDBInfoCache(t) ==
    /\ At(t, "DeleteFormDBInfoCache")
    /\ formDBInfos' = Without(formDBInfos, {calls[t].form})
    /\ Go(t, Rest(t))
    /\ UNCHANGED <<formRecords, tempForms, clientRecords, rdb, recheck>>

DeleteHostRecord(t) ==
    LET c == calls[t]
        left == Held(c.host) \ {c.form}
    IN  /\ At(t, "DeleteHostRecord")
        /\ IF c.host \in DOMAIN clientRecords
           THEN /\ clientRecords' = Put(clientRecords, c.host, left)
                /\ recheck' = IF left = {} THEN Put(recheck, c.uid, c.host) ELSE recheck
           ELSE UNCHANGED <<clientRecords, recheck>>
        /\ Go(t, Rest(t))
        /\ UNCHANGED <<formRecords, tempForms, formDBInfos, rdb>>

\* CastTempForm after the form left the list of temporary ones
ModifyFormTempFlag(t) ==
    LET f == calls[t].form IN
    /\ At(t, "ModifyFormTempFlag")
    /\ formRecords' = IF f \in DOMAIN formRecords
                      THEN [formRecords EXCEPT ![f].temp = FALSE] ELSE formRecords
    /\ Go(t, IF f \in DOMAIN formRecords THEN Rest(t) ELSE <<>>)
    /\ UNCHANGED <<tempForms, clientRecords, formDBInfos, rdb, recheck>>

CastUser(t) ==
    LET c == calls[t] IN
    /\ At(t, "CastUser")
    /\ formRecords' = AddUid(c.form, c.uid)
    /\ IF c.form \in DOMAIN formRecords
       THEN GoWith(t, [c EXCEPT !.row = formRecords[c.form].uids \cup {c.uid}], Rest(t))
       ELSE Go(t, <<>>)
    /\ UNCHANGED <<tempForms, clientRecords, formDBInfos, rdb, recheck>>

-----------------------------------------------------------------------------
(* The sections that go through a whole table.                               *)

\* Mutant: the forms of other owners are collected too.
GetHostDBForms(t) ==
    LET c == calls[t]
        mine == {f \in DOMAIN formDBInfos : c.uid \in formDBInfos[f] /\ f \notin c.valid}
    IN  /\ At(t, "GetNoHostDBForms")
        /\ formDBInfos' = [f \in DOMAIN formDBInfos |->
                             IF f \in mine THEN formDBInfos[f] \ {c.uid} ELSE formDBInfos[f]]
        /\ GoWith(t, [c EXCEPT !.noHost = mine, !.found = mine], Rest(t))
        /\ UNCHANGED <<formRecords, tempForms, clientRecords, rdb, recheck>>

\* GetNoHostDBForms, GetNoHostInvalidDBForms: the uid is taken out of the cached
\* rows in place.  SaveFormInfoNolock then compares the row with itself and stores
\* nothing.
GetNoHostDBForms(t) ==
    LET c == calls[t]
        mine == {f \in DOMAIN formDBInfos : c.uid \in formDBInfos[f] /\ f \notin c.valid}
        empty == {f \in mine : formDBInfos[f] = {c.uid}}
    IN  /\ At(t, "GetNoHostDBForms")
        /\ formDBInfos' = [f \in DOMAIN formDBInfos |->
                             IF f \in mine THEN formDBInfos[f] \ {c.uid} ELSE formDBInfos[f]]
        /\ formRecords' = DelUid(mine \ empty, c.uid)
        /\ GoWith(t, [c EXCEPT !.noHost = empty, !.found = mine], Rest(t))
        /\ UNCHANGED <<tempForms, clientRecords, rdb, recheck>>

\* Rows without owner go, with their records.  FormEventUtil puts the uid back and
\* saves when the provider cannot be notified; DeleteInvalidForms does not ask.
BatchDeleteNoHostDBForms(t) ==
    LET c == calls[t]
        lost == c.noHost \cap DOMAIN formDBInfos
    IN  /\ At(t, "BatchDeleteNoHostDBForms")
        /\ \/ /\ formDBInfos' = Without(formDBInfos, lost)
              /\ rdb' = Without(rdb, lost)
              /\ formRecords' = Without(formRecords, c.noHost)
           \/ /\ c.kind = "cleared" /\ lost # {}
              /\ LET back == [f \in lost |-> formDBInfos[f] \cup {c.uid}]
                 IN  formDBInfos' = Over(formDBInfos, back) /\ rdb' = Over(rdb, back)
              /\ UNCHANGED formRecords
        /\ Go(t, Rest(t))
        /\ UNCHANGED <<tempForms, clientRecords, recheck>>

\* GetNoHostTempForms, GetNoHostInvalidTempForms
GetNoHostTempForms(t) ==
    LET c == calls[t]
        mine == {f \in DOMAIN formRecords :
                   IsTemp(f) /\ c.uid \in formRecords[f].uids /\ f \notin c.valid}
    IN  /\ At(t, "GetNoHostTempForms")
        /\ formRecords' = DelUid(mine, c.uid)
        /\ GoWith(t, [c EXCEPT !.noHost = {f \in mine : formRecords[f].uids = {c.uid}},
                               !.found = @ \cup mine], Rest(t))
        /\ UNCHANGED <<tempForms, clientRecords, formDBInfos, rdb, recheck>>

BatchDeleteNoHostTempForms(t) ==
    LET c == calls[t] IN
    /\ At(t, "BatchDeleteNoHostTempForms")
    /\ \/ /\ formRecords' = Without(formRecords, c.noHost)
          /\ tempForms' = tempForms \ c.noHost
       \/ /\ c.kind = "cleared" /\ c.noHost # {}
          /\ formRecords' = [f \in DOMAIN formRecords |->
                               IF f \in c.noHost
                               THEN [formRecords[f] EXCEPT !.uids = @ \cup {c.uid}]
                               ELSE formRecords[f]]
          /\ UNCHANGED tempForms
    /\ Go(t, Rest(t))
    /\ UNCHANGED <<clientRecords, formDBInfos, rdb, recheck>>

\* ClearHostDataByUId drops the entries of the uid; ClearHostDataByInvalidForms,
\* when a form was removed, only those left without a form.
ClearHostData(t) ==
    LET c == calls[t]
        mine == {h \in DOMAIN clientRecords : UidOf(h) = c.uid}
        left == [h \in DOMAIN clientRecords |->
                   IF h \in mine THEN clientRecords[h] \ c.found ELSE clientRecords[h]]
    IN  /\ At(t, "ClearHostData")
        /\ clientRecords' =
             CASE c.kind = "cleared" -> Without(clientRecords, mine)
               [] c.kind = "invalid" /\ c.found # {} ->
                    Without(left, {h \in mine : left[h] = {}})
               [] OTHER -> clientRecords
        /\ Go(t, Rest(t))
        /\ UNCHANGED <<formRecords, tempForms, formDBInfos, rdb, recheck>>

DeleteFormInfoByBundleName(t) ==
    /\ At(t, "DeleteFormInfoByBundleName")
    /\ formDBInfos' = << >>
    /\ rdb' = Without(rdb, DOMAIN formDBInfos)
    /\ GoWith(t, [calls[t] EXCEPT !.found = DOMAIN formDBInfos], Rest(t))
    /\ UNCHANGED <<formRecords, tempForms, clientRecords, recheck>>

CleanRemovedFormRecords(t) ==
    /\ At(t, "CleanRemovedFormRecords")
    /\ formRecords' = Without(formRecords, calls[t].found)
    /\ Go(t, Rest(t))
    /\ UNCHANGED <<tempForms, clientRecords, formDBInfos, rdb, recheck>>

CleanRemovedTempFormRecords(t) ==
    LET temps == {f \in DOMAIN formRecords : IsTemp(f)} IN
    /\ At(t, "CleanRemovedTempFormRecords")
    /\ formRecords' = Without(formRecords, temps)
    /\ tempForms' = tempForms \ temps
    /\ GoWith(t, [calls[t] EXCEPT !.found = @ \cup temps], Rest(t))
    /\ UNCHANGED <<clientRecords, formDBInfos, rdb, recheck>>

CleanHostRemovedForms(t) ==
    /\ At(t, "CleanHostRemovedForms")
    /\ clientRecords' = [h \in DOMAIN clientRecords |-> clientRecords[h] \ calls[t].found]
    /\ Go(t, Rest(t))
    /\ UNCHANGED <<formRecords, tempForms, formDBInfos, rdb, recheck>>

Serve(t) ==
    \/ AllotFormHostRecord(t) \/ AllotTempForm(t) \/ AllotFormRecord(t) \/ JoinUser(t)
    \/ UpdateDBRecord(t) \/ DeleteStorage(t) \/ InsertStorage(t)
    \/ DeleteFormUserUid(t) \/ DeleteUnusedRecord(t) \/ DeleteOwnRecord(t)
    \/ LeaveTempForm(t) \/ DeleteTempForm(t) \/ DeleteFormRecord(t)
    \/ DeleteFormDBInfoCache(t) \/ DeleteHostRecord(t)
    \/ ModifyFormTempFlag(t) \/ CastUser(t)
    \/ GetNoHostDBForms(t) \/ BatchDeleteNoHostDBForms(t)
    \/ GetNoHostTempForms(t) \/ BatchDeleteNoHostTempForms(t) \/ ClearHostData(t)
    \/ DeleteFormInfoByBundleName(t) \/ CleanRemovedFormRecords(t)
    \/ CleanRemovedTempFormRecords(t) \/ CleanHostRemovedForms(t)

-----------------------------------------------------------------------------
(* What happens besides the requests.                                        *)

\* A host process starts, with a token nobody knows.
HostStarts(h) ==
    /\ h \notin alive \cup deaths \cup DOMAIN clientRecords
    /\ \A u \in DOMAIN recheck : recheck[u] # h
    /\ \A t \in Threads : "host" \in DOMAIN calls[t] => calls[t].host # h
    /\ alive' = alive \cup {h}
    /\ UNCHANGED <<tables, calls, deaths, orphans>>

\* It ends; who watched its token queues the HostDied task.
HostEnds(h) ==
    /\ h \in alive
    /\ alive' = alive \ {h}
    /\ deaths' = IF h \in DOMAIN clientRecords THEN deaths \cup {h} ELSE deaths
    /\ UNCHANGED <<tables, calls, orphans>>

\* HandleHostDied: the host's entry and its temporary forms leave the lists ...
HandleHostDied(h) ==
    /\ h \in deaths /\ orphans = {}
    /\ deaths' = deaths \ {h}
    /\ orphans' = tempForms \cap Held(h)
    /\ tempForms' = tempForms \ Held(h)
    /\ clientRecords' = Without(clientRecords, {h})
    /\ UNCHANGED <<formRecords, formDBInfos, rdb, recheck, calls, alive>>

\* ... and then the records are deleted.
DeleteRecordTempForms ==
    /\ orphans # {}
    /\ formRecords' = Without(formRecords, orphans)
    /\ orphans' = {}
    /\ UNCHANGED <<tempForms, clientRecords, formDBInfos, rdb, recheck, calls, alive,
                   deaths>>

RecheckWhetherNeedCleanFormHost(u) ==
    /\ u \in DOMAIN recheck
    /\ clientRecords' = IF recheck[u] \in DOMAIN clientRecords /\ Held(recheck[u]) = {}
                        THEN Without(clientRecords, {recheck[u]}) ELSE clientRecords
    /\ recheck' = Without(recheck, {u})
    /\ UNCHANGED <<formRecords, tempForms, formDBInfos, rdb, calls, outside>>

\* The service process restarts: FormDbCache::Start loads the stored rows.
Restart ==
    /\ formDBInfos' = rdb
    /\ formRecords' = << >> /\ tempForms' = {} /\ clientRecords' = << >> /\ recheck' = << >>
    /\ calls' = [t \in Threads |-> Idle]
    /\ deaths' = {} /\ orphans' = {}
    /\ UNCHANGED <<rdb, alive>>

Next ==
    \/ \E t \in Threads : Request(t) \/ Serve(t)
    \/ \E h \in Hosts : HostStarts(h) \/ HostEnds(h) \/ HandleHostDied(h)
    \/ DeleteRecordTempForms
    \/ \E u \in Uids : RecheckWhetherNeedCleanFormHost(u)
    \/ Restart

Spec == Init /\ [][Next]_vars

-----------------------------------------------------------------------------
(* Properties.                                                               *)

\* No request is being served.
Quiet == \A t \in Threads : calls[t] = Idle

\* The tables hold what their types say; no request has more than five sections
\* ahead; and the check of AddForm keeps the temporary forms at their limit, give or
\* take the additions checked meanwhile.
TypeOK ==
    /\ formRecords \in UNION {[S -> [temp : BOOLEAN, uids : SUBSET Uids]] : S \in SUBSET Forms}
    /\ tempForms \in SUBSET Forms
    /\ Cardinality(tempForms) <= MAX_TEMP_FORMS + Cardinality(Threads) - 1
    /\ clientRecords \in UNION {[S -> SUBSET Forms] : S \in SUBSET Hosts}
    /\ {formDBInfos, rdb} \subseteq UNION {[S -> SUBSET Uids] : S \in SUBSET Forms}
    /\ recheck \in UNION {[S -> Hosts] : S \in SUBSET Uids}
    /\ \A t \in Threads : /\ DOMAIN calls[t] \in {DOMAIN Idle, FormFields, TableFields}
                         /\ Len(calls[t].todo) <= 5
                         /\ \A s \in Range(calls[t].todo) : s \in Steps
    /\ alive \in SUBSET Hosts /\ deaths \in SUBSET Hosts
    /\ orphans \in SUBSET Forms

\* Once no request is being served, an owner the cache knows is one the store knows:
\* the service may restart at any moment and then goes by the rows (GetDBRecord in
\* AllotFormById, HandleDeleteForm and ReleaseForm).  Not the other way round: see
\* CacheIsStored.
OwnersAreStored ==
    Quiet => \A f \in DOMAIN formDBInfos : formDBInfos[f] \subseteq Row(rdb, f)

\* The list of temporary forms and the flags of the records agree on the forms of
\* running hosts, once no request is being served: DeleteForm goes by the list,
\* AllotFormById and the cleaning of an uninstalled bundle by the flag.
LiveTempAgrees ==
    Quiet => \A h \in alive : \A f \in Held(h) : f \in tempForms <=> IsTemp(f)

\* A step takes a user of a form from the form's owners only in a request of that
\* user, unless the bundle is uninstalled or the service restarts: no host deletes a
\* form that another one uses.
UsersKeepTheirForms ==
    [][\A f \in DOMAIN formRecords : \A u \in formRecords[f].uids \cap Row(formDBInfos, f) :
          \/ u \in Row(formDBInfos', f)
          \/ Restart
          \/ \E t \in Threads : /\ calls[t] # Idle
                              /\ (calls[t].uid = u \/ At(t, "DeleteFormInfoByBundleName"))]_vars

\* form_db_cache.cpp:86, "Save or update form data to DbCache and DB.": once no request
\* is being served the store has what the cache has.
CacheIsStored == Quiet => formDBInfos = rdb
=============================================================================
