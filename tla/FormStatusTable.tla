---------------------------- MODULE FormStatusTable ----------------------------
(***************************************************************************)
(* The transition table of the Form Manager Service's status machine       *)
(* (FMS side): for a status and an event, the next status, how the task    *)
(* that came with the event is processed, and whether the execution        *)
(* timeout is armed.  The table is a function from statuses to functions   *)
(* from the accepted events to rows.                                       *)
(***************************************************************************)

FormFsmStatus ==
    {"INIT", "RENDERED", "RECYCLED", "RENDERING", "RECYCLING_DATA",
     "RECYCLING", "RECOVERING", "DELETING", "UNPROCESSABLE"}

FormFsmEvent ==
    {"RENDER_FORM", "RENDER_FORM_DONE", "RENDER_FORM_FAIL",
     "RECYCLE_DATA", "RECYCLE_DATA_DONE", "RECYCLE_DATA_FAIL",
     "RECYCLE_FORM", "RECYCLE_FORM_DONE", "RECYCLE_FORM_FAIL",
     "RECOVER_FORM", "RECOVER_FORM_DONE", "RECOVER_FORM_FAIL",
     "DELETE_FORM", "DELETE_FORM_DONE", "DELETE_FORM_FAIL", "DELETE_FORM_FINISH",
     "EXECUTION_TIMEOUT", "RELOAD_FORM"}

FormFsmProcessType ==
    {"PROCESS_TASK_DIRECT", "ADD_TASK_TO_QUEUE_UNIQUE", "ADD_TASK_TO_QUEUE_PUSH",
     "ADD_TASK_TO_QUEUE_DELETE", "PROCESS_TASK_FROM_QUEUE", "PROCESS_TASK_RETRY",
     "PROCESS_TASK_DELETE", "RETURN"}

FormStatusMachineInfo ==
    [nextStatus: FormFsmStatus, processType: FormFsmProcessType, timed: BOOLEAN]

Row(next, type, timed) ==
    [nextStatus |-> next, processType |-> type, timed |-> timed]

--------------------------------------------------------------------------------
(* The events that start an operation, and the status each leads to.       *)

Starts == [RENDER_FORM  |-> "RENDERING",  RECYCLE_DATA |-> "RECYCLING_DATA",
           RECYCLE_FORM |-> "RECYCLING",  RECOVER_FORM |-> "RECOVERING",
           DELETE_FORM  |-> "DELETING"]

\* A status in which no operation is under way starts the events in `events`.
StartRows(events) ==
    [e \in events |-> Row(Starts[e], "PROCESS_TASK_DIRECT", TRUE)]

\* A status in which an operation is under way: events put aside, one reply
\* that ends it, and the failures that retry it.
BusyRows(s, unique, push, done, rest, fails) ==
    [e \in unique \cup push \cup {done} \cup fails |->
        CASE e \in unique -> Row(s, "ADD_TASK_TO_QUEUE_UNIQUE", FALSE)
          [] e \in push   -> Row(s, "ADD_TASK_TO_QUEUE_PUSH", FALSE)
          [] e = done     -> Row(rest, "PROCESS_TASK_FROM_QUEUE", FALSE)
          [] e \in fails  -> Row("UNPROCESSABLE", "PROCESS_TASK_RETRY", FALSE)]

FORM_STATUS_TABLE_INIT ==
    StartRows({"RENDER_FORM", "RECYCLE_DATA", "RECYCLE_FORM", "DELETE_FORM"})

FORM_STATUS_TABLE_RENDERING ==
    BusyRows("RENDERING", {"RENDER_FORM", "RECOVER_FORM"},
             {"RECYCLE_DATA", "RECYCLE_FORM", "DELETE_FORM"},
             "RENDER_FORM_DONE", "RENDERED",
             {"RENDER_FORM_FAIL", "EXECUTION_TIMEOUT"})

FORM_STATUS_TABLE_RENDERED ==
    StartRows({"RENDER_FORM", "RECYCLE_DATA", "RECYCLE_FORM", "DELETE_FORM"})

FORM_STATUS_TABLE_RECYCLED ==
    StartRows({"RENDER_FORM", "RECYCLE_FORM", "RECOVER_FORM", "DELETE_FORM"})

FORM_STATUS_TABLE_RECYCLING_DATA ==
    [e \in {"RENDER_FORM", "RECOVER_FORM", "DELETE_FORM", "RECYCLE_DATA_DONE",
            "RECYCLE_DATA_FAIL", "RECYCLE_FORM", "RECYCLE_FORM_FAIL", "EXECUTION_TIMEOUT"} |->
        CASE e = "RECYCLE_DATA_DONE" -> Row("RECYCLING_DATA", "PROCESS_TASK_DIRECT", FALSE)
          [] e = "RECYCLE_DATA_FAIL" -> Row("RENDERED", "PROCESS_TASK_DIRECT", FALSE)
          [] e = "RECYCLE_FORM"      -> Row("RECYCLING", "PROCESS_TASK_DIRECT", TRUE)
          [] e = "RECYCLE_FORM_FAIL" -> Row("UNPROCESSABLE", "PROCESS_TASK_DIRECT", FALSE)
          [] e = "EXECUTION_TIMEOUT" -> Row("UNPROCESSABLE", "PROCESS_TASK_RETRY", FALSE)
          [] OTHER                   -> Row("RECYCLING_DATA", "ADD_TASK_TO_QUEUE_PUSH", FALSE)]

FORM_STATUS_TABLE_RECYCLING ==
    BusyRows("RECYCLING", {},
             {"RENDER_FORM", "RECYCLE_FORM", "RECOVER_FORM", "DELETE_FORM"},
             "RECYCLE_FORM_DONE", "RECYCLED",
             {"RECYCLE_FORM_FAIL", "EXECUTION_TIMEOUT"})

FORM_STATUS_TABLE_RECOVERING ==
    BusyRows("RECOVERING", {"RENDER_FORM"},
             {"RECYCLE_DATA", "RECYCLE_FORM", "DELETE_FORM"},
             "RECOVER_FORM_DONE", "RENDERED",
             {"RECOVER_FORM_FAIL", "EXECUTION_TIMEOUT"})

FORM_STATUS_TABLE_DELETING ==
    [e \in {"RENDER_FORM", "DELETE_FORM", "DELETE_FORM_DONE", "DELETE_FORM_FAIL",
            "DELETE_FORM_FINISH", "EXECUTION_TIMEOUT"} |->
        CASE e = "DELETE_FORM_DONE"   -> Row("RENDERED", "PROCESS_TASK_FROM_QUEUE", FALSE)
          [] e = "DELETE_FORM_FINISH" -> Row("UNPROCESSABLE", "PROCESS_TASK_DELETE", FALSE)
          [] e \in {"DELETE_FORM_FAIL", "EXECUTION_TIMEOUT"}
                                      -> Row("UNPROCESSABLE", "PROCESS_TASK_RETRY", FALSE)
          [] OTHER                    -> Row("DELETING", "ADD_TASK_TO_QUEUE_PUSH", FALSE)]

FORM_STATUS_TABLE_UNPROCESSABLE == StartRows(DOMAIN Starts)

FORM_STATUS_TABLE ==
    [s \in FormFsmStatus |->
        CASE s = "INIT"           -> FORM_STATUS_TABLE_INIT
          [] s = "RENDERING"      -> FORM_STATUS_TABLE_RENDERING
          [] s = "RENDERED"       -> FORM_STATUS_TABLE_RENDERED
          [] s = "RECYCLED"       -> FORM_STATUS_TABLE_RECYCLED
          [] s = "RECYCLING_DATA" -> FORM_STATUS_TABLE_RECYCLING_DATA
          [] s = "RECYCLING"      -> FORM_STATUS_TABLE_RECYCLING
          [] s = "RECOVERING"     -> FORM_STATUS_TABLE_RECOVERING
          [] s = "DELETING"       -> FORM_STATUS_TABLE_DELETING
          [] s = "UNPROCESSABLE"  -> FORM_STATUS_TABLE_UNPROCESSABLE]

\* GetFormStatusInfo: does the table have a row, and which.
HasRow(s, e) == e \in DOMAIN FORM_STATUS_TABLE[s]
GetFormStatusInfo(s, e) == FORM_STATUS_TABLE[s][e]

\* The statuses in which an operation is under way, and the others.
Busy == {"RENDERING", "RECYCLING_DATA", "RECYCLING", "RECOVERING", "DELETING"}
AtRest == FormFsmStatus \ Busy

================================================================================
