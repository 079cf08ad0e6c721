------------------------- MODULE FormRenderStatusTable -------------------------
(***************************************************************************)
(* The transition table of the Form Render Service's status machine (FRS   *)
(* side).  Every row is processed directly, so a row is its next status.   *)
(***************************************************************************)
EXTENDS FormStatusTable

\* Mutant of RenderStarts: the row holds its event.
RenderStartsUnmapped(events) == [e \in events |-> e]

\* The rows that start an operation, in a status that accepts `events`.
RenderStarts(events) == [e \in events |-> Starts[e]]

FORM_RENDER_STATUS_TABLE_INIT ==
    RenderStarts({"RENDER_FORM", "RECYCLE_DATA", "RECYCLE_FORM", "DELETE_FORM"})

\* Mutant of FORM_RENDER_STATUS_TABLE_RENDERING: the data can be recycled meanwhile.
RENDERING_RECYCLES ==
    [RENDER_FORM_DONE |-> "RENDERED", RENDER_FORM_FAIL |-> "UNPROCESSABLE",
     RECYCLE_FORM |-> "RECYCLING"]

FORM_RENDER_STATUS_TABLE_RENDERING ==
    [RENDER_FORM_DONE |-> "RENDERED", RENDER_FORM_FAIL |-> "UNPROCESSABLE"]

FORM_RENDER_STATUS_TABLE_RENDERED ==
    RenderStarts({"RENDER_FORM", "RECYCLE_DATA", "RECYCLE_FORM", "DELETE_FORM"})

FORM_RENDER_STATUS_TABLE_RECYCLED ==
    RenderStarts({"RENDER_FORM", "RECYCLE_FORM", "RECOVER_FORM", "DELETE_FORM"})

FORM_RENDER_STATUS_TABLE_RECYCLING_DATA ==
    [RECYCLE_DATA_DONE |-> "RECYCLING_DATA", RECYCLE_DATA_FAIL |-> "RENDERED",
     RECYCLE_FORM |-> "RECYCLING"]

FORM_RENDER_STATUS_TABLE_RECYCLING ==
    [RECYCLE_FORM_DONE |-> "RECYCLED", RECYCLE_FORM_FAIL |-> "UNPROCESSABLE"]

FORM_RENDER_STATUS_TABLE_RECOVERING ==
    [RECOVER_FORM_DONE |-> "RENDERED", RECOVER_FORM_FAIL |-> "UNPROCESSABLE"]

FORM_RENDER_STATUS_TABLE_DELETING ==
    [DELETE_FORM_DONE |-> "RENDERED", DELETE_FORM_FAIL |-> "UNPROCESSABLE",
     DELETE_FORM_FINISH |-> "UNPROCESSABLE"]

FORM_RENDER_STATUS_TABLE_UNPROCESSABLE == RenderStarts(DOMAIN Starts)

FORM_RENDER_STATUS_TABLE ==
    [s \in FormFsmStatus |->
        CASE s = "INIT"           -> FORM_RENDER_STATUS_TABLE_INIT
          [] s = "RENDERING"      -> FORM_RENDER_STATUS_TABLE_RENDERING
          [] s = "RENDERED"       -> FORM_RENDER_STATUS_TABLE_RENDERED
          [] s = "RECYCLED"       -> FORM_RENDER_STATUS_TABLE_RECYCLED
          [] s = "RECYCLING_DATA" -> FORM_RENDER_STATUS_TABLE_RECYCLING_DATA
          [] s = "RECYCLING"      -> FORM_RENDER_STATUS_TABLE_RECYCLING
          [] s = "RECOVERING"     -> FORM_RENDER_STATUS_TABLE_RECOVERING
          [] s = "DELETING"       -> FORM_RENDER_STATUS_TABLE_DELETING
          [] s = "UNPROCESSABLE"  -> FORM_RENDER_STATUS_TABLE_UNPROCESSABLE]

\* GetFormStatusInfo on the render side.
RenderHasRow(s, e) == e \in DOMAIN FORM_RENDER_STATUS_TABLE[s]
RenderNext(s, e)   == FORM_RENDER_STATUS_TABLE[s][e]

================================================================================
