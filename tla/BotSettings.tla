----------------------------- MODULE BotSettings -----------------------------
(***************************************************************************)
(* The bot lists of the settings page (static/js/settings_outgoing_        *)
(* services.js, set_up): the edit-bot form and its PATCH, the delete and   *)
(* reactivate buttons, render_services, the create-service form and the    *)
(* active / inactive tabs.                                                 *)
(*                                                                         *)
(* A bot row shows the bot's full name and avatar; the page has one edit   *)
(* form.  Each click of a row's edit button re-reads the row and calls     *)
(* form.validate with a submitHandler that closes over that row; jQuery    *)
(* validate creates a validator only the first time it is called on a     *)
(* form and afterwards returns the existing one, ignoring the options, so  *)
(* 'validator' records the row the installed submitHandler closes over.    *)
(*                                                                         *)
(* The server is part of the environment: it applies a PATCH when it       *)
(* receives it (or rejects it), and responses arrive in any order.  Row    *)
(* and edit-box visibility, spinners and error texts are left out except  *)
(* where a property reads them.                                            *)
(***************************************************************************)
EXTENDS Naturals, Sequences, FiniteSets, TLC

CONSTANTS
    Emails,     \* bot emails (model values)
    Names,      \* bot full names (model values)
    Services,   \* outgoing services, as rendered by add_service_row
    None,       \* no value (an attribute not set yet)
    MaxOps      \* bound on user clicks and re-renders in one behaviour

VARIABLES
    server_name,    \* the server's full name of each bot
    row_name,       \* the name shown in each bot row (.name text)
    avatar_v,       \* the &v= version in each row's avatar src
    image_version,  \* set_up's image_version
    active_rows,    \* bots with a row in #active_bots_list
    inactive_rows,  \* bots with a row in #inactive_bots_list
    form_email,     \* the edit form's data-email attribute
    form_name,      \* the edit form's .edit_bot_name field
    validator,      \* the row the form's submitHandler closes over, or None
    resets,         \* reset_edit_bot click handlers bound: <<[row, name]>>
    patches,        \* PATCH requests not yet answered
    edit_button,    \* .edit_bot_button is shown
    edit_errors,    \* .bot_edit_errors is shown
    dels,           \* DELETE requests not yet answered
    reacts,         \* reactivate POSTs not yet answered
    delete_error,   \* #bot_delete_error is shown
    service_rows,   \* list -> service -> rows of it in #<list>_services_list
    tab,            \* the tab with class "active"
    lists_shown,    \* which of #active_bots_list / #inactive_bots_list is shown
    ops,            \* clicks and re-renders so far
    last_render     \* the data of the last render_services, None after a create

vars == <<server_name, row_name, avatar_v, image_version, active_rows,
          inactive_rows, form_email, form_name, validator, resets, patches,
          edit_button, edit_errors, dels, reacts, delete_error, service_rows,
          tab, lists_shown, ops, last_render>>

Lists == {"active", "inactive"}

\* A PATCH: its url's email, the full_name sent, whether a file was attached,
\* the row its success callback updates, and where the server is with it.
Patch == [id : Nat, url : Emails, full_name : Names, avatar : BOOLEAN,
          row : Emails, status : {"sent", "ok", "err"}]

Click == ops < MaxOps /\ ops' = ops + 1

-----------------------------------------------------------------------------
(* The edit-bot form                                                       *)

\* $(e.currentTarget) is in #active_bots_list.  The form is filled from the
\* row, its data-email set, a reset handler bound on the row's button, and
\* form.validate called: only the first call installs a submitHandler.
OpenEditBotForm(e) ==
    /\ Click
    /\ e \in active_rows
    /\ form_email' = e
    /\ form_name' = row_name[e]
    /\ resets' = Append(resets, [row |-> e, name |-> row_name[e]])
    /\ validator' = IF validator = None THEN e ELSE validator
    /\ UNCHANGED <<server_name, row_name, avatar_v, image_version, active_rows,
                   inactive_rows, patches, edit_button, edit_errors, dels,
                   reacts, delete_error, service_rows, tab, lists_shown, last_render>>

\* The user edits the name field.
EditName(n) ==
    /\ validator # None
    /\ form_name' = n
    /\ UNCHANGED <<server_name, row_name, avatar_v, image_version, active_rows,
                   inactive_rows, form_email, validator, resets, patches,
                   edit_button, edit_errors, dels, reacts, delete_error,
                   service_rows, tab, lists_shown, ops, last_render>>

\* A click of a row's cancel button runs the handlers bound on it in the
\* order they were bound; each restores its own old_full_name and unbinds
\* itself, so the field ends with the name of the last one.
ResetEditBot(r) ==
    LET mine == SelectSeq(resets, LAMBDA h : h.row = r)
    IN /\ mine # <<>>
       /\ form_name' = mine[Len(mine)].name
       /\ resets' = SelectSeq(resets, LAMBDA h : h.row # r)
       /\ UNCHANGED <<server_name, row_name, avatar_v, image_version,
                      active_rows, inactive_rows, form_email, validator,
                      patches, edit_button, edit_errors, dels, reacts,
                      delete_error, service_rows, tab, lists_shown, ops, last_render>>

\* submitHandler: the email is read from the form now, the row is the one
\* the handler closed over.  The edit button is hidden until the response.
SubmitHandler(avatar) ==
    /\ Click
    /\ validator # None
    /\ patches' = patches \cup
          {[id |-> ops, url |-> form_email, full_name |-> form_name,
            avatar |-> avatar, row |-> validator, status |-> "sent"]}
    /\ edit_button' = FALSE
    /\ UNCHANGED <<server_name, row_name, avatar_v, image_version, active_rows,
                   inactive_rows, form_email, form_name, validator, resets,
                   edit_errors, dels, reacts, delete_error, service_rows, tab,
                   lists_shown, last_render>>

\* The server receives a PATCH and applies it, or rejects it.
ServerPatch(p, ok) ==
    /\ p \in patches
    /\ p.status = "sent"
    /\ patches' = (patches \ {p}) \cup
                  {[p EXCEPT !.status = IF ok THEN "ok" ELSE "err"]}
    /\ server_name' = IF ok THEN [server_name EXCEPT ![p.url] = p.full_name]
                      ELSE server_name
    /\ UNCHANGED <<row_name, avatar_v, image_version, active_rows,
                   inactive_rows, form_email, form_name, validator, resets,
                   edit_button, edit_errors, dels, reacts, delete_error,
                   service_rows, tab, lists_shown, ops, last_render>>

\* Regression variant: the avatar src is versioned without the increment.
PatchSuccessNoBump(p) ==
    /\ p \in patches
    /\ p.status = "ok"
    /\ patches' = patches \ {p}
    /\ edit_button' = TRUE
    /\ edit_errors' = FALSE
    /\ row_name' = [row_name EXCEPT ![p.row] = p.full_name]
    /\ IF p.avatar
       THEN /\ avatar_v' = [avatar_v EXCEPT ![p.row] = image_version + 1]
            /\ UNCHANGED image_version
       ELSE UNCHANGED <<image_version, avatar_v>>
    /\ UNCHANGED <<server_name, active_rows, inactive_rows, form_email,
                   form_name, validator, resets, dels, reacts, delete_error,
                   service_rows, tab, lists_shown, ops, last_render>>

\* success: show the edit button, hide the errors, write full_name into the
\* closed-over row and, if an avatar came back, bump image_version and
\* version that row's avatar src with it.
PatchSuccess(p) ==
    /\ p \in patches
    /\ p.status = "ok"
    /\ patches' = patches \ {p}
    /\ edit_button' = TRUE
    /\ edit_errors' = FALSE
    /\ row_name' = [row_name EXCEPT ![p.row] = p.full_name]
    /\ IF p.avatar
       THEN /\ image_version' = image_version + 1
            /\ avatar_v' = [avatar_v EXCEPT ![p.row] = image_version + 1]
       ELSE UNCHANGED <<image_version, avatar_v>>
    /\ UNCHANGED <<server_name, active_rows, inactive_rows, form_email,
                   form_name, validator, resets, dels, reacts, delete_error,
                   service_rows, tab, lists_shown, ops, last_render>>

\* error: show the edit button and the server's message.
PatchError(p) ==
    /\ p \in patches
    /\ p.status = "err"
    /\ patches' = patches \ {p}
    /\ edit_button' = TRUE
    /\ edit_errors' = TRUE
    /\ UNCHANGED <<server_name, row_name, avatar_v, image_version,
                   active_rows, inactive_rows, form_email, form_name,
                   validator, resets, dels, reacts, delete_error,
                   service_rows, tab, lists_shown, ops, last_render>>

-----------------------------------------------------------------------------
(* Delete and reactivate                                                   *)

\* button.delete_bot in #active_bots_list: DELETE /json/bots/<email>.
DeleteBot(e) ==
    /\ Click
    /\ e \in active_rows
    /\ dels' = dels \cup {[id |-> ops, email |-> e]}
    /\ UNCHANGED <<server_name, row_name, avatar_v, image_version,
                   active_rows, inactive_rows, form_email, form_name,
                   validator, resets, patches, edit_button, edit_errors,
                   reacts, delete_error, service_rows, tab, lists_shown, last_render>>

\* success: the clicked button's row is hidden and removed (a no-op if a
\* re-render has removed it already); error: the message is shown.
DeleteResponse(d, ok) ==
    /\ d \in dels
    /\ dels' = dels \ {d}
    /\ IF ok THEN /\ active_rows' = active_rows \ {d.email}
                  /\ UNCHANGED delete_error
             ELSE /\ delete_error' = TRUE
                  /\ UNCHANGED active_rows
    /\ UNCHANGED <<server_name, row_name, avatar_v, image_version,
                   inactive_rows, form_email, form_name, validator, resets,
                   patches, edit_button, edit_errors, reacts, service_rows,
                   tab, lists_shown, ops, last_render>>

\* button.reactivate_bot in #inactive_bots_list: POST .../reactivate.
ReactivateBot(e) ==
    /\ Click
    /\ e \in inactive_rows
    /\ reacts' = reacts \cup {[id |-> ops, email |-> e]}
    /\ UNCHANGED <<server_name, row_name, avatar_v, image_version,
                   active_rows, inactive_rows, form_email, form_name,
                   validator, resets, patches, edit_button, edit_errors, dels,
                   delete_error, service_rows, tab, lists_shown, last_render>>

\* Only an error callback is given: success changes nothing on the page.
ReactivateResponse(r, ok) ==
    /\ r \in reacts
    /\ reacts' = reacts \ {r}
    /\ delete_error' = (delete_error \/ ~ok)
    /\ UNCHANGED <<server_name, row_name, avatar_v, image_version,
                   active_rows, inactive_rows, form_email, form_name,
                   validator, resets, patches, edit_button, edit_errors, dels,
                   service_rows, tab, lists_shown, ops, last_render>>

-----------------------------------------------------------------------------
(* render_services, the create-service form and the tabs                   *)

\* The services data of a render: service -> is_active.
ServiceData == UNION {[D -> BOOLEAN] : D \in SUBSET Services}

\* add_service_row: an active service goes to #active_services_list, an
\* inactive one to #inactive_services_list.
AddServiceRows(rows, data) ==
    [l \in Lists |-> [s \in Services |->
        rows[l][s] + IF s \in DOMAIN data /\ data[s] = (l = "active")
                     THEN 1 ELSE 0]]

\* On 'zulip.service_data_changed': empty #active_bots_list and
\* #inactive_bots_list, add a row for each service of service_data, then
\* show the list of the active tab.
RenderServices(data) ==
    /\ Click
    /\ active_rows' = {}
    /\ inactive_rows' = {}
    /\ service_rows' = AddServiceRows(service_rows, data)
    /\ lists_shown' = {tab}
    /\ last_render' = data
    /\ UNCHANGED <<server_name, row_name, avatar_v, image_version,
                   form_email, form_name, validator, resets, patches,
                   edit_button, edit_errors, dels, reacts, delete_error, tab>>

\* #create_service_form's submitHandler: add an active row for the form's
\* service; no request is sent.
CreateService(svc) ==
    /\ Click
    /\ service_rows' = AddServiceRows(service_rows, svc :> TRUE)
    /\ last_render' = None
    /\ UNCHANGED <<server_name, row_name, avatar_v, image_version,
                   active_rows, inactive_rows, form_email, form_name,
                   validator, resets, patches, edit_button, edit_errors, dels,
                   reacts, delete_error, tab, lists_shown>>

\* The active-bots and inactive-bots tabs.
ClickTab(t) ==
    /\ tab' = t
    /\ lists_shown' = {t}
    /\ UNCHANGED <<server_name, row_name, avatar_v, image_version,
                   active_rows, inactive_rows, form_email, form_name,
                   validator, resets, patches, edit_button, edit_errors, dels,
                   reacts, delete_error, service_rows, ops, last_render>>

-----------------------------------------------------------------------------

Init ==
    /\ server_name \in [Emails -> Names]
    /\ row_name = server_name
    /\ avatar_v = [e \in Emails |-> 0]
    /\ image_version = 0
    /\ active_rows \in SUBSET Emails
    /\ inactive_rows = Emails \ active_rows
    /\ form_email = None
    /\ form_name = None
    /\ validator = None
    /\ resets = <<>>
    /\ patches = {}
    /\ edit_button = TRUE
    /\ edit_errors = FALSE
    /\ dels = {}
    /\ reacts = {}
    /\ delete_error = FALSE
    /\ service_rows = [l \in Lists |-> [s \in Services |-> 0]]
    /\ tab = "active"
    /\ lists_shown = {"active"}
    /\ ops = 0
    /\ last_render = None

Next ==
    \/ \E e \in Emails : OpenEditBotForm(e) \/ ResetEditBot(e)
                        \/ DeleteBot(e) \/ ReactivateBot(e)
    \/ \E n \in Names : EditName(n)
    \/ \E a \in BOOLEAN : SubmitHandler(a)
    \/ \E p \in patches : \/ \E ok \in BOOLEAN : ServerPatch(p, ok)
                         \/ PatchSuccess(p) \/ PatchError(p)
    \/ \E d \in dels, ok \in BOOLEAN : DeleteResponse(d, ok)
    \/ \E r \in reacts, ok \in BOOLEAN : ReactivateResponse(r, ok)
    \/ \E data \in ServiceData : RenderServices(data)
    \/ \E svc \in Services : CreateService(svc)
    \/ \E t \in Lists : ClickTab(t)

Spec == Init /\ [][Next]_vars

-----------------------------------------------------------------------------
(* Properties                                                              *)

Request == [id : Nat, email : Emails]

TypeOK ==
    /\ server_name \in [Emails -> Names]
    /\ row_name \in [Emails -> Names]
    /\ avatar_v \in [Emails -> 0..image_version]
    /\ active_rows \cup inactive_rows \subseteq Emails
    /\ form_email \in Emails \cup {None}
    /\ form_name \in Names \cup {None}
    /\ validator \in Emails \cup {None}
    /\ patches \subseteq Patch
    /\ dels \subseteq Request /\ reacts \subseteq Request
    /\ {edit_button, edit_errors, delete_error} \subseteq BOOLEAN
    /\ service_rows \in [Lists -> [Services -> Nat]]
    /\ tab \in Lists /\ lists_shown \subseteq Lists
    /\ ops \in 0..MaxOps

\* Once every PATCH has been answered, each bot row shows the name the
\* server has for that bot: the success callback writes the name it sent
\* into the row of the bot it was sent for.
NamesMatchServer ==
    patches = {} =>
        \A e \in active_rows \cup inactive_rows : row_name[e] = server_name[e]

\* Right after render_services, and until the create form adds a row, the
\* services lists show each service of the data it rendered exactly once,
\* in the list its is_active selects.
ListsShowServiceData ==
    last_render # None =>
        service_rows = AddServiceRows([l \in Lists |-> [s \in Services |-> 0]],
                                      last_render)

=============================================================================
