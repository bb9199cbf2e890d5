------------------------------ MODULE BotData ------------------------------
(***************************************************************************)
(* The client-side store of the realm's bots (static/js/bot_data.js).      *)
(*                                                                         *)
(* bots maps a bot's email to the fields picked from the server's bot     *)
(* object plus the can_admin flag that set_can_admin caches on it;        *)
(* bot_services maps a bot's email to its outgoing service.  Every        *)
(* mutation calls send_change_event, a 50 ms trailing _.debounce of the   *)
(* 'zulip.bot_data_changed' trigger: the calls made within one quiet      *)
(* period are coalesced into one trigger that runs later, from the event  *)
(* loop.  The listener (the bot settings page) re-renders from            *)
(* get_all_bots_for_current_user when the trigger runs; 'rendered' is     *)
(* what it last rendered.                                                 *)
(*                                                                         *)
(* Data is abstracted to what the properties tell apart: of the picked    *)
(* bot_fields only owner and is_active are kept (the others are copied    *)
(* verbatim and never read), and a service is one opaque value.           *)
(***************************************************************************)
EXTENDS Naturals, FiniteSets, TLC

CONSTANTS
    Emails,       \* bot emails (model values)
    Users,        \* human users that can own a bot (model values)
    CurrentUser,  \* the user this page is logged in as
    ServiceVals,  \* opaque outgoing-service values (base_url, interface, name)
    Undef,        \* JavaScript undefined: a field absent from the server object
    Absent,       \* a field absent from an update (left alone by _.extend)
    MaxEvents     \* bound on the store operations in one behaviour

ASSUME CurrentUser \in Users
ASSUME MaxEvents \in Nat

VARIABLES
    bots,          \* email -> [owner, is_active, can_admin]
    bot_services,  \* email -> service value
    is_admin,      \* page_params.is_admin, read by set_can_admin
    pending,       \* a debounced send_change_event trigger is scheduled
    rendered,      \* the listener's last render of get_all_bots_for_current_user
    initialized,   \* bot_data.initialize has run
    events         \* store operations so far (bounded by MaxEvents)

vars == <<bots, bot_services, is_admin, pending, rendered, initialized, events>>

Bot == [owner : Users \cup {Undef}, is_active : BOOLEAN \cup {Undef},
        can_admin : BOOLEAN]

\* A bot object from the server (page_params.realm_bots or a bot event).
BotInput == [owner : Users \cup {Undef}, is_active : BOOLEAN \cup {Undef}]

\* The fields of a bot_update; Absent ones are not picked.
BotUpdate == [owner : Users \cup {Absent}, is_active : BOOLEAN \cup {Absent}]

\* A partial function from Emails, as a JavaScript object keyed by email.
Store(V) == UNION {[D -> V] : D \in SUBSET Emails}

\* people.is_current_user (people.js, outside this repository).
IsCurrentUser(owner) == owner = CurrentUser

-----------------------------------------------------------------------------
(* Helpers of bot_data.js                                                  *)

\* set_can_admin: an admin administers every bot, others only their own.
SetCanAdmin(bot) ==
    [bot EXCEPT !.can_admin =
        \/ is_admin
        \/ bot.owner # Undef /\ IsCurrentUser(bot.owner)]

\* Regression variant: a bot_fields list that lost 'is_active'.
PickBotNoActive(in) == [owner |-> in.owner, can_admin |-> FALSE]

\* _.pick(bot, bot_fields)
PickBot(in) == [owner |-> in.owner, is_active |-> in.is_active, can_admin |-> FALSE]

\* _.extend(bot, _.pick(bot_update, bot_fields))
ExtendBot(bot, upd) ==
    [bot EXCEPT !.owner     = IF upd.owner = Absent THEN @ ELSE upd.owner,
                !.is_active = IF upd.is_active = Absent THEN @ ELSE upd.is_active]

\* send_change_event: (re)arm the debounce timer.
SendChangeEvent == pending' = TRUE

\* get_all_bots_for_current_user: the bots owned by the current user.
GetAllBotsForCurrentUser ==
    [e \in {x \in DOMAIN bots : IsCurrentUser(bots[x].owner)} |-> bots[e]]

\* get_editable: the filter of get_editable, for one bot.
Editable(e) == bots[e].is_active = TRUE /\ IsCurrentUser(bots[e].owner)

Operation == events < MaxEvents /\ initialized /\ events' = events + 1

-----------------------------------------------------------------------------
(* Operations                                                              *)

Init ==
    /\ bots = <<>>
    /\ bot_services = <<>>
    /\ is_admin \in BOOLEAN
    /\ pending = FALSE
    /\ rendered = <<>>
    /\ initialized = FALSE
    /\ events = 0

\* add: the stored bot is a fresh pick, replacing any bot of that email.
Add(e, in) ==
    /\ Operation
    /\ bots' = (e :> SetCanAdmin(PickBot(in))) @@ bots
    /\ SendChangeEvent
    /\ UNCHANGED <<bot_services, is_admin, rendered, initialized>>

\* add_bot_service
AddBotService(e, svc) ==
    /\ Operation
    /\ bot_services' = (e :> svc) @@ bot_services
    /\ SendChangeEvent
    /\ UNCHANGED <<bots, is_admin, rendered, initialized>>

\* Regression variant: deactivate that forgets to send the change event.
DeactivateSilently(e) ==
    /\ Operation
    /\ e \in DOMAIN bots
    /\ bots' = [bots EXCEPT ![e].is_active = FALSE]
    /\ UNCHANGED <<bot_services, is_admin, pending, rendered, initialized>>

\* deactivate: bots[email].is_active = false.  For an unknown email it
\* throws a TypeError before any change, so it is enabled on known ones.
Deactivate(e) ==
    /\ Operation
    /\ e \in DOMAIN bots
    /\ bots' = [bots EXCEPT ![e].is_active = FALSE]
    /\ SendChangeEvent
    /\ UNCHANGED <<bot_services, is_admin, rendered, initialized>>

\* Regression variant: update that keeps the can_admin cached by add.
UpdateKeepCanAdmin(e, upd) ==
    /\ Operation
    /\ e \in DOMAIN bots
    /\ bots' = [bots EXCEPT ![e] = ExtendBot(@, upd)]
    /\ SendChangeEvent
    /\ UNCHANGED <<bot_services, is_admin, rendered, initialized>>

\* update: extend the stored bot in place, then recompute can_admin.  For an
\* unknown email _.extend returns undefined and set_can_admin throws.
Update(e, upd) ==
    /\ Operation
    /\ e \in DOMAIN bots
    /\ bots' = [bots EXCEPT ![e] = SetCanAdmin(ExtendBot(@, upd))]
    /\ SendChangeEvent
    /\ UNCHANGED <<bot_services, is_admin, rendered, initialized>>

\* update_bot_service: for an unknown email _.extend(undefined, ...) is a
\* silent no-op, and the change event is still sent.
UpdateBotService(e, svc) ==
    /\ Operation
    /\ bot_services' = IF e \in DOMAIN bot_services
                       THEN [bot_services EXCEPT ![e] = svc]
                       ELSE bot_services
    /\ SendChangeEvent
    /\ UNCHANGED <<bots, is_admin, rendered, initialized>>

\* initialize: add every bot of page_params.realm_bots, then every service
\* of page_params.realm_bots_services (each an array, here keyed by email).
Initialize(realmBots, realmServices) ==
    /\ ~initialized
    /\ initialized' = TRUE
    /\ bots' = [e \in DOMAIN realmBots |-> SetCanAdmin(PickBot(realmBots[e]))]
    /\ bot_services' = realmServices
    /\ pending' = (DOMAIN realmBots # {} \/ DOMAIN realmServices # {})
    /\ UNCHANGED <<is_admin, rendered, events>>

\* The debounced trigger runs after a quiet period; the listener re-renders
\* the current user's bots from the store as it is then.
FireChangeEvent ==
    /\ pending
    /\ pending' = FALSE
    /\ rendered' = GetAllBotsForCurrentUser
    /\ UNCHANGED <<bots, bot_services, is_admin, initialized, events>>

\* Environment: page_params.is_admin is changed outside this module (the
\* realm_user events of server_events.js); nothing here recomputes can_admin.
SetIsAdmin(b) ==
    /\ Operation
    /\ is_admin' = b
    /\ UNCHANGED <<bots, bot_services, pending, rendered, initialized>>

Next ==
    \/ \E rb \in Store(BotInput), rs \in Store(ServiceVals) : Initialize(rb, rs)
    \/ \E e \in Emails, in \in BotInput : Add(e, in)
    \/ \E e \in Emails, svc \in ServiceVals : AddBotService(e, svc)
    \/ \E e \in Emails : Deactivate(e)
    \/ \E e \in Emails, upd \in BotUpdate : Update(e, upd)
    \/ \E e \in Emails, svc \in ServiceVals : UpdateBotService(e, svc)
    \/ FireChangeEvent
    \/ \E b \in BOOLEAN : SetIsAdmin(b)

\* The browser runs a due timer callback once the handler in progress
\* returns, so a scheduled trigger is not postponed forever.
Spec == Init /\ [][Next]_vars /\ WF_vars(FireChangeEvent)

-----------------------------------------------------------------------------
(* Properties                                                              *)

TypeOK ==
    /\ bots \in Store(Bot)
    /\ bot_services \in Store(ServiceVals)
    /\ is_admin \in BOOLEAN
    /\ pending \in BOOLEAN
    /\ rendered \in Store(Bot)
    /\ initialized \in BOOLEAN
    /\ events \in 0..MaxEvents

\* A bot get_editable offers for editing is one the cached can_admin flag
\* lets the user administer: the flag set by add/update is never behind an
\* owner change made through update.
EditableImpliesCanAdmin ==
    \A e \in DOMAIN bots : Editable(e) => bots[e].can_admin

\* Every change to the store, however the debounce coalesces the
\* send_change_event calls, is eventually rendered: once the operations
\* stop, the listener's view equals get_all_bots_for_current_user.
ViewConverges == <>[](rendered = GetAllBotsForCurrentUser)

=============================================================================
