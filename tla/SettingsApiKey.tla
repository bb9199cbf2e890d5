---------------------------- MODULE SettingsApiKey ----------------------------
(***************************************************************************)
(* The "Show/change your API key" flow of the settings page              *)
(* (static/js/settings_outgoing_services.js, set_up, lines 49-83).        *)
(*                                                                         *)
(* Three boxes: the button box, the password prompt (#get_api_key_box,   *)
(* whose form is submitted by jquery.form's ajaxForm) and the key box     *)
(* (#show_api_key_box).  A realm without password authentication skips   *)
(* the prompt: the button submits the form itself.  Every submit is an    *)
(* AJAX request; requests are answered in any order, with success (the    *)
(* key) or an error.                                                       *)
(***************************************************************************)
EXTENDS Naturals

CONSTANTS
    MaxSubmits   \* bound on the form submissions in one behaviour

Button == "api_key_button_box"
Prompt == "get_api_key_box"
KeyBox == "show_api_key_box"
Boxes  == {Button, Prompt, KeyBox}

VARIABLES
    password_auth,  \* page_params.realm_password_auth_enabled !== false
    shown,          \* the boxes shown
    key_text,       \* #api_key_value's text
    password,       \* #get_api_key_password's value
    status_shown,   \* #account-settings-status is shown
    in_flight,      \* requests of the form not yet answered
    submits         \* submissions so far

vars == <<password_auth, shown, key_text, password, status_shown, in_flight,
          submits>>

\* set_up: clear the key text, hide the prompt and the key, show the button.
Init ==
    /\ password_auth \in BOOLEAN
    /\ shown = {Button}
    /\ key_text = ""
    /\ password = ""
    /\ status_shown = FALSE
    /\ in_flight = 0
    /\ submits = 0

\* The form's submit, intercepted by ajaxForm: one request.
Submit ==
    /\ submits < MaxSubmits
    /\ submits' = submits + 1
    /\ in_flight' = in_flight + 1

\* #api_key_button: show the prompt, or submit the form directly; then hide
\* the button box.
ClickApiKeyButton ==
    /\ Button \in shown
    /\ IF password_auth
       THEN /\ shown' = (shown \cup {Prompt}) \ {Button}
            /\ UNCHANGED <<in_flight, submits>>
       ELSE /\ Submit
            /\ shown' = shown \ {Button}
    /\ UNCHANGED <<password_auth, key_text, password, status_shown>>

\* The user types a password into the prompt.
TypePassword ==
    /\ Prompt \in shown
    /\ password' = "pw"
    /\ UNCHANGED <<password_auth, shown, key_text, status_shown, in_flight,
                   submits>>

\* The user submits the prompt's form (its button or Enter).
SubmitPrompt ==
    /\ Prompt \in shown
    /\ Submit
    /\ UNCHANGED <<password_auth, shown, key_text, password, status_shown>>

\* Regression variant: the response object, not its api_key, is written.
KeySuccessWholeResult ==
    /\ in_flight > 0
    /\ in_flight' = in_flight - 1
    /\ password' = ""
    /\ key_text' = "[object Object]"
    /\ shown' = (shown \cup {KeyBox}) \ {Prompt}
    /\ status_shown' = FALSE
    /\ UNCHANGED <<password_auth, submits>>

\* Regression variant: success shows the key but leaves the prompt shown.
KeySuccessKeepPrompt ==
    /\ in_flight > 0
    /\ in_flight' = in_flight - 1
    /\ password' = ""
    /\ key_text' = "key"
    /\ shown' = shown \cup {KeyBox}
    /\ status_shown' = FALSE
    /\ UNCHANGED <<password_auth, submits>>

\* success: clear the password, show the key, hide the prompt and status.
KeySuccess ==
    /\ in_flight > 0
    /\ in_flight' = in_flight - 1
    /\ password' = ""
    /\ key_text' = "key"
    /\ shown' = (shown \cup {KeyBox}) \ {Prompt}
    /\ status_shown' = FALSE
    /\ UNCHANGED <<password_auth, submits>>

\* error: report it in the status box, hide the key, show the prompt.
KeyError ==
    /\ in_flight > 0
    /\ in_flight' = in_flight - 1
    /\ status_shown' = TRUE
    /\ shown' = (shown \cup {Prompt}) \ {KeyBox}
    /\ UNCHANGED <<password_auth, key_text, password, submits>>

Next ==
    \/ ClickApiKeyButton
    \/ TypePassword
    \/ SubmitPrompt
    \/ KeySuccess
    \/ KeyError

Spec == Init /\ [][Next]_vars

-----------------------------------------------------------------------------
(* Properties                                                              *)

TypeOK ==
    /\ password_auth \in BOOLEAN
    /\ shown \subseteq Boxes
    /\ key_text \in {"", "key"}
    /\ password \in {"", "pw"}
    /\ status_shown \in BOOLEAN
    /\ in_flight \in 0..submits
    /\ submits \in 0..MaxSubmits

\* Whatever order the button, the submissions and their answers come in,
\* the page never shows two of the three boxes, and once no request is
\* waiting it shows exactly one; the key box is shown only with a key in it.
OneApiKeyBox ==
    /\ \A b1, b2 \in shown : b1 = b2
    /\ in_flight = 0 => shown # {}
    /\ KeyBox \in shown => key_text # ""

=============================================================================
