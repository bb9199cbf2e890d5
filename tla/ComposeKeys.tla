---------------------------- MODULE ComposeKeys ----------------------------
(***************************************************************************)
(* The compose form's Tab/Enter handling (static/js/composebox_typeahead  *)
(* .js: handle_keydown, handle_keyup, the #enter_sends click handler).    *)
(*                                                                         *)
(* A keydown of Enter, or of Tab without Shift, picks the field to focus  *)
(* next and stores it in the module variable nextFocus.  If no typeahead  *)
(* is shown the focus moves at once, otherwise it waits for the keyup,    *)
(* which moves it if nextFocus is set.  Enter in the content box sends    *)
(* the message (compose.finish) when the modifiers match enter_sends,     *)
(* unless the send button is already disabled.                            *)
(*                                                                         *)
(* The keyboard, the mouse, the typeahead plugin (which opens its menus,  *)
(* and hides them on an escape or a blur; its Tab/Enter keyup is part of  *)
(* HandleKeyup) and compose.js (which re-enables the send button when a   *)
(* send completes) are the environment.  Modifier flags of a key event    *)
(* are those of the modifier keys held when it is delivered; Ctrl stands  *)
(* for Ctrl or Cmd.  Message text is not modelled.                        *)
(***************************************************************************)
EXTENDS Integers, FiniteSets, Sequences

CONSTANTS
    Outside    \* focus outside form#send_message_form

Stream  == "stream"
Subject == "subject"
PM      == "private_message_recipient"
Content == "new_message_content"
SendBtn == "compose-send-button"
None    == "none"                 \* nextFocus = false

Enter == "Enter"
Tab   == "Tab"
Shift == "Shift"
Ctrl  == "Ctrl"

\* The fields that carry a typeahead.
Fields == {Stream, Subject, PM, Content}
Elements == Fields \cup {SendBtn}

\* Browser tab order of the visible form elements in each compose mode.
TabOrder == [stream  |-> <<Stream, Subject, Content, SendBtn>>,
             private |-> <<PM, Content, SendBtn>>]

VARIABLES
    mode,           \* compose box for a stream or a private message
    focus,          \* the focused element (the target of key events)
    held,           \* keys physically held down
    nextFocus,      \* composebox_typeahead's nextFocus
    shown,          \* field -> its typeahead menu is shown
    enter_sends,    \* page_params.enter_sends
    send_disabled,  \* #compose-send-button has disabled="disabled"
    in_flight       \* compose.finish calls not yet completed

vars == <<mode, focus, held, nextFocus, shown, enter_sends, send_disabled,
          in_flight>>

Visible == {TabOrder[mode][i] : i \in 1..Len(TabOrder[mode])}

\* The element the browser's default Tab / Shift-Tab moves focus to.
TabStep(el, d) ==
    LET o == TabOrder[mode]
        i == CHOOSE j \in 1..Len(o) : o[j] = el
    IN IF i + d \in 1..Len(o) THEN o[i + d] ELSE Outside

-----------------------------------------------------------------------------
(* handle_keydown / handle_keyup                                           *)

\* code === 13 || (code === 9 && !e.shiftKey)
IsTabOrEnter(k, shift) == k = Enter \/ (k = Tab /\ ~shift)

\* Regression variant: the recipient box names itself as the next field.
NextFocusForSelf(target, k) ==
    CASE target = Stream  -> Subject
      [] target = Subject -> Content
      [] target = PM      -> PM
      [] target = Content -> IF k = Enter THEN None ELSE SendBtn
      [] OTHER            -> None

\* The if / else-if chain that assigns nextFocus.
NextFocusFor(target, k) ==
    CASE target = Stream  -> Subject
      [] target = Subject -> Content
      [] target = PM      -> Content
      [] target = Content -> IF k = Enter THEN None ELSE SendBtn
      [] OTHER            -> None

AnyShown == \E f \in Fields : shown[f]

\* Ctrl/Cmd-Enter without enter_sends, or a bare Enter with enter_sends.
SendChord(shift, ctrl) ==
    \/ ~enter_sends /\ ctrl
    \/ enter_sends /\ ~(shift \/ ctrl)

\* The send branch: disable the send button and call compose.finish,
\* unless the button is disabled already.
FinishSend(sends) ==
    IF sends /\ ~send_disabled
    THEN /\ send_disabled' = TRUE
         /\ in_flight' = in_flight + 1
    ELSE UNCHANGED <<send_disabled, in_flight>>

HandleKeydown(k) ==
    LET t     == focus
        shift == Shift \in held
        ctrl  == Ctrl \in held
        nf    == NextFocusFor(t, k)
        now   == ~AnyShown /\ nf # None     \* focus moves on keydown
        sends == ~AnyShown /\ t = Content /\ k = Enter /\ SendChord(shift, ctrl)
        prevented == \/ t \in {Stream, Subject, PM}
                     \/ t = Content /\ (k # Enter \/ sends)
    IN
    /\ k \in {Enter, Tab}
    /\ t \in Elements
    /\ IsTabOrEnter(k, shift)
    /\ held' = held \cup {k}
    /\ nextFocus' = IF AnyShown THEN nf ELSE None
    /\ focus' = CASE now                       -> nf
                  [] ~prevented /\ k = Tab      -> TabStep(t, 1)
                  [] OTHER                      -> t
    /\ FinishSend(sends)
    /\ UNCHANGED <<mode, shown, enter_sends>>

\* Shift-Tab: handle_keydown does nothing and the browser moves focus back.
HandleKeydownShiftTab ==
    /\ focus \in Elements
    /\ Shift \in held
    /\ held' = held \cup {Tab}
    /\ focus' = TabStep(focus, -1)
    /\ UNCHANGED <<mode, nextFocus, shown, enter_sends, send_disabled,
                   in_flight>>

\* The keyup reaches the focused field's typeahead first (the form-level
\* handlers are "called after typeahead"): on Tab or Enter with its menu
\* shown the plugin selects the highlighted item and hides the menu, with
\* no look at Shift.  Then handle_keyup moves focus if nextFocus is set.
HandleKeyup(k) ==
    /\ k \in held \cap {Enter, Tab}
    /\ focus \in Elements
    /\ held' = held \ {k}
    /\ shown' = IF focus \in Fields THEN [shown EXCEPT ![focus] = FALSE] ELSE shown
    /\ IF IsTabOrEnter(k, Shift \in held) /\ nextFocus # None
       THEN /\ focus' = nextFocus
            /\ nextFocus' = None
       ELSE UNCHANGED <<focus, nextFocus>>
    /\ UNCHANGED <<mode, enter_sends, send_disabled, in_flight>>

\* The #enter_sends checkbox: flip the setting, refocus the content box
\* (the fade of the button and the POST to the server are not modelled).
ClickEnterSends ==
    /\ enter_sends' = ~enter_sends
    /\ focus' = Content
    /\ UNCHANGED <<mode, held, nextFocus, shown, send_disabled, in_flight>>

-----------------------------------------------------------------------------
(* Environment                                                             *)

PressOutside(k) ==
    /\ focus = Outside
    /\ held' = held \cup {k}
    /\ UNCHANGED <<mode, focus, nextFocus, shown, enter_sends, send_disabled,
                   in_flight>>

ReleaseOutside(k) ==
    /\ focus = Outside
    /\ k \in held
    /\ held' = held \ {k}
    /\ UNCHANGED <<mode, focus, nextFocus, shown, enter_sends, send_disabled,
                   in_flight>>

\* Modifier keys: their key events reach the handlers, which ignore them.
PressModifier(m) ==
    /\ m \notin held
    /\ held' = held \cup {m}
    /\ UNCHANGED <<mode, focus, nextFocus, shown, enter_sends, send_disabled,
                   in_flight>>

ReleaseModifier(m) ==
    /\ m \in held
    /\ held' = held \ {m}
    /\ UNCHANGED <<mode, focus, nextFocus, shown, enter_sends, send_disabled,
                   in_flight>>

Click(el) ==
    /\ focus' = el
    /\ UNCHANGED <<mode, held, nextFocus, shown, enter_sends, send_disabled,
                   in_flight>>

\* The typeahead plugin shows a menu for the field being typed in, and
\* hides it on a selection, an escape or a blur.
OpenTypeahead ==
    /\ focus \in Fields
    /\ shown' = [shown EXCEPT ![focus] = TRUE]
    /\ UNCHANGED <<mode, focus, held, nextFocus, enter_sends, send_disabled,
                   in_flight>>

CloseTypeahead(f) ==
    /\ shown[f]
    /\ shown' = [shown EXCEPT ![f] = FALSE]
    /\ UNCHANGED <<mode, focus, held, nextFocus, enter_sends, send_disabled,
                   in_flight>>

\* compose.js finishes a send (or rejects it) and re-enables the button.
SendCompleted ==
    /\ in_flight > 0
    /\ in_flight' = in_flight - 1
    /\ send_disabled' = FALSE
    /\ UNCHANGED <<mode, focus, held, nextFocus, shown, enter_sends>>

-----------------------------------------------------------------------------

Init ==
    /\ mode \in DOMAIN TabOrder
    /\ focus \in Visible \cup {Outside}
    /\ held = {}
    /\ nextFocus = None
    /\ shown = [f \in Fields |-> FALSE]
    /\ enter_sends \in BOOLEAN
    /\ send_disabled = FALSE
    /\ in_flight = 0

Next ==
    \/ \E k \in {Enter, Tab} : HandleKeydown(k) \/ HandleKeyup(k)
    \/ HandleKeydownShiftTab
    \/ ClickEnterSends
    \/ \E k \in {Enter, Tab} : PressOutside(k) \/ ReleaseOutside(k)
    \/ \E m \in {Shift, Ctrl} : PressModifier(m) \/ ReleaseModifier(m)
    \/ \E el \in Visible \cup {Outside} : Click(el)
    \/ OpenTypeahead
    \/ \E f \in Fields : CloseTypeahead(f)
    \/ SendCompleted

Spec == Init /\ [][Next]_vars

-----------------------------------------------------------------------------
(* Properties                                                              *)

TypeOK ==
    /\ mode \in DOMAIN TabOrder
    /\ focus \in Elements \cup {Outside}
    /\ held \subseteq {Enter, Tab, Shift, Ctrl}
    /\ nextFocus \in {Subject, Content, SendBtn, None}
    /\ shown \in [Fields -> BOOLEAN]
    /\ enter_sends \in BOOLEAN
    /\ send_disabled \in BOOLEAN
    /\ in_flight \in Nat

=============================================================================
