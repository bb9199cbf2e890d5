---------------------------- MODULE ComposeSelect ----------------------------
(***************************************************************************)
(* Choosing a completion in the content box (static/js/composebox_        *)
(* typeahead.js: content_typeahead_selected), with the lookup that        *)
(* precedes it.                                                           *)
(*                                                                         *)
(* The box holds 'before' and 'after' the caret.  A key's keydown edits    *)
(* the box at the caret; its keyup makes the typeahead plugin store the   *)
(* whole value as this.query and call the source                          *)
(* (compose_content_begins_typeahead, from ComposeTokens).  A     *)
(* selection (the keyup of Enter or Tab, or a click, while the menu is     *)
(* shown) calls the updater on this.query, split at the caret as it is     *)
(* now; the plugin writes the returned value into the box and a timer     *)
(* puts the caret after the inserted text.  Keys may overlap (Rollover):   *)
(* a key can be down, its character in the box, when Enter's keyup         *)
(* selects.  Every completion item is named "N".                           *)
(*                                                                         *)
(* The plugin is not in this repository.  Bootstrap's stock lookup         *)
(* returns when the source gives false, leaving the menu shown with the    *)
(* items of the last lookup; a plugin that hides the menu then is the      *)
(* other case.  HideOnFalsySource chooses between them.                    *)
(***************************************************************************)
EXTENDS ComposeTokens

CONSTANTS
    Alphabet, MaxLen,
    AfterTexts,   \* what the box may hold after the caret
    Rollover,     \* a key may still be down when another key's keyup comes
    MaxDown,      \* bound on keys down at once
    FenceAlphabet, FenceLen, \* longer texts explored if made of these only
    HideOnFalsySource        \* the plugin's lookup hides the menu when the
                             \* source returns false

VARIABLES
    query,        \* this.query: the box's value at the last lookup
    completing,   \* this.completing
    token,        \* this.token
    active,       \* the menu is shown
    before,       \* the box before the caret
    after,        \* the box after the caret
    down          \* keys down whose keyup has not come

vars == <<query, completing, token, active, before, after, down>>

\* JavaScript's s.substring(a, b): both ends clamped to 0..length, swapped
\* if a > b.
JsSubstring(s, a, b) ==
    LET c(x) == IF x < 0 THEN 0 ELSE IF x > Len(s) THEN Len(s) ELSE x
        lo == IF c(a) <= c(b) THEN c(a) ELSE c(b)
        hi == IF c(a) <= c(b) THEN c(b) ELSE c(a)
    IN SubSeq(s, lo + 1, hi)

\* s.charAt(i): "" outside the string.
CharAt(s, i) == IF i \in 0..(Len(s) - 1) THEN s[i + 1] ELSE ""

\* s.lastIndexOf(c): -1 if absent.
LastIndexOf(s, c) == SelectLastInSeq(s, LAMBDA x : x = c) - 1

Whitespace == {" ", NL, "\t"}

\* String.prototype.trim
Trim(s) ==
    LET keep == {i \in 1..Len(s) : s[i] \notin Whitespace}
    IN IF keep = {} THEN <<>>
       ELSE SubSeq(s, Min(keep), Max(keep))

Item == <<"N">>

\* Regression variant: the whole value is taken as the text before the caret.
SplitAtCursorWhole(q, caret) == <<q, <<>>>>

\* split_at_cursor(query, $element): the value cut at the caret as it is now.
SplitAtCursor(q, caret) == <<JsSubstring(q, 0, caret), Slice(q, caret)>>

\* Regression variant: both branches insert the emoji without a space.
EmojiInsertNoSpace(b, tok) ==
    LET cut == JsSubstring(b, 0, Len(b) - Len(tok) - 1)
    IN cut \o <<":">> \o Item \o <<":", " ">>

\* The emoji branch: a space goes before the emoji unless its ':' opens the
\* text or follows a space or newline.
EmojiInsert(b, tok) ==
    LET li  == LastIndexOf(b, ":")
        cut == JsSubstring(b, 0, Len(b) - Len(tok) - 1)
    IN IF li = 0 \/ CharAt(b, li - 1) \in {" ", NL}
       THEN cut \o <<":">> \o Item \o <<":", " ">>
       ELSE cut \o <<" ", ":">> \o Item \o <<":", " ">>

\* Regression variant: the fence is taken from three characters back.
ClosingFenceOff(b2, bt) == Trim(JsSubstring(b2, bt - 3, bt))

\* The closing fence: the four characters before the token, trimmed.
ClosingFence(b2, bt) == Trim(JsSubstring(b2, bt - 4, bt))

\* content_typeahead_selected: the new <<beginning, rest>>.
ContentTypeaheadSelected(q, caret, kind, tok) ==
    LET b    == SplitAtCursor(q, caret)[1]
        r    == SplitAtCursor(q, caret)[2]
        cut  == JsSubstring(b, 0, Len(b) - Len(tok) - 1)
        bt   == Len(b) - Len(tok)
        b2   == JsSubstring(b, 0, bt) \o Item \o <<NL>>
    IN CASE kind = "emoji"   -> <<EmojiInsert(b, tok), r>>
         [] kind = "mention" -> <<cut \o <<"@", "*", "*">> \o Item \o <<"*", "*", " ">>, r>>
         [] kind = "stream"  -> <<cut \o <<"#", "*", "*">> \o Item \o <<"*", "*", " ">>, r>>
         [] kind = "syntax" /\ r = <<>> ->
                <<b2, <<NL>> \o ClosingFence(b2, bt) \o r>>
         [] kind = "syntax"  -> <<JsSubstring(b, 0, bt) \o Item, r>>

-----------------------------------------------------------------------------

Init ==
    /\ query = <<>>
    /\ completing = "none"
    /\ token = <<>>
    /\ active = FALSE
    /\ before = <<>>
    /\ after \in AfterTexts
    /\ down = 0

\* The texts explored: up to MaxLen characters, or up to FenceLen of the
\* characters a code fence and its language are made of.
InBounds(s) ==
    \/ Len(s) <= MaxLen
    \/ Len(s) <= FenceLen /\ ToSet(s) \subseteq FenceAlphabet

\* Without rollover the user releases a key before pressing the next.
MayPress == down < MaxDown /\ (Rollover \/ down = 0)

\* The keydown of a character key: it goes in at the caret.
KeyDown(c) ==
    /\ MayPress
    /\ InBounds(Append(before, c))
    /\ before' = Append(before, c)
    /\ down' = down + 1
    /\ UNCHANGED <<query, completing, token, active, after>>

KeyDownBackspace ==
    /\ MayPress
    /\ before # <<>>
    /\ before' = Front(before)
    /\ down' = down + 1
    /\ UNCHANGED <<query, completing, token, active, after>>

\* Regression variant: this.completing cleared to '' when the source
\* returns false.
LookupFalseClear(q, r) ==
    \/ q = <<>> /\ active' = FALSE /\ UNCHANGED <<completing, token>>
    \/ q # <<>> /\ r # NoMatch /\ completing' = r.completing /\ token' = r.token
                              /\ active' \in BOOLEAN
    \/ q # <<>> /\ r = NoMatch /\ completing' = "" /\ UNCHANGED token
                              /\ active' = (active /\ ~HideOnFalsySource)

\* The plugin's lookup after the source: an empty box hides the menu; a
\* token sets this.completing and this.token and the menu shows what the
\* matcher keeps of the items (the items are abstract, so it may keep
\* none); false leaves this.completing, this.token and, unless
\* HideOnFalsySource, the menu as they were.
Lookup(q, r) ==
    \/ q = <<>> /\ active' = FALSE /\ UNCHANGED <<completing, token>>
    \/ q # <<>> /\ r # NoMatch /\ completing' = r.completing /\ token' = r.token
                              /\ active' \in BOOLEAN
    \/ q # <<>> /\ r = NoMatch /\ UNCHANGED <<completing, token>>
                              /\ active' = (active /\ ~HideOnFalsySource)

\* A keyup of a character key or Backspace: the plugin's lookup stores the
\* box's value as this.query and calls the source
\* (compose_content_begins_typeahead) on the text before the caret.
KeyUp ==
    /\ down > 0
    /\ down' = down - 1
    /\ query' = before \o after
    /\ Lookup(before \o after, BeginsTypeahead(before))
    /\ UNCHANGED <<before, after>>

\* Enter or Tab (or a click) on the shown menu: the updater's value goes
\* into the box, the caret after 'beginning', and the menu hides.  (The
\* model selects only while the text before the caret is within bounds: an
\* emoji whose token holds a ':' can be completed again and again, each
\* time one space longer.)
Select ==
    LET res == ContentTypeaheadSelected(query, Len(before), completing, token)
    IN /\ active
       /\ Rollover \/ down = 0
       /\ InBounds(before)
       /\ before' = res[1]
       /\ after' = res[2]
       /\ active' = FALSE
       /\ UNCHANGED <<query, completing, token, down>>

Next ==
    \/ \E c \in Alphabet : KeyDown(c)
    \/ KeyDownBackspace
    \/ KeyUp
    \/ Select

Spec == Init /\ [][Next]_vars

-----------------------------------------------------------------------------
(* Properties                                                              *)

Chars == Alphabet \cup {"N", "*", ":", " ", NL}

TypeOK ==
    /\ query \in Seq(Chars) /\ before \in Seq(Chars) /\ after \in Seq(Chars)
    /\ completing \in {"none", "syntax", "emoji", "mention", "stream"}
    /\ token \in Seq(Chars)
    /\ active \in BOOLEAN
    /\ down \in 0..MaxDown

\* The part of the text before the caret that a completion may not touch:
\* everything before the token at the caret (a code fence is kept).
Keep(b) ==
    LET r == BeginsTypeahead(b) IN
    IF r = NoMatch THEN b
    ELSE SubSeq(b, 1, Len(b) - Len(r.token)
                      - (IF r.completing = "syntax" THEN 0 ELSE 1))

\* Choosing a completion replaces only the token being typed: the text
\* before it and the text after the caret are still in the box.
SelectionKeepsText ==
    [][Select => IsPrefix(Keep(before), before') /\ IsSuffix(after, after')]_vars

\* Completing a code-block language at the end of the box adds a closing
\* fence made of the same three characters as the opening one, wherever
\* the fence is (at the very start, after a newline, with a space or not).
ClosingFenceMatches ==
    [][Select /\ completing = "syntax" /\ after = <<>> =>
         after' = <<NL>> \o SubSeq(TokenizeComposeStr(before), 1, 3)]_vars

\* As the comment on the emoji branch says, an inserted emoji starts the
\* text or follows a space or a newline.
EmojiSpaced ==
    [][Select /\ completing = "emoji" =>
         LET i == Len(before') - 4
         IN i = 0 \/ CharAt(before', i - 1) \in {" ", NL}]_vars

=============================================================================
