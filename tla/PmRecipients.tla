---------------------------- MODULE PmRecipients ----------------------------
(***************************************************************************)
(* The private-message recipient box and its typeahead (static/js/        *)
(* composebox_typeahead.js: get_last_recipient_in_pm, query_matches_person, *)
(* the #private_message_recipient typeahead's matcher and updater, and the  *)
(* box's blur handler).                                                    *)
(*                                                                         *)
(* The box holds a comma- or semicolon-separated list of emails.  A string *)
(* is a tuple of one-character strings; LowerChar is toLowerCase on one    *)
(* character.  People are model values with an Email and a FullName.      *)
(*                                                                         *)
(* The typeahead plugin is not in this repository.  As its matcher and     *)
(* updater are written for it, on every key-up it sets this.query to the   *)
(* box's value and shows the people the matcher accepts (none for an empty *)
(* query); selecting one writes updater(item) into the box and hides the   *)
(* menu; a blur hides the menu only after a delay, so a click on the menu  *)
(* first blurs the box and then selects.                                    *)
(*                                                                         *)
(* util.extract_pm_recipients and typeahead_helper.get_cleaned_pm_         *)
(* recipients are not in this repository either; both are taken to split  *)
(* on /\s*[,;]\s*/ and keep the pieces that are not blank.                 *)
(***************************************************************************)
EXTENDS Naturals, Sequences, SequencesExt

CONSTANTS
    People,      \* the result of people.get_all_persons
    Email,       \* person -> string
    FullName,    \* person -> string
    Alphabet,    \* the characters typed into the box
    LowerChar,   \* character -> its toLowerCase
    MaxLen       \* bound on what is typed

Separators == {",", ";"}
Blank      == {" "}

VARIABLES
    value,   \* $("#private_message_recipient").val()
    query,   \* the typeahead's this.query
    cands    \* the people the open menu offers; {} when it is hidden

vars == <<value, query, cands>>

ToLowerCase(s) == [i \in DOMAIN s |-> LowerChar[s[i]]]

\* s.split(/[,;]/): the pieces between separators.
SplitAtSeparators(s) ==
    FoldLeft(LAMBDA acc, c :
                 IF c \in Separators THEN Append(acc, <<>>)
                 ELSE [acc EXCEPT ![Len(acc)] = Append(@, c)],
             <<<<>>>>, s)

RECURSIVE DropBlankHead(_)
DropBlankHead(s) == IF s # <<>> /\ Head(s) \in Blank THEN DropBlankHead(Tail(s)) ELSE s

DropBlankTail(s) == Reverse(DropBlankHead(Reverse(s)))

\* s.split(/\s*[,;]\s*/): the blanks next to a separator go with it.
SplitRecipients(s) ==
    LET p == SplitAtSeparators(s)
        n == Len(p)
    IN [i \in 1..n |->
          LET lead == IF i > 1 THEN DropBlankHead(p[i]) ELSE p[i]
          IN IF i < n THEN DropBlankTail(lead) ELSE lead]

IsBlank(r) == ToSet(r) \subseteq Blank

\* util.extract_pm_recipients: the split, keeping pieces whose trim is not
\* empty.  get_cleaned_pm_recipients further keeps those matching /\S/,
\* which are the same pieces.
ExtractPmRecipients(s) == SelectSeq(SplitRecipients(s), LAMBDA r : ~IsBlank(r))

GetCleanedPmRecipients(s) == ExtractPmRecipients(s)

\* Regression variant: the recipients joined with "; ".
JoinSemicolon(rs) ==
    IF rs = <<>> THEN <<>>
    ELSE FoldLeft(LAMBDA acc, r : acc \o <<";", " ">> \o r, Head(rs), Tail(rs))

\* recipients.join(", ")
JoinRecipients(rs) ==
    IF rs = <<>> THEN <<>>
    ELSE FoldLeft(LAMBDA acc, r : acc \o <<",", " ">> \o r, Head(rs), Tail(rs))

\* query_matches_person: the lower-cased query is a substring of the
\* lower-cased email or full name.
QueryMatchesPerson(q, person) ==
    \/ ToLowerCase(q) \in SubSeqs(ToLowerCase(Email[person]))
    \/ ToLowerCase(q) \in SubSeqs(ToLowerCase(FullName[person]))

\* Regression variant: the matcher without its exclusion of people already
\* in the list.
MatcherNoExclusion(q, item) ==
    LET recipients == ExtractPmRecipients(q) IN
    /\ recipients # <<>>
    /\ QueryMatchesPerson(Last(recipients), item)

\* The matcher: no current recipient (get_last_recipient_in_pm is
\* undefined), or item.email already among the recipients (indexOf, which
\* compares exactly), rejects; otherwise the current recipient must match.
Matcher(q, item) ==
    LET recipients == ExtractPmRecipients(q) IN
    /\ recipients # <<>>
    /\ Email[item] \notin ToSet(recipients)
    /\ QueryMatchesPerson(Last(recipients), item)

\* Regression variant: the previous recipients are not followed by ", ".
UpdaterNoSeparator(q, item) ==
    JoinRecipients(Front(GetCleanedPmRecipients(q))) \o Email[item] \o <<",", " ">>

\* The updater: drop the last cleaned recipient, join the rest with ", ",
\* add ", " if any remain, then the item's email and ", ".
Updater(q, item) ==
    LET previous == JoinRecipients(Front(GetCleanedPmRecipients(q)))
        sep      == IF previous # <<>> THEN <<",", " ">> ELSE <<>>
    IN previous \o sep \o Email[item] \o <<",", " ">>

\* The key-up lookup: the query is the box's value, and the menu offers the
\* people the matcher accepts.
Lookup(q) ==
    /\ query' = q
    /\ cands' = IF q = <<>> THEN {} ELSE {p \in People : Matcher(q, p)}

Init ==
    /\ value = <<>>
    /\ query = <<>>
    /\ cands = {}

Type(c) ==
    /\ Len(value) < MaxLen
    /\ value' = Append(value, c)
    /\ Lookup(value')

Backspace ==
    /\ value # <<>>
    /\ value' = Front(value)
    /\ Lookup(value')

\* A person chosen from the menu (enter, tab or click): the box takes the
\* updater's result, computed from this.query, and the menu closes.
Select(item) ==
    /\ item \in cands
    /\ value' = Updater(query, item)
    /\ cands' = {}
    /\ UNCHANGED query

\* Regression variant: the blur handler joins with a space.
BlurJoinSpace(v) ==
    LET rs == GetCleanedPmRecipients(v) IN
    IF rs = <<>> THEN <<>>
    ELSE FoldLeft(LAMBDA acc, r : acc \o <<" ">> \o r, Head(rs), Tail(rs))

\* The blur handler rewrites the box as its cleaned recipients joined by
\* ", "; the menu stays open until the plugin's delayed hide.
BlurValue(v) == JoinRecipients(GetCleanedPmRecipients(v))

Blur ==
    /\ value' = BlurValue(value)
    /\ UNCHANGED <<query, cands>>

\* The plugin's delayed hide after a blur, or escape.
Hide ==
    /\ cands # {}
    /\ cands' = {}
    /\ UNCHANGED <<value, query>>

Next ==
    \/ \E c \in Alphabet : Type(c)
    \/ Backspace
    \/ \E p \in People : Select(p)
    \/ Blur
    \/ Hide

Spec == Init /\ [][Next]_vars

-----------------------------------------------------------------------------
(* Properties                                                              *)

\* The characters the box can hold: typed ones and those of the emails
\* and separators the updater writes.
Chars == Alphabet \cup UNION {ToSet(Email[p]) : p \in People} \cup {",", " "}

\* Every variable holds a value of its kind.
TypeOK ==
    /\ value \in Seq(Chars)
    /\ query \in Seq(Chars)
    /\ cands \subseteq People

\* A selection leaves the chosen person's email in the box exactly once:
\* the matcher's exclusion of emails already listed, evaluated at the
\* key-up that opened the menu, and the updater's split-pop-join of the
\* same query, together never produce a duplicate, whether or not a blur
\* rewrote the box in between.
SelectionAddsOnce ==
    [][\A p \in People :
         Select(p) =>
           Len(SelectSeq(ExtractPmRecipients(value'), LAMBDA r : r = Email[p])) = 1]_vars

\* The blur handler's rewrite keeps the recipient list exactly, in order.
BlurKeepsRecipients ==
    [][Blur => ExtractPmRecipients(value') = ExtractPmRecipients(value)]_vars

\* The query ends with a separator (and blanks): every recipient in it has
\* been completed.
EndsWithSeparator(q) ==
    LET t == DropBlankTail(q) IN t # <<>> /\ Last(t) \in Separators

\* The matcher's comment: after a separator there is no recipient being
\* typed.  So a selection made when the query ends with a separator keeps
\* every recipient already completed, in order, before the new one.
RecipientsKept ==
    [][\A p \in People :
         Select(p) /\ EndsWithSeparator(query) =>
           IsPrefix(ExtractPmRecipients(query), ExtractPmRecipients(value'))]_vars

====
