---------------------------- MODULE ComposeTokens ----------------------------
(***************************************************************************)
(* The pure part of the content box's completion lookup (static/js/       *)
(* composebox_typeahead.js): tokenize_compose_str, which finds the token   *)
(* at the caret, and compose_content_begins_typeahead, which classifies    *)
(* it.  Text is a sequence of one-character strings.  Used by             *)
(* ComposeSelect, which models the lookup and the selection.              *)
(***************************************************************************)
EXTENDS Integers, Sequences, SequencesExt

CONSTANT TokenWindow  \* how far back tokenize_compose_str looks (25)

NL == "\n"
\* The backquote (SANY does not accept one inside a string).
BQ == "BQ"
FenceChars == {BQ, "~"}
Sigils == {"#", "@", ":"}
\* /[\s(){}\[\]]/
Boundary == {" ", NL, "\t", "(", ")", "{", "}", "[", "]"}

NoMatch == [completing |-> "none", token |-> <<>>]

\* s.slice(from) for a 0-based JavaScript index.
Slice(s, from) == SubSeq(s, from + 1, Len(s))

\* s[i] for a 0-based JavaScript index.
At(s, i) == s[i + 1]

-----------------------------------------------------------------------------
(* tokenize_compose_str                                                    *)

MinI(s) == IF Len(s) - TokenWindow < 0 THEN 0 ELSE Len(s) - TokenWindow

\* The while loop, i counting down from s.length to min_i: a fence
\* character that is the third of a line, or a sigil at the start or after
\* white space or a bracket, ends the scan.
RECURSIVE Scan(_, _)
Scan(s, i) ==
    IF i <= MinI(s) THEN <<>>
    ELSE LET j == i - 1 IN
         CASE At(s, j) \in FenceChars /\ j = 2 -> Slice(s, 0)
           [] At(s, j) \in FenceChars /\ j > 2 /\ At(s, j - 3) = NL -> Slice(s, j - 2)
           [] At(s, j) \in Sigils /\ (j = 0 \/ At(s, j - 1) \in Boundary) -> Slice(s, j)
           [] OTHER -> Scan(s, j)

TokenizeComposeStr(s) == Scan(s, Len(s))

-----------------------------------------------------------------------------
(* compose_content_begins_typeahead, one branch per kind of token          *)

IsFence(ct) == Len(ct) >= 3 /\ SubSeq(ct, 1, 3) \in {<<BQ, BQ, BQ>>, <<"~", "~", "~">>}

\* ``` then a language; one leading space is dropped.
SyntaxLookup(ct) ==
    LET rest == Slice(ct, 3) IN
    IF Len(ct) = 3 \/ rest = <<" ">> THEN NoMatch
    ELSE [completing |-> "syntax",
          token |-> IF rest[1] = " " THEN Tail(rest) ELSE rest]

\* /^:-?.?$/ : a bare colon or an emoticon such as :P or :-p
Emoticon(ct) ==
    \/ Len(ct) = 1
    \/ Len(ct) = 2 /\ ct[2] # NL
    \/ Len(ct) = 3 /\ ct[2] = "-" /\ ct[3] # NL

EmojiLookup(ct) ==
    IF Emoticon(ct) THEN NoMatch
    ELSE [completing |-> "emoji", token |-> Tail(ct)]

MentionLookup(ct) ==
    LET name == Tail(ct) IN
    IF Len(name) < 1 \/ "*" \in ToSet(name) THEN NoMatch
    ELSE [completing |-> "mention", token |-> name]

\* '#' then a stream name that does not start with a space.
StreamLookup(ct) ==
    IF Len(ct) = 1 \/ ct[2] = " " THEN NoMatch
    ELSE [completing |-> "stream", token |-> Tail(ct)]

BeginsTypeahead(q) ==
    LET ct == TokenizeComposeStr(q) IN
    CASE ct = <<>>      -> NoMatch
      [] IsFence(ct)    -> SyntaxLookup(ct)
      [] ct[1] = ":"    -> EmojiLookup(ct)
      [] ct[1] = "@"    -> MentionLookup(ct)
      [] ct[1] = "#"    -> StreamLookup(ct)
      [] OTHER          -> NoMatch

=============================================================================
