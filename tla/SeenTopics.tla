----------------------------- MODULE SeenTopics -----------------------------
(***************************************************************************)
(* The topic memory behind the subject typeahead (static/js/composebox_   *)
(* typeahead.js: seen_topics, add_topic, topics_seen_for).                 *)
(*                                                                         *)
(* seen_topics is a Dict from a lower-cased stream name to a Dict from a  *)
(* lower-cased topic to the spelling first added.  A string is a tuple of  *)
(* one-character strings; LowerChar is toLowerCase on one character and    *)
(* CodeUnit its UTF-16 code unit, which Array.prototype.sort compares.     *)
(* add_topic is called for every message the client stores; those callers  *)
(* are not in this repository, so any stream and topic may be added.       *)
(*                                                                         *)
(* The subject box's typeahead reads topics_seen_for($("#stream").val()).  *)
(* Its plugin (not in this repository) drops the menu for an empty query,  *)
(* keeps the items that contain the query ignoring case, calls the sorter  *)
(* and shows the first three.  typeahead_helper.sorter is outside this     *)
(* repository too: its order is left open, every ordering being checked.   *)
(***************************************************************************)
EXTENDS Naturals, Sequences, SequencesExt, TLC

CONSTANTS StreamNames, TopicNames, LowerChar, CodeUnit, MaxAdds

VARIABLES
    seen_topics,  \* Dict of Dicts
    added         \* history: the <<uc_stream, uc_topic>> of every add_topic

vars == <<seen_topics, added>>

\* String.prototype.toLowerCase
ToLowerCase(s) == [i \in DOMAIN s |-> LowerChar[s[i]]]

\* The default comparison of Array.prototype.sort on strings: code units,
\* a proper prefix first.
RECURSIVE JsLess(_, _)
JsLess(a, b) ==
    CASE a = <<>> -> b # <<>>
      [] b = <<>> -> FALSE
      [] CodeUnit[Head(a)] # CodeUnit[Head(b)] -> CodeUnit[Head(a)] < CodeUnit[Head(b)]
      [] OTHER -> JsLess(Tail(a), Tail(b))

EmptyDict == [k \in {} |-> k]

Init ==
    /\ seen_topics = EmptyDict
    /\ added = <<>>

\* Regression variant: the Dict is keyed by the stream name as given.
StreamKeyKeepCase(uc_stream) == uc_stream

\* var stream = uc_stream.toLowerCase()
StreamKey(uc_stream) == ToLowerCase(uc_stream)

\* Regression variant: a later spelling replaces the stored one.
StoreTopicOverwrite(topic_dict, topic, uc_topic) == (topic :> uc_topic) @@ topic_dict

\* if (! topic_dict.has(topic)) topic_dict.set(topic, uc_topic)
StoreTopic(topic_dict, topic, uc_topic) ==
    IF topic \in DOMAIN topic_dict THEN topic_dict
    ELSE (topic :> uc_topic) @@ topic_dict

\* add_topic: create the stream's Dict if absent, then store the topic's
\* spelling unless the lower-cased topic is already there.
AddTopic(uc_stream, uc_topic) ==
    LET stream     == StreamKey(uc_stream)
        topic_dict == IF stream \in DOMAIN seen_topics
                      THEN seen_topics[stream] ELSE EmptyDict
    IN /\ Len(added) < MaxAdds
       /\ seen_topics' = (stream :> StoreTopic(topic_dict, ToLowerCase(uc_topic), uc_topic))
                         @@ seen_topics
       /\ added' = Append(added, <<uc_stream, uc_topic>>)

\* topics_seen_for: the stored spellings of the stream, sorted; [] for a
\* stream never seen.
TopicsSeenFor(stream) ==
    LET s == StreamKey(stream) IN
    IF s \in DOMAIN seen_topics
    THEN SetToSortSeq(Range(seen_topics[s]), JsLess)
    ELSE <<>>

\* The plugin's default matcher: the item contains the query, ignoring case.
SubjectMatcher(query, item) == ToLowerCase(query) \in SubSeqs(ToLowerCase(item))

\* The subject sorter, after typeahead_helper.sorter: put the typed text
\* first unless it is already one of the items (indexOf, exact).
SubjectSorter(query, sorted) ==
    IF Len(sorted) > 0 /\ ~Contains(sorted, query)
    THEN <<query>> \o sorted ELSE sorted

\* The menus the subject typeahead can show for the stream box's text and
\* the typed subject, one per order typeahead_helper.sorter may choose;
\* <<>> is the menu hidden.
SubjectMenus(stream, query) ==
    LET items == {t \in ToSet(TopicsSeenFor(stream)) : SubjectMatcher(query, t)}
    IN IF query = <<>> \/ items = {} THEN {<<>>}
       ELSE {LET m == SubjectSorter(query, sorted)
             IN SubSeq(m, 1, IF Len(m) < 3 THEN Len(m) ELSE 3) :
               sorted \in SetToSeqs(items)}

Next == \E us \in StreamNames, ut \in TopicNames : AddTopic(us, ut)

Spec == Init /\ [][Next]_vars

-----------------------------------------------------------------------------
(* Properties                                                              *)

Lowered(S) == {ToLowerCase(x) : x \in S}

\* Keys are lower-cased names, and each topic key maps to a spelling of it.
TypeOK ==
    /\ DOMAIN seen_topics \subseteq Lowered(StreamNames)
    /\ \A s \in DOMAIN seen_topics :
         /\ DOMAIN seen_topics[s] \subseteq Lowered(TopicNames)
         /\ \A t \in DOMAIN seen_topics[s] :
              seen_topics[s][t] \in {x \in TopicNames : ToLowerCase(x) = t}
    /\ added \in Seq(StreamNames \X TopicNames)


\* Reference: for a stream, whatever its case, the spelling of each topic
\* (up to case) in the first add_topic call that named it.
FirstSpellings(stream) ==
    LET calls == {i \in 1..Len(added) :
                    ToLowerCase(added[i][1]) = ToLowerCase(stream)}
        first == {i \in calls : \A j \in calls :
                    j < i => ToLowerCase(added[j][2]) # ToLowerCase(added[i][2])}
    IN {added[i][2] : i \in first}

\* The subject typeahead's source, topics_seen_for(stream box), lists for
\* any spelling of a stream exactly the first spelling of every topic ever
\* added to it under any spelling, once each, in code-unit order.
TopicsSeenForMatchesHistory ==
    \A st \in StreamNames :
        LET r == TopicsSeenFor(st) IN
        /\ ToSet(r) = FirstSpellings(st)
        /\ \A i \in 1..(Len(r) - 1) : JsLess(r[i], r[i + 1])

=============================================================================
