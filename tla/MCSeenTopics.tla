---------------------------- MODULE MCSeenTopics ----------------------------
EXTENDS SeenTopics

\* Two spellings of one stream and another stream; topics that differ only
\* in case, and one ("F") that code-unit order puts before "b" although it
\* sorts after it ignoring case.
MCStreamNames == {<<"D">>, <<"d">>, <<"e">>}
MCTopicNames  == {<<"F">>, <<"f">>, <<"b">>, <<"f", "F">>}

MCLowerChar == ("D" :> "d") @@ ("d" :> "d") @@ ("e" :> "e")
               @@ ("F" :> "f") @@ ("f" :> "f") @@ ("b" :> "b")

MCCodeUnit == ("D" :> 68) @@ ("d" :> 100) @@ ("e" :> 101)
              @@ ("F" :> 70) @@ ("f" :> 102) @@ ("b" :> 98)
=============================================================================
