--------------------------- MODULE MCPmRecipients ---------------------------
(* Two people: pa with email "a", and pb with email "b" whose full name    *)
(* "Ba" contains "a", so a query "a" offers pb and, once "a" is listed,    *)
(* only pb.  "A" lets a query differ in case from the email it matches.   *)
EXTENDS PmRecipients

CONSTANTS pa, pb

MCPeople == {pa, pb}
MCEmail == (pa :> <<"a">>) @@ (pb :> <<"b">>)
MCFullName == (pa :> <<"a">>) @@ (pb :> <<"B", "a">>)
MCAlphabet == {"a", "A", ",", " "}
MCLowerChar == [c \in {"a", "A", "b", "B", ",", ";", " "} |->
                  IF c = "A" THEN "a" ELSE IF c = "B" THEN "b" ELSE c]

====
