---------------------------- MODULE MCBotData ----------------------------
(* Model-checking instance of BotData: two bots, a current user and       *)
(* another owner, two service values.                                     *)
EXTENDS BotData

CONSTANTS b1, b2, me, other, s1, s2

MCEmails == {b1, b2}
MCUsers == {me, other}
MCServiceVals == {s1, s2}
=============================================================================
