---------------------------- MODULE MCBotSettings ----------------------------
EXTENDS BotSettings

CONSTANTS a, b, n1, n2, s1

\* Two bots, so that the edit form can be opened for one row after another.
MCEmails == {a, b}
\* One bot, so that only the ordering of one bot's PATCHes is in play.
MCOneEmail == {a}
MCNames == {n1, n2}
MCServices == {s1}

=============================================================================
