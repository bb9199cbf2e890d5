\* Two bots, so that one bot's change can be coalesced with another's;
\* three operations after initialize, enough for add -> update -> deactivate
\* of one bot or interleaved changes to two.
CONSTANTS
    b1 = b1
    b2 = b2
    me = me
    other = other
    s1 = s1
    s2 = s2
    Emails <- MCEmails
    Users <- MCUsers
    ServiceVals <- MCServiceVals
    CurrentUser = me
    Undef = Undef
    Absent = Absent
    MaxEvents = 3
SPECIFICATION Spec
INVARIANT TypeOK
INVARIANT EditableImpliesCanAdmin
PROPERTY ViewConverges
\* The store is idle once the page receives no more bot events.
CHECK_DEADLOCK FALSE
