\* Re-renders of the services lists (two bots, one service).
CONSTANTS
    a = a  b = b  n1 = n1  n2 = n2  s1 = s1
    None = None
    Emails <- MCEmails
    Names <- MCNames
    Services <- MCServices
    MaxOps = 3
SPECIFICATION Spec
INVARIANT ListsShowServiceData
