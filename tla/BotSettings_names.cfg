\* Two bots: one edit form, opened for one row and then for the other.
CONSTANTS
    a = a  b = b  n1 = n1  n2 = n2  s1 = s1
    None = None
    Emails <- MCEmails
    Names <- MCNames
    Services <- MCServices
    MaxOps = 3
SPECIFICATION Spec
INVARIANT NamesMatchServer
