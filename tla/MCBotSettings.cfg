\* The edit form, delete / reactivate and the services lists of two bots.
CONSTANTS
    a = a  b = b  n1 = n1  n2 = n2  s1 = s1
    None = None
    Emails <- MCEmails
    Names <- MCNames
    Services <- MCServices
    MaxOps = 4
SPECIFICATION Spec
INVARIANT TypeOK
