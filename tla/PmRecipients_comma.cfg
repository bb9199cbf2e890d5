CONSTANTS
    pa = pa
    pb = pb
    People <- MCPeople
    Email <- MCEmail
    FullName <- MCFullName
    Alphabet <- MCAlphabet
    LowerChar <- MCLowerChar
    MaxLen = 6
SPECIFICATION Spec

PROPERTY RecipientsKept
