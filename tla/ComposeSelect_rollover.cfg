\* Keys may overlap: a character key can still be down when Enter's keyup
\* selects a completion.
CONSTANTS
    Alphabet <- MCAlphabet
    AfterTexts <- MCAfterTexts
    TokenWindow = 25
    MaxLen = 4
    FenceAlphabet <- MCFenceAlphabet
    FenceLen = 0
    HideOnFalsySource = TRUE
    Rollover = TRUE
    MaxDown = 2
SPECIFICATION Spec
PROPERTY SelectionKeepsText
