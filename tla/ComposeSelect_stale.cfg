\* Stock Bootstrap lookup: a source that returns false leaves the menu
\* shown, with this.completing and this.token of the previous lookup.  Each
\* key is released before the next is pressed.
CONSTANTS
    Alphabet <- MCAlphabet
    AfterTexts <- MCAfterTexts
    TokenWindow = 25
    MaxLen = 4
    FenceAlphabet <- MCFenceAlphabet
    FenceLen = 0
    HideOnFalsySource = FALSE
    Rollover = FALSE
    MaxDown = 1
SPECIFICATION Spec
PROPERTY SelectionKeepsText
