\* Each key released before the next is pressed.  Every text of up to four
\* characters, and every code-fence text of up to five: a fence after a
\* newline with a language, or a fence, a space and a language.  The window
\* is scaled from 25 to 3 so that the texts reach past it.
CONSTANTS
    Alphabet <- MCAlphabet
    FenceAlphabet <- MCFenceAlphabet
    AfterTexts <- MCAfterTexts
    TokenWindow = 3
    MaxLen = 4
    FenceLen = 5
    HideOnFalsySource = TRUE
    Rollover = FALSE
    MaxDown = 1
SPECIFICATION Spec
INVARIANT TypeOK
PROPERTY SelectionKeepsText
PROPERTY EmojiSpaced
PROPERTY ClosingFenceMatches
