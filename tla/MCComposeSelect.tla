--------------------------- MODULE MCComposeSelect ---------------------------
EXTENDS ComposeSelect

\* Every sigil, the fence character, a space, a newline and "(" (a boundary
\* that is not white space), and a letter.
MCAlphabet == {"@", "#", ":", BQ, " ", "\n", "(", "a"}

\* Code fences only: the fence character, a space, a newline and a letter,
\* for texts long enough to hold a fence after a newline and a space.
MCFenceAlphabet == {BQ, " ", "\n", "a"}

\* The box is empty after the caret, or holds a letter there.
MCAfterTexts == {<<>>, <<"a">>}

=============================================================================
