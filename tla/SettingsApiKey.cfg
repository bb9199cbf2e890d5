\* Up to five submissions, with and without password authentication.
\* The flow ends with the key or the prompt shown and the page idle, so a
\* state with no enabled step is not an error.
CONSTANTS
    MaxSubmits = 5
SPECIFICATION Spec
INVARIANT TypeOK
INVARIANT OneApiKeyBox
CHECK_DEADLOCK FALSE
