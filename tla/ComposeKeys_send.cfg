\* Both compose modes, any initial focus and enter_sends setting; every
\* interleaving of Enter/Tab/Shift/Ctrl presses, clicks, typeahead menus
\* and send completions.  The state space is finite without bounds.
CONSTANTS
    Outside = Outside
SPECIFICATION Spec
INVARIANT TypeOK
