------------------------- MODULE MCSanitizerOptions -------------------------
EXTENDS SanitizerOptions

\* The options cifuzz sets and "verbosity", standing for any other option of
\* the user. A user's field sets its key to "u", a value cifuzz never uses.
MCKeys == CifuzzKeys \cup {"verbosity"}
MCVals == CifuzzVals \cup {"u"}
MCUserVals == {"u"}
MCMaxLen == 4
=============================================================================
