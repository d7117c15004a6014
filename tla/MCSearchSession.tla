--------------------------- MODULE MCSearchSession ---------------------------
EXTENDS SearchSession

\* Files of at most two chunks with at most two matching lines each; one
\* that cannot be opened; reads failing at any chunk.
MCChunks == UNION {[1..n -> 0..2] : n \in 0..2}

MCFileSpecs ==
    UNION {{[chunks |-> c, openFails |-> FALSE, failsAt |-> k] : k \in 0..Len(c)} :
           c \in MCChunks}
    \cup {[chunks |-> << >>, openFails |-> TRUE, failsAt |-> 0]}

=============================================================================
