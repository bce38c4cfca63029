----------------------------- MODULE MCPyDebug ------------------------------
EXTENDS PyDebug

I(byte, depth, op) == [byte |-> byte, depth |-> depth, op |-> op]

\* A call of a function with two instructions of one byte; a byte that holds two Breakpoint
\* opcodes, left and come back to.
MCPrograms == {<<I(1, 0, "leaves"), I(1, 0, "plain"), I(2, 1, "plain"), I(2, 1, "plain"), I(1, 0, "plain")>>,
               <<I(2, 0, "breakpoint"), I(1, 0, "plain"), I(2, 0, "breakpoint")>>}
=============================================================================
