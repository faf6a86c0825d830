-------------------------------- MODULE MCVM --------------------------------
EXTENDS VM

\* Upages: e of the executable, s of the stack, m mapped.
MCExec == {"e"}
MCStack == {"s"}
MCMap == {"m"}
\* Buffers of one page, and one that does not fit in memory.
Single == {<<"e">>, <<"m">>}
Large == {<<"e", "s", "m">>}
=============================================================================
