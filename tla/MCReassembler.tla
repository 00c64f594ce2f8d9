---------------------------- MODULE MCReassembler ----------------------------
EXTENDS ReassemblerSpec

\* Distinct bytes: a byte that ends up in the wrong place shows.
MCStream == <<1, 2, 3, 4, 5, 6, 7>>
MCByte == 0 .. 7
=============================================================================
