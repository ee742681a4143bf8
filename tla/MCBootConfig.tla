---------------------------- MODULE MCBootConfig ----------------------------
\* The start of the program on a small instance: lists of up to two entries,
\* which may name a key twice, and a table that starts empty.
EXTENDS BootConfig, SequencesExt

CONSTANTS gateway, anchor, x, y, r1, r2

MCLists == SeqOf([key : Key, label : Label], 2)
MCDefaults == {<<[key |-> anchor, label |-> x]>>,
               <<[key |-> gateway, label |-> x], [key |-> anchor, label |-> x]>>}
MCReflectors == {<<>>, <<r1>>, <<r2>>, <<r1, r2>>}
=============================================================================
