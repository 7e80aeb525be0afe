------------------------------- MODULE MCRing -------------------------------
EXTENDS Ring
CONSTANTS t1, t2, x, y
MCThreads == {t1, t2}
MCObjects == {x, y}
=============================================================================
