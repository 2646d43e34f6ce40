---------------------------- MODULE MCObjectSync ----------------------------
EXTENDS ObjectSync

CONSTANTS i1, i2

OneObject == {<<i1>>}

\* One id, so that updateInfoSD is used, and a list of two.
SomeLists == {<<i1>>, <<i2, i1>>}
=============================================================================
