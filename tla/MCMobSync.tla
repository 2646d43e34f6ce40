------------------------------ MODULE MCMobSync ------------------------------
EXTENDS MobSync

CONSTANTS i1, i2

\* One id, so that update_info_sd is used, and a list of two.
SomeLists == {<<i1>>, <<i2, i1>>}
=============================================================================
