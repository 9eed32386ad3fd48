------------------------- MODULE MCAccountLifecycle -------------------------
EXTENDS AccountLifecycle, TLC

CONSTANTS a1, o1, r1

MCAccount == {a1}
MCOther == {o1}
MCRelogin == {r1}
Either == {TRUE, FALSE}
=============================================================================
