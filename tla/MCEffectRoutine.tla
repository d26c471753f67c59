-------------------------- MODULE MCEffectRoutine --------------------------
EXTENDS EffectRoutine, TLC

CONSTANTS dark, red, black, lit

OneToOne == dark :> black @@ red :> lit
===========================================================================
