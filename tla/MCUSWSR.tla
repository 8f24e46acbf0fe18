------------------------------ MODULE MCUSWSR -------------------------------
EXTENDS USWSR, TLC

\* As many addresses as MaxPushes pushes and the constructor can need.
MCNode == 1..9
MCBuffer == 1..9
=============================================================================
