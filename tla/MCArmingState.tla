---------------------------- MODULE MCArmingState -----------------------------
EXTENDS ArmingStateClaims

CONSTANT c1
OneConsole == {c1}
===============================================================================
