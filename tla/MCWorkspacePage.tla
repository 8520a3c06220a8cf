--------------------------- MODULE MCWorkspacePage ---------------------------
EXTENDS WorkspacePage

CONSTANTS d1, d2

MCDates == {d1, d2}
=============================================================================
