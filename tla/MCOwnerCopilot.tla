--------------------------- MODULE MCOwnerCopilot ---------------------------
EXTENDS OwnerChat

CONSTANTS x, p

MCTexts == {x}
MCNumbers == {"1"}
MCProperties == {p}
=============================================================================
