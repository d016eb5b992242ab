\* A window that just holds a negator and two words, and up to three bytes more.
SPECIFICATION Spec
CONSTANTS
  Window = 6
  MaxLength = 9
INVARIANTS
  MissedOnlyOutOfReach
  MistakenOnlyForCutWord
\* The text ends.
CHECK_DEADLOCK FALSE
