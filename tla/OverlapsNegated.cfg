\* A text of three bytes: a negated span with another one inside.
SPECIFICATION Spec
CONSTANTS
  Length = 3
  Rules = 2
INVARIANT NegatedTextNotReported
