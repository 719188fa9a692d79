\* What %g prints, against the comment that it is padded to its width.
SPECIFICATION Spec
CONSTANTS
  Kinds = {"floats"}
INVARIANT
  GeneralFits
CHECK_DEADLOCK FALSE
