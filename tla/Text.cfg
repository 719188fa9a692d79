\* Texts, formats and algorithms, each on a small instance of its own.
SPECIFICATION Spec
CONSTANTS
  Kinds = {"ini", "json", "lz", "pack", "utf8", "sorts", "calendar", "numbers", "floats"}
INVARIANTS
  TextsReadBack
  PackingHolds
  Sorted
  CalendarHolds
  NumbersHold
\* A computation ends with its answer.
CHECK_DEADLOCK FALSE
