SPECIFICATION Spec
CONSTANTS
  Modulus = 8
  Boundaries = {4}
  MaxHeld = 4
  Hold = 3
  Chars = {c1, c2}
  Lengths = {1}
  CursorModulus = 8
SYMMETRY Symmetry
INVARIANTS
  AnnouncedPress
  LineKept
PROPERTY NothingMissed
