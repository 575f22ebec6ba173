\* Four items and three identifiers, so that collisions happen.
CONSTANTS
  Ids = {x, y, z}
  Items = {a, b, c, d}
  None = None
SPECIFICATION Spec
INVARIANTS
  ListedAreHeld
  HeldAreListed
