CONSTANTS
  Heads = {h1, h2}
  Entries = {e1, e2, e3}
  Garbage = Garbage
SPECIFICATION LSpec
INVARIANT ListInv
PROPERTY ReturnsRight
