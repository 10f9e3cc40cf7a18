SPECIFICATION Spec
CONSTANTS
  Streams = {s1, s2}
  Unopened = u
  Files = {u, f}
  Databases = {d1, d2}
  Lengths = {2}
  Positions = {0, 2}
  MaxOffset = 2
  MaxWrites = 3
INVARIANTS TypeOK ReadsNoOtherBytes BlocksReadBack
