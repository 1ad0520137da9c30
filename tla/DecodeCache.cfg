SPECIFICATION Spec
CONSTANTS
  Instructions = {i1, i2, i3, i4, i5, i6}
  i1 = i1
  i2 = i2
  i3 = i3
  i4 = i4
  i5 = i5
  i6 = i6
  Null = Null
  Addresses = {0, 1, 2, 4}
  Undecodable = {1}
  num_entries_ = 2
  address_inc_ = 2
  Shapes = {"slots", "chain", "bundles"}
  BundlesKept = FALSE
  RangeStarts = {0, 2, 4}
  MaxParts = 2
  MaxHeld = 2
SYMMETRY Symmetry
INVARIANTS RefCountExact NeverStale ParentsValid
