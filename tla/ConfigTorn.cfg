SPECIFICATION Spec
CONSTANTS
  s1 = s1 s2 = s2 s3 = s3 c1 = c1 c2 = c2 on = on off = off Absent = Absent
  i1 = i1 i2 = i2 i3 = i3 i4 = i4 i5 = i5
  Inode = {i1, i2, i3, i4, i5}
  Value = {on, off}
  Saver = {s1, s2}
  Reader = {c1}
  Overlapping = TRUE
  MaxCrashes = 0
INVARIANTS LoadsWhatWasSaved
CHECK_DEADLOCK FALSE
SYMMETRY InodeSymmetry
