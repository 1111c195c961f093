\* A second request takes the marker away between the two hooks of one write.
SPECIFICATION Spec
CONSTANTS
  file = file
  Uploads = {u1, u2}
  Paths = {file}
  PathOf <- OnePath
  NoPath = NoPath
  Window = 2
  Ttl = 2
  MaxFaults = 0
SYMMETRY Symmetry
INVARIANT ReportedOnce
