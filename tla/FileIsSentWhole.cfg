SPECIFICATION Spec
CONSTANTS
  w1 = w1
  w2 = w2
  w3 = w3
  small = small
  middle = middle
  picture = picture
  huge = huge
  empty = empty
  absent = absent
  NoFile = NoFile
  Workers <- MCWorkers
  Files <- MCFiles
  Missing <- MCMissing
  Binary <- MCBinary
  MaxSize = 4
  FileSize <- MCFileSize
  Bucket <- MCBucket
  Rewrites = 1
SYMMETRY MCSymmetry
INVARIANT FileIsSentWhole
