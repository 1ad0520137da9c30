CONSTANTS
  Records = {r1, r2}
  Latencies = {1, 3, 6, 9}
  Horizon = 16
  RingSizes = {4, 8, 16}
  MinSize = 3
  MaxEntries = 4
SPECIFICATION FairSpec
PROPERTIES
  AppliedOnTime
  EntriesDrain
