SPECIFICATION FairSpec
CONSTANTS
  MinBitrate = 4
  MaxBitrate = 9
  StartBitrate = 6
  SmallestRaise = 2
  Interval = 2
  ThreeSeconds = 3
  Losses = {0, 4, 40}
  RoundTrips = {0, 300}
  NackCounts = {5}
  Estimates = {5}
PROPERTIES
  RaisesAreSpaced
  EstimateAloneNeverLowers
  Recovers
