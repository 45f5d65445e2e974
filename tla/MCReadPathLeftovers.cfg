CONSTANTS
  Targets <- MCTargets
  Formats <- MCFormats
  MaxFrames = 2
  MaxRatio = 3
  MaxRequestFrames = 6
  SongFrames = 6
  MaxSeeks = 1
  MaxPulls = 12
SPECIFICATION Spec
PROPERTY LeftoversRideToNextRead
