CONSTANTS
  Title = {1, 2}
  Length = {1, 3}
  ChunkLen = 5
  PartLen = 2
  MaxField = 2
  MaxEntry = 13
  Padding = {0, 3}
  MaxEdits = 3
  MaxSaves = 2
SPECIFICATION BodySpec
INVARIANT ReadsWhatWasMeant
INVARIANT KeystreamOnce
INVARIANT OpensUnless
