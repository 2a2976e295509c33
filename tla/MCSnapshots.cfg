SPECIFICATION Spec
CONSTANTS
  a = a
  b = b
  Maps <- MCMaps
  ReaderRegistry <- MCReaderRegistry
  Torn = Torn
  Null = Null
  NoFile = NoFile
  Nothing = Nothing
INVARIANTS
  LoadedIsWhatWasSaved
  MissingIsReported
