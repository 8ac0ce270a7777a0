SPECIFICATION Spec
CONSTANTS
  Files <- MCFiles
  NoFile = NoFile
  ClientThreads = 10
  SizeRange = 65536
INVARIANTS
  TypeOK
  MonitorAlone
  SafeExit
  OneConfiguration
PROPERTIES
  ProcessEnds
