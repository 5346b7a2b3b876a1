\* Up to three starts and one edit of the configuration file.
SPECIFICATION Spec
CONSTANTS
  None = None
  File <- Files
  OtherFile <- Elsewhere
  EnvToken = "secret"
  Story <- Stories
  Columns <- NewColumns
INVARIANTS DiskWhole ReloadIsWhole NeverForced
PROPERTIES ShutdownEnds
CHECK_DEADLOCK FALSE
