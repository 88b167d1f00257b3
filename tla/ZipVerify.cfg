SPECIFICATION FairSpec
CONSTANTS
  CHUNK = 3
  BUFSIZE = 2
  WORD = 64
  DataLengths = {0, 1, 2, 3, 4, 6, 7}
  DirLengths = {1, 3, 4}
  CertOpenFails = FALSE
  EocdReadEmpty = FALSE
CHECK_DEADLOCK FALSE
INVARIANT TypeOK
INVARIANT AcceptsOnlyGenuine
INVARIANT AcceptsGenuine
PROPERTY Terminates
