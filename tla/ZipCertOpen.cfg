SPECIFICATION Spec
CONSTANTS
  CHUNK = 3
  BUFSIZE = 2
  WORD = 64
  DataLengths = {0, 1, 2, 3, 4, 6, 7}
  DirLengths = {1, 3, 4}
  CertOpenFails = TRUE
  EocdReadEmpty = FALSE
CHECK_DEADLOCK FALSE
INVARIANT AcceptsOnlyGenuine
