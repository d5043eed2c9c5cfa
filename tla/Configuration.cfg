\* An editor with five operations, a client that reads the file once.
SPECIFICATION Spec
CONSTANTS
  HAP6 = TRUE
  Editor = editor
  Readers = {client}
  Name <- MCName
  Value <- MCValue
  InitialFiles <- MCInitialFiles
  CommandLines <- MCCommandLines
  DefaultFile <- MCDefaultFile
  Edits <- MCEdits
  MaxOperations = 5
  MaxReads = 1
INVARIANTS EveryNameHasALine SavedIsLoaded 
CHECK_DEADLOCK FALSE
