SPECIFICATION ExtractionSpec
CONSTANTS
  SampleFiles <- MCSamples
  Tools = {"docs/mutations", "scripts/extract"}
  Script = "scripts/extract"
  Deletes <- MCDeletes
  ToolDirs = {"docs/mutations"}
  Shared = {"registration", "ports", "context"}
  Python = {"registration", "ports"}
  Context = "context"
  Shipped <- MCShipped
  Cuts <- MCCuts
  Vertical = {"import", "build", "port"}
  Sentences = {"about"}
  OldPaths = {"see old", "my old"}
  Pointed <- MCPointed
  Mine = {"my old", "blank"}
  Blank = "blank"
  None = None
  LineLimit = 10
  MaxEdits = 3
  MaxKills = 1
INVARIANTS
  WholeUnlessKilled
PROPERTIES
  KeepsTheProjectsWork
CHECK_DEADLOCK FALSE
