\* Both commands, with up to three of their options in every order, then compile.
SPECIFICATION FairCmdSpec
CONSTANTS
  Commands = {"primary", "extension"}
  Options <- MCOptions
  MaxOptions = 3
  Edits <- MCEdits
  MaxEdited = 1
  Strings <- MCStrings
  LenOf <- MCLenOf
  Docs = {}
  CutDocs = {}
  Texts = {}
  Spelling <- MCSpelling
  NotNumber = NotNumber
  MaxTokens = 37
  RefCap = 2
  SchemeFirst = {TRUE}
INVARIANTS CmdTypeOK AsAsked LengthCounts EidsLocate EditStays
PROPERTY CompileWrites
