\* Extension blocks: the references.
SPECIFICATION FairCmdSpec
CONSTANTS
  Commands = {"extension"}
  Options <- MCExtOptions
  MaxOptions = 2
  Edits = {}
  MaxEdited = 0
  Strings <- MCStrings
  LenOf <- MCLenOf
  Docs = {}
  CutDocs = {}
  Texts = {}
  Spelling <- MCSpelling
  NotNumber = NotNumber
  MaxTokens = 64
  RefCap = 2
  SchemeFirst = {TRUE}
INVARIANT RefsWritten
