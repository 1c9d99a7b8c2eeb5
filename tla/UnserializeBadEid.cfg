SPECIFICATION Spec
CONSTANTS
  Docs <- MCFew
  CutDocs = {}
  Texts = {}
  Spelling <- MCSpelling
  NotNumber = NotNumber
  MaxTokens = 50
  RefCap = 3
  SchemeFirst = {TRUE}
INVARIANT BadEidRejected
