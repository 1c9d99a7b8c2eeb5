\* Every document of MCUnserialize, whole or cut, and every short text.  The
\* limits are scaled down: three references instead of 16, 50 tokens instead of
\* 256.
SPECIFICATION FairSpec
CONSTANTS
  Docs <- MCDocs
  CutDocs <- MCCutDocs
  Texts <- MCTexts
  Spelling <- MCSpelling
  NotNumber = NotNumber
  MaxTokens = 50
  RefCap = 3
  SchemeFirst = {TRUE}
INVARIANTS TypeOK TreeShaped ReadBack OnlyLegible CutRejected AcceptsExactly BadEidCaught
PROPERTY Ends
