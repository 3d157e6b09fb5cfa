\* One file name: what the tokens are, that nothing is lost or misplaced, and
\* that lex returns.
SPECIFICATION FairSpec
CONSTANTS
  Filenames = {"f"}
  Texts <- OneFile
  Keywords <- WordKeywords
  Booleans <- WordBooleans
INVARIANTS TypeOK Inv TokensWellFormed NothingLost TokensInOrder
           LineNeverAhead LineCommentEndsAtEol
PROPERTIES LexReturns TokenEndsAtBottom
CHECK_DEADLOCK FALSE
