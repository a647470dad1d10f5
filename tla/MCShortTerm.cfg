SPECIFICATION STMSpec
CONSTANTS
  Vocabulary <- MCWords
  Chapters <- MCChapters
  Skipped <- MCSkipped
  Token <- MCToken
  ChapterToken <- MCChapterToken
  Searches <- MCSearches
  FORGOTTEN = 2
  Pauses = {0, 2, 3}
  MaxCalls = 4
PROPERTIES ForgottenOnReturn
CHECK_DEADLOCK FALSE
