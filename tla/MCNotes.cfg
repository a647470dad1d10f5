SPECIFICATION Spec
CONSTANTS
  Items <- MCItems
  Clean <- MCClean
  Storage <- MCStorage
  Marks <- MCMarks
  Arrows <- MCArrows
  InverseOf <- MCInverseOf
  Empty = "empty"
  Then = "then"
  Near = {"near"}
  Closures <- MCClosures
  Fragments <- MCFragments
  SequenceTag = "_sequence_"
  Sections = {"one", "two"}
  Aliases = {"x"}
  Quoted = {"b"}
  Expressions <- MCExpressions
  Holding <- MCHolding
  NoItem = NoItem
  NoSection = NoSection
  NoAlias = NoAlias
  Written = {"near", "unknown"}
  MaxTokens = 8
  MaxFiles = 2
INVARIANTS
  InversesHeld
  PagesReplayLines
  StoriesStayInChapter
PROPERTIES
  NothingForgotten
  NearPairsClosed
CHECK_DEADLOCK FALSE
