SPECIFICATION Spec
CONSTANTS
  Words <- MCWords
  IsCommand <- MCIsCommand
  SomethingLike <- MCSomethingLike
  Number <- MCNumber
  Commas <- MCCommas
  Literal <- MCLiteral
  Matches <- MCMatches
  DiracNotation <- MCDirac
  Short <- MCShort
  Exact <- MCExact
  Concepts <- MCConcepts
  ConceptQuery <- MCConceptQuery
  RemindQuery <- MCRemindQuery
  Sentences <- MCSentences
INVARIANTS NothingLost ExplicitPathsSolved
PROPERTIES EverySearchEnds
CHECK_DEADLOCK FALSE
