SPECIFICATION Spec
CONSTANTS
  Token <- MCToken
  Headers <- MCHeaders
  Queries <- MCQueries
  EmptyName = ""
INVARIANTS GraphIsAsWritten MappingAnswersQuery WhatIsThereIsFound
CHECK_DEADLOCK FALSE
