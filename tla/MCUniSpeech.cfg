SPECIFICATION FairSpec
CONSTANT MaxRequests = 4
INVARIANTS
  UniTypeOK
  FreedIsQuiet
  ResultIsOwn
  InProgressIsTrue
PROPERTIES
  AnswerIsOwn
  CallsReturn
