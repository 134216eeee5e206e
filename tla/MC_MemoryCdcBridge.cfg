CONSTANTS
  Requests = {r0, r1}
  Answers = {a0, a1}
  ZeroRequest = r0
  ZeroAnswer = a0
SPECIFICATION FairSpec
PROPERTIES PayloadsStable IsMailbox AlwaysAnswered
