SPECIFICATION FairSpec
CONSTANTS
  Markets = {m1}
  Views = {v1, v2, v3}
  Members = {a1, a2, a3}
  Answers <- MCAnswers
  None = None
INVARIANTS
  TypeOK
  PaidOnce
  EstimateIsAnswered
PROPERTIES
  EstimateLifeCycle
  EveryAnswerArrives
