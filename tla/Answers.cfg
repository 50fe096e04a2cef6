SPECIFICATION MCSpec
CONSTANTS
  None = None
  Now = 2
  Cases <- CasesDef
  Null = Null
  Members = {"g", "h"}
  Amounts = {1, 2}
  Limits = {1, 2}
INVARIANTS
  AnswerTrue
  PartsMakeWhole
  PeriodsTrue
  PoolCertain
  RelationTrue
  ClaimsTrue
  CalculationTrue
  AnalysesTrue
CHECK_DEADLOCK FALSE
