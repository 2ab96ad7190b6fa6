SPECIFICATION FairSpec
CONSTANTS
  Thread = {t1, t2}
  Sql <- Texts
  Empty = {""}
  Unparsable = {"garbage"}
  Several = {"select; update"}
  Key <- Keys
  Fingerprint <- Distinct
  MaxCalls = 3
INVARIANTS TypeOK AnswersRight WorkShared
PROPERTY CallsReturn
CHECK_DEADLOCK FALSE
