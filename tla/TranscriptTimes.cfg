SPECIFICATION Spec
CONSTANTS
  c1 = c1
  c2 = c2
  Chunks = {c1, c2}
  Info <- MCInfo
  OmitHeaders = TRUE
  t1 = t1
  t2 = t2
  Titles = {t1, t2}
  None = None
  Torn = Torn
  Budget <- NothingElse
PROPERTIES
  SpeechTimesKept
CHECK_DEADLOCK FALSE
