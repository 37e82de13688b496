\* A log of up to 18 words: three records, or several broken ones.
SPECIFICATION Spec
CONSTANTS
  Body = {1, 2}
  MaxWords = 18
  MaxSeq = 4
CHECK_DEADLOCK FALSE
INVARIANTS
  ReadsBack
  NumbersAscend
PROPERTY RefinesRecordLog
