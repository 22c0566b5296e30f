\* DeletesOnlyConverted does not hold, although Discord never fails.
SPECIFICATION Spec
CONSTANTS
  m1 = m1
  a1 = a1
  a2 = a2
  a3 = a3
  w1 = w1
  w2 = w2
  NoMessage = NoMessage
  NoJob = NoJob
  Messages <- OneMessage
  Jobs <- TwoAttachments
  Workers <- TwoWorkers
  MessageOf <- TogetherTwo
  QueueSize = 1
  Faults = FALSE
INVARIANTS
  DeletesOnlyConverted
