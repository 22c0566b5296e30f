\* Safety of automatic conversion, three attachments, failing calls.
SPECIFICATION Spec
CONSTANTS
  m1 = m1
  a1 = a1
  a2 = a2
  a3 = a3
  w1 = w1
  w2 = w2
  NoMessage = NoMessage
  NoJob = NoJob
  Messages <- OneMessage
  Jobs <- ThreeAttachments
  Workers <- TwoWorkers
  MessageOf <- Together
  QueueSize = 1
  Faults = TRUE
SYMMETRY Symmetry
INVARIANTS
  TypeOK
  TrackerCounts
  ReactionsCleared
PROPERTIES
  DeletesOnlyCleanBatch
