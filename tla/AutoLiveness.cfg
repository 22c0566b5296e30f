\* Liveness: two attachments of one message on one worker, failing calls, panics.
SPECIFICATION FairSpec
CONSTANTS
  m1 = m1
  a1 = a1
  a2 = a2
  a3 = a3
  w1 = w1
  w2 = w2
  NoMessage = NoMessage
  NoJob = NoJob
  Messages <- OneMessage
  Jobs <- TwoAttachments
  Workers <- OneWorker
  MessageOf <- TogetherTwo
  QueueSize = 1
  Faults = TRUE
PROPERTIES
  EveryJobEnds
  TrackerDrains
