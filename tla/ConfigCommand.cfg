\* The /config command and its reset prompt over the configuration service.
SPECIFICATION FairCommandSpec
CONSTANTS
  g1 = g1
  ch1 = ch1
  job = job
  Gateway = Gateway
  NoRow = NoRow
  NoConfig = NoConfig
  NoOp = NoOp
  Nobody = Nobody
  Guilds <- MCGuilds
  Channels <- MCChannels
  Callers <- MCCallers
  Widths <- MCWidths
  ValidWidths <- MCValidWidths
  DefaultWidth = 15
  Faults = TRUE
INVARIANTS
  CommandTypeOK
  AnswerTruthful
PROPERTIES
  OnlyManagersChange
  EveryCommandAnswered
