\* Updates do not apply immediately when the reload fails.
SPECIFICATION Spec
CONSTANTS
  g1 = g1
  ch1 = ch1
  c1 = c1
  c2 = c2
  NoRow = NoRow
  NoConfig = NoConfig
  NoOp = NoOp
  Nobody = Nobody
  Guilds <- MCGuilds
  Channels <- MCChannels
  Callers <- MCCallers
  Widths <- MCWidths
  ValidWidths <- MCValidWidths
  DefaultWidth = 15
  Faults = TRUE
INVARIANTS
  UpdatesApplyImmediately
