--------------------------- MODULE MCConfigService ---------------------------
(***************************************************************************)
(* Model values for ConfigService: callers that compete for the mutex on   *)
(* one guild, a width that Validate rejects, one channel.                  *)
(***************************************************************************)
EXTENDS ConfigService

CONSTANTS g1, ch1, c1, c2

MCGuilds == {g1}
MCChannels == {ch1}
MCCallers == {c1, c2}

\* Scaled down: 15 stands for the default of 1500, 20 for another width.
MCWidths == {0, 15, 20}
MCValidWidths == {15, 20}

==============================================================================
