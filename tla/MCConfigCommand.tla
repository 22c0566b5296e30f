--------------------------- MODULE MCConfigCommand ---------------------------
(***************************************************************************)
(* Model values for ConfigCommand: the gateway and one job, one guild with *)
(* one channel, a width that Validate rejects.                             *)
(***************************************************************************)
EXTENDS ConfigCommand

CONSTANTS g1, ch1, job

MCGuilds == {g1}
MCChannels == {ch1}
MCCallers == {Gateway, job}

\* Scaled down: 15 stands for the default of 1500, 20 for another width.
MCWidths == {0, 15, 20}
MCValidWidths == {15, 20}

==============================================================================
