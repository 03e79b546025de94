-------------------------- MODULE MCBadFilesReport --------------------------
(* A film of radarr, an episode and a disc image of two series of sonarr, and *)
(* a file outside every library.                                              *)
EXTENDS BadFilesReport

MCFile     == {"mkv", "ep1", "ep2", "out"}
MCExt      == [mkv |-> "media", ep1 |-> "media", ep2 |-> "disc", out |-> "media"]
MCOwner    == [mkv |-> "radarr", ep1 |-> "sonarr", ep2 |-> "sonarr", out |-> "outside"]
MCSeriesOf == [mkv |-> "none", out |-> "none", ep1 |-> "s1", ep2 |-> "s2"]
=============================================================================
