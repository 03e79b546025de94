------------------------- MODULE MCNzbdavExporter -------------------------
(* Two labels per family, so that one can vanish while the other stays, and *)
(* two configurations.                                                      *)
EXTENDS NzbdavExporter

CONSTANTS l1, l2, c1, c2
MCLabel  == {l1, l2}
MCConfig == {c1, c2}
=============================================================================
