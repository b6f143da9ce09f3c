\* A database and two files of the node's directory; a hub with or without a node
\* that keeps files.  The system may stop: all restores were asked for.
SPECIFICATION FairSpec
CONSTANTS
  File = {"nwc.db", "a", "b"}
  Database = "nwc.db"
  Desktop = TRUE
  Restores = 2
  Crashes = 2
  Top <- Tops
  Archive <- Archives
INVARIANTS RestoredWhole
PROPERTIES RestoreEnds
CHECK_DEADLOCK FALSE
