--------------------------- MODULE MCRestoreFiles ---------------------------
(* The instance of RestoreFiles that TLC checks.                             *)
EXTENDS RestoreFiles, TLC

Tops == "nwc.db" :> "nwc.db" @@ "a" :> "ldk" @@ "b" :> "ldk"
Archives == {{"nwc.db"}, {"nwc.db", "a"}, {"nwc.db", "a", "b"}}
=============================================================================
