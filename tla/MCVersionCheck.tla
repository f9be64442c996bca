--------------------------- MODULE MCVersionCheck ---------------------------
(* Small instances of VersionCheck.                                        *)
EXTENDS VersionCheck

MCAny == {NoFile, Empty, Unset, Garbled, 0, 1}

MCNoFile == {NoFile}
=============================================================================
