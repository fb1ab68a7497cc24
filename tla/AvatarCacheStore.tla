--------------------------- MODULE AvatarCacheStore ---------------------------
(***************************************************************************)
(* platform_3ds::AvatarCacheStore: the faces that outlive the program.  A  *)
(* load takes the backup where the file is missing and leaves the two as   *)
(* they are; faces that are too old, or from the future, are left out, and *)
(* nobody ever deletes the cache.  A content is all faces of one save.     *)
(***************************************************************************)
EXTENDS SdFile

\* saveCacheIfComplete saves again after a save that failed.
SaveFaces ==
    /\ pc = "idle"
    /\ Unchanged
    /\ \E c \in Contents : StartSave(c)

LoadFaces ==
    /\ pc = "idle"
    /\ BeginLoad

ReadOldFaces ==
    /\ pc = "read_backup"
    /\ ReadAs("backup", "parse", NothingFound)

ParseFaces ==
    /\ pc = "parse"
    /\ Unchanged
    /\ Return(IF body \in expired THEN None ELSE body, {body})

FacesStep == SaveFaces \/ LoadFaces \/ ReadOldFaces \/ ParseFaces

=============================================================================
