----------------------------- MODULE StoredFiles -----------------------------
(***************************************************************************)
(* The files of attachments and avatars: on the disk (storage.ts), and in  *)
(* the rows that name them (task-attachments.service.ts, users.service.ts).*)
(* No transaction spans the two: a handler writes the file, then the row,  *)
(* or deletes the file, then marks the row, and any of these steps may     *)
(* fail or be the last before the process dies.                            *)
(*                                                                         *)
(* Keys are the random names the code draws, so that each is used once.    *)
(* What the checks of a file's size, type and content refuse never gets    *)
(* here; neither do the downloads, which change nothing.                   *)
(***************************************************************************)
EXTENDS RequestPool

CONSTANTS
  Keys,    \* names of files
  Users,
  Stored,  \* the attachments there are at first
  Avatars  \* Avatars[u]: the avatar of u at first, or None

ASSUME StoredFilesAssumption ==
  /\ Avatars \in [Users -> Keys \union {None}] /\ Stored \subseteq Keys
  /\ \A u \in Users : Avatars[u] # None =>
       Avatars[u] \notin Stored /\ \A v \in Users \ {u} : Avatars[v] # Avatars[u]
  /\ None \notin Keys \union Users

VARIABLES
  disk,    \* the files there are
  row,     \* row[k]: the attachment of file k, "none", "live" or "gone"
  avatar,  \* avatar[u]: avatarKey
  used,    \* keys that were drawn
  file,    \* file[r]: the file request r works on
  old,     \* old[r]: the avatar it read as the previous one
  owner,   \* owner[r]: the user whose avatar it changes
  leaked,  \* files that lost their last reader to a failure or a race (history)
  torn     \* attachments removed, or their upload undone, but for the row (history)

memory == <<file, old, owner>>
history == <<leaked, torn>>
filesVars == <<disk, row, avatar, used, file, old, owner, leaked, torn>>

FilePlaces == {"put", "create", "undo", "undoMade", "record", "reread",
               "find", "resolve", "unlink", "mark", "recordRemoval",
               "putAvatar", "readAvatar", "setAvatar", "readToClear", "clearAvatar",
               "resolveOld", "unlinkOld"}

FilesTypeOK ==
  /\ disk \subseteq Keys
  /\ row \in [Keys -> {"none", "live", "gone"}]
  /\ avatar \in [Users -> Keys \union {None}]
  /\ used \subseteq Keys
  /\ file \in [Requests -> Keys \union {None}]
  /\ old \in [Requests -> Keys \union {None}]
  /\ owner \in [Requests -> Users \union {None}]
  /\ leaked \subseteq Keys /\ torn \subseteq Keys

FilesInit ==
  /\ disk = Stored \union {Avatars[u] : u \in {v \in Users : Avatars[v] # None}}
  /\ row = [k \in Keys |-> IF k \in Stored THEN "live" ELSE "none"]
  /\ avatar = Avatars
  /\ used = disk
  /\ file = [r \in Requests |-> None]
  /\ old = [r \in Requests |-> None]
  /\ owner = [r \in Requests |-> None]
  /\ leaked = {} /\ torn = {}

-----------------------------------------------------------------------------

Draws(k) == k \notin used /\ k = CHOOSE j \in Keys : j \notin used

Begin(r, place, k, u) ==
  /\ Arrives(r)
  /\ Goto(r, place)
  /\ file' = [file EXCEPT ![r] = k]
  /\ owner' = [owner EXCEPT ![r] = u]
  /\ UNCHANGED old

(* The handler ends and forgets.                                           *)
End(r, outcome) ==
  /\ Goto(r, outcome)
  /\ file' = [file EXCEPT ![r] = None]
  /\ old' = [old EXCEPT ![r] = None]
  /\ owner' = [owner EXCEPT ![r] = None]

-----------------------------------------------------------------------------
(* storage.put, of an attachment or of an avatar.                          *)

Upload(r, k) ==
  /\ Draws(k)
  /\ Begin(r, "put", k, None)
  /\ used' = used \union {k}
  /\ UNCHANGED <<disk, row, avatar, leaked, torn>>

UploadAvatar(r, k, u) ==
  /\ Draws(k)
  /\ Begin(r, "putAvatar", k, u)
  /\ used' = used \union {k}
  /\ UNCHANGED <<disk, row, avatar, leaked, torn>>

(* A write that fails may leave a part of the file.                        *)
Put(r) ==
  /\ pc[r] \in {"put", "putAvatar"}
  /\ \/ /\ disk' = disk \union {file[r]}
        /\ Goto(r, IF pc[r] = "put" THEN "create" ELSE "readAvatar")
        /\ UNCHANGED <<memory, leaked>>
     \/ UNCHANGED <<disk, leaked>> /\ End(r, "error")
     \/ /\ disk' = disk \union {file[r]} /\ leaked' = leaked \union {file[r]}
        /\ End(r, "error")
  /\ UNCHANGED <<row, avatar, used, torn>>

-----------------------------------------------------------------------------
(* The rest of upload.                                                     *)

(* Mutant: the file is left where it is when its row cannot be made.       *)
CreateOnly(r) ==
  /\ pc[r] = "create"
  /\ \/ row' = [row EXCEPT ![file[r]] = "live"] /\ Goto(r, "record") /\ UNCHANGED memory
     \/ UNCHANGED row /\ End(r, "error")
  /\ UNCHANGED <<disk, avatar, used, history>>

Create(r) ==
  /\ pc[r] = "create"
  /\ \/ row' = [row EXCEPT ![file[r]] = "live"] /\ Goto(r, "record")
     \/ row' = [row EXCEPT ![file[r]] = "live"] /\ Goto(r, "undoMade")
     \/ UNCHANGED row /\ Goto(r, "undo")
  /\ UNCHANGED <<disk, avatar, used, memory, history>>

(* The row could not be made, or it was and the answer of the database was *)
(* lost, which is the same to the handler: the file is deleted, whatever   *)
(* comes of it.                                                            *)
Undo(r) ==
  /\ pc[r] \in {"undo", "undoMade"}
  /\ \/ /\ disk' = disk \ {file[r]}
        /\ torn' = torn \union {k \in {file[r]} : row[k] = "live"}
        /\ UNCHANGED leaked
     \/ /\ leaked' = leaked \union {k \in {file[r]} : row[k] = "none"}
        /\ UNCHANGED <<disk, torn>>
  /\ End(r, "error")
  /\ UNCHANGED <<row, avatar, used>>

(* recordTaskActivity and the event, of an upload or of a removal.         *)
Record(r) ==
  /\ pc[r] \in {"record", "recordRemoval"}
  /\ \/ pc[r] = "record" /\ Goto(r, "reread") /\ UNCHANGED memory
     \/ pc[r] = "recordRemoval" /\ End(r, "ok")
     \/ End(r, "error")
  /\ UNCHANGED <<disk, row, avatar, used, history>>

(* The answer reads the row again, and fails if it is gone by then.        *)
Reread(r) ==
  /\ pc[r] = "reread"
  /\ End(r, IF row[file[r]] = "live" THEN "ok" ELSE "error")
  /\ UNCHANGED <<disk, row, avatar, used, history>>

-----------------------------------------------------------------------------
(* remove                                                                  *)

RemoveAttachment(r, k) ==
  /\ k \in used
  /\ Begin(r, "find", k, None)
  /\ UNCHANGED <<disk, row, avatar, used, history>>

Find(r) ==
  /\ pc[r] = "find"
  /\ IF row[file[r]] = "live" THEN Goto(r, "resolve") /\ UNCHANGED memory ELSE End(r, "error")
  /\ UNCHANGED <<disk, row, avatar, used, history>>

(* storage.delete looks for the file first; none is as good as deleted.    *)
Resolve(r) ==
  /\ pc[r] = "resolve"
  /\ \/ Goto(r, IF file[r] \in disk THEN "unlink" ELSE "mark") /\ UNCHANGED memory
     \/ End(r, "error")
  /\ UNCHANGED <<disk, row, avatar, used, history>>

(* Mutant: a failure to delete the file is passed over.                    *)
UnlinkAnyway(r) ==
  /\ pc[r] = "unlink"
  /\ disk' \in {disk, disk \ {file[r]}}
  /\ Goto(r, "mark")
  /\ UNCHANGED <<row, avatar, used, memory, history>>

(* A file that has gone since it was looked for is an error.               *)
Unlink(r) ==
  /\ pc[r] = "unlink"
  /\ \/ /\ file[r] \in disk
        /\ disk' = disk \ {file[r]}
        /\ Goto(r, "mark") /\ UNCHANGED memory
     \/ UNCHANGED disk /\ End(r, "error")
  /\ UNCHANGED <<row, avatar, used, history>>

(* softDelete *)
Mark(r) ==
  /\ pc[r] = "mark"
  /\ \/ row' = [row EXCEPT ![file[r]] = "gone"] /\ Goto(r, "recordRemoval") /\ UNCHANGED <<memory, torn>>
     \/ UNCHANGED row /\ torn' = torn \union {file[r]} /\ End(r, "error")
  /\ UNCHANGED <<disk, avatar, used, leaked>>

-----------------------------------------------------------------------------
(* The rest of uploadAvatar, and deleteAvatar.                             *)

DeleteAvatar(r, u) ==
  /\ Begin(r, "readToClear", None, u)
  /\ UNCHANGED <<disk, row, avatar, used, history>>

(* Mutant: the previous file is deleted before the row names the new one.  *)
ReadAvatarErasing(r) ==
  /\ pc[r] \in {"readAvatar", "readToClear"}
  /\ old' = [old EXCEPT ![r] = avatar[owner[r]]]
  /\ disk' = disk \ {avatar[owner[r]]}
  /\ Goto(r, IF pc[r] = "readAvatar" THEN "setAvatar" ELSE "clearAvatar")
  /\ UNCHANGED <<row, avatar, used, file, owner, history>>

(* getAvatarKey *)
ReadAvatar(r) ==
  /\ pc[r] \in {"readAvatar", "readToClear"}
  /\ \/ /\ old' = [old EXCEPT ![r] = avatar[owner[r]]]
        /\ Goto(r, IF pc[r] = "readAvatar" THEN "setAvatar" ELSE "clearAvatar")
        /\ UNCHANGED <<file, owner, leaked>>
     \/ End(r, "error") /\ leaked' = leaked \union ({file[r]} \ {None})
  /\ UNCHANGED <<disk, row, avatar, used, torn>>

(* Whether another request put an avatar in place that this one never saw. *)
Unseen(r) == {avatar[owner[r]]} \ {old[r], None}

(* setAvatarKey and clearAvatarKey: file[r] is None for the latter.        *)
SetAvatar(r) ==
  /\ pc[r] \in {"setAvatar", "clearAvatar"}
  /\ \/ /\ avatar' = [avatar EXCEPT ![owner[r]] = file[r]]
        /\ leaked' = leaked \union Unseen(r)
        /\ IF old[r] = None THEN End(r, "ok") ELSE Goto(r, "resolveOld") /\ UNCHANGED memory
     \/ /\ End(r, "error")
        /\ leaked' = leaked \union ({file[r]} \ {None})
        /\ UNCHANGED avatar
  /\ UNCHANGED <<disk, row, used, torn>>

(* The previous file is deleted, after the answer when there is a new one: *)
(* the outcome is then for nobody.                                         *)
ResolveOld(r) ==
  /\ pc[r] = "resolveOld"
  /\ \/ /\ old[r] \in disk
        /\ Goto(r, "unlinkOld")
        /\ UNCHANGED <<memory, leaked>>
     \/ old[r] \notin disk /\ End(r, "ok") /\ UNCHANGED leaked
     \/ End(r, "error") /\ leaked' = leaked \union {old[r]}
  /\ UNCHANGED <<disk, row, avatar, used, torn>>

UnlinkOld(r) ==
  /\ pc[r] = "unlinkOld"
  /\ \/ old[r] \in disk /\ disk' = disk \ {old[r]} /\ UNCHANGED leaked /\ End(r, "ok")
     \/ UNCHANGED disk /\ leaked' = leaked \union {old[r]} /\ End(r, "error")
  /\ UNCHANGED <<row, avatar, used, torn>>

-----------------------------------------------------------------------------
(* The process dies: what the handlers held is lost.                       *)
FilesCrash ==
  /\ leaked' = leaked \union ({file[r] : r \in {q \in Requests : pc[q] \in {"create", "undo", "readAvatar", "setAvatar"}}}
                              \union {old[r] : r \in {q \in Requests : pc[q] \in {"resolveOld", "unlinkOld"}}})
  /\ torn' = torn \union {file[r] : r \in {q \in Requests : pc[q] = "mark"}}
  /\ file' = [r \in Requests |-> None]
  /\ old' = [r \in Requests |-> None]
  /\ owner' = [r \in Requests |-> None]
  /\ UNCHANGED <<disk, row, avatar, used>>

FilesNext ==
  \E r \in Requests :
    \/ \E k \in Keys : Upload(r, k) \/ RemoveAttachment(r, k) \/ \E u \in Users : UploadAvatar(r, k, u)
    \/ \E u \in Users : DeleteAvatar(r, u)
    \/ Put(r) \/ Create(r) \/ Undo(r) \/ Record(r) \/ Reread(r)
    \/ Find(r) \/ Resolve(r) \/ Unlink(r) \/ Mark(r)
    \/ ReadAvatar(r) \/ SetAvatar(r) \/ ResolveOld(r) \/ UnlinkOld(r)

-----------------------------------------------------------------------------

(* A removed attachment is off the disk, whatever failed on the way: the   *)
(* file goes before the row says so, and nothing writes it again.          *)
ErasedForGood == \A k \in Keys : row[k] = "gone" => k \notin disk

(* The avatar a profile names is on the disk, however uploads, deletions   *)
(* and crashes interleave: a request only deletes a file that it, or       *)
(* another after it, has replaced.                                         *)
AvatarOnDisk == \A u \in Users : avatar[u] # None => avatar[u] \in disk

(* An attachment that is listed can be downloaded, unless it is being      *)
(* removed, its removal ended between the file and the row, or its upload  *)
(* was undone although the row had been made.                              *)
ListedOnDisk ==
  \A k \in Keys \ torn :
    row[k] = "live" /\ k \notin disk => \E r \in Requests : pc[r] = "mark" /\ file[r] = k

(* A file on the disk is named by a row, or still held by a request, or    *)
(* was lost to a failure or to two avatar requests that read the same      *)
(* previous one.                                                           *)
NoOrphans ==
  \A k \in disk \ leaked :
    \/ row[k] = "live"
    \/ \E u \in Users : avatar[u] = k
    \/ \E r \in Requests : k \in {file[r], old[r]}
=============================================================================
