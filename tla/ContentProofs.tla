---------------------------- MODULE ContentProofs ----------------------------
(***************************************************************************)
(* Proofs about files and comments, for any number of requests, users,     *)
(* files and comments: no file is lost or left behind but by the failures  *)
(* and races that are named, and an answered comment has told everyone.    *)
(***************************************************************************)
EXTENDS Content, TLAPS

(* Requests that hold a file no row names yet.                             *)
Uploading == {"put", "create", "undo", "putAvatar", "readAvatar", "setAvatar"}
Changes == {"putAvatar", "readAvatar", "setAvatar", "readToClear", "clearAvatar"}
Sweeping == {"resolveOld", "unlinkOld"}

(* A key that was not drawn names nothing.                                 *)
Unused ==
  \A k \in Keys \ used :
    /\ k \notin disk /\ row[k] = "none"
    /\ \A u \in Users : avatar[u] # k
    /\ \A r \in Requests : file[r] # k /\ old[r] # k

(* A file that is being uploaded belongs to its request alone.             *)
Held ==
  \A r \in Requests : pc[r] \in Uploading =>
    /\ file[r] \in Keys /\ row[file[r]] = "none"
    /\ \A u \in Users : avatar[u] # file[r]
    /\ \A q \in Requests : old[q] # file[r] /\ (q # r /\ pc[q] \in Uploading => file[q] # file[r])
    /\ file[r] \in disk <=> pc[r] \notin {"put", "putAvatar"}

(* A request about an avatar knows its user; one that clears it, no file.  *)
Owners ==
  \A r \in Requests :
    /\ pc[r] \in Changes => owner[r] \in Users
    /\ pc[r] \in {"readToClear", "clearAvatar"} => file[r] = None

(* What a request read as the previous avatar is no avatar any more once   *)
(* the request has replaced it, and until then of nobody else.             *)
Olds ==
  \A r \in Requests :
    /\ pc[r] \in Sweeping => old[r] # None
    /\ old[r] # None =>
         /\ pc[r] \in Sweeping \union {"setAvatar", "clearAvatar"}
         /\ row[old[r]] = "none"
         /\ \A u \in Users : avatar[u] = old[r] => u = owner[r] /\ pc[r] \notin Sweeping

(* Avatars are on the disk, each of one user, and no attachments.          *)
AvatarFiles ==
  \A u \in Users : avatar[u] # None =>
    /\ avatar[u] \in disk /\ row[avatar[u]] = "none"
    /\ \A v \in Users \ {u} : avatar[v] # avatar[u]

(* A request that removes an attachment, or that has made one, knows its   *)
(* row.                                                                    *)
Attached ==
  \A r \in Requests :
    /\ pc[r] \in {"find", "resolve", "unlink", "mark", "record", "undoMade", "reread", "recordRemoval"} =>
         file[r] \in Keys
    /\ pc[r] \in {"resolve", "unlink", "mark", "record", "undoMade", "reread", "recordRemoval"} =>
         row[file[r]] # "none"
    /\ pc[r] = "mark" => file[r] \notin disk

(* A file on the disk that no row names is held by a request that will     *)
(* name it or delete it, or was lost.                                      *)
Accounted ==
  \A k \in disk \ leaked :
    \/ row[k] = "live"
    \/ \E u \in Users : avatar[u] = k
    \/ \E r \in Requests : pc[r] \in Uploading /\ file[r] = k
    \/ \E r \in Requests : pc[r] \in Sweeping /\ old[r] = k

Files ==
  /\ FilesTypeOK /\ Unused /\ Held /\ Owners /\ Olds /\ AvatarFiles /\ Attached
  /\ ErasedForGood /\ ListedOnDisk /\ Accounted

(* Requests that made a comment.                                           *)
Making == {"reload"} \union Notifying

(* A comment there is not yet concerns nobody.                             *)
Blank ==
  \A c \in Comments : comment[c] = "none" =>
    told[c] = None /\ \A u \in People : notes[c][u] = {}

(* A request knows its user and, where it needs one, its comment.          *)
Askers ==
  \A r \in Requests :
    /\ pc[r] \in DiscussionPlaces => by[r] \in People
    /\ pc[r] \in Changing \union {"parent"} => on[r] \in Comments
    /\ pc[r] \in Changing => comment[on[r]] # "none"

(* A comment is made by one request, which has not answered yet.           *)
Makers ==
  \A r \in Requests : pc[r] \in Making =>
    /\ on[r] \in Comments /\ comment[on[r]] # "none" /\ told[on[r]] = None
    /\ author[on[r]] = by[r] /\ mentions[on[r]] = ToSet(list[r])
    /\ \A q \in Requests \ {r} : pc[q] \in Making => on[q] # on[r]

(* How far the notifications of a comment have come, if none failed.       *)
ProgressOf(r) ==
  /\ pc[r] \notin Notifying => r \notin bad
  /\ pc[r] = "reload" => \A u \in People : notes[on[r]][u] = {}
  /\ pc[r] = "mention" =>
       /\ todo[r] \subseteq ToSet(list[r])
       /\ r \notin bad =>
            \A u \in People :
              notes[on[r]][u] = IF u \in ToSet(list[r]) \ todo[r] THEN {"mentioned"} ELSE {}
  /\ pc[r] = "inform" =>
       /\ todo[r] \subseteq people[r] \ ({by[r]} \union ToSet(list[r]))
       /\ r \notin bad =>
            \A u \in People :
              notes[on[r]][u] = IF u \in ToSet(list[r]) THEN {"mentioned"}
                                ELSE IF u \in people[r] \ ({by[r]} \union todo[r]) THEN {"commented"}
                                ELSE {}
Progress == \A r \in Requests : ProgressOf(r)

Talk ==
  /\ DiscussionTypeOK /\ Blank /\ Askers /\ Makers /\ Progress
  /\ AnsweredMeansNotified /\ TogglesAddUp

Types == pc \in [Requests -> FilePlaces \union DiscussionPlaces \union Ended \union {"new"}]

-----------------------------------------------------------------------------
(* Files.                                                                  *)

(* The first states satisfy the invariant.                                 *)
LEMMA InitFiles == Init => Files
<1> SUFFICES ASSUME Init PROVE Files
  OBVIOUS
<1> USE StoredFilesAssumption DEF Init, FilesInit
<1>1. FilesTypeOK
  BY DEF FilesTypeOK
<1>2. \A r \in Requests : pc[r] \in {"new", "ok"} /\ file[r] = None /\ old[r] = None
  OBVIOUS
<1>3. Held /\ Owners /\ Olds /\ Attached
  BY <1>2 DEF Held, Owners, Olds, Attached, Uploading, Changes, Sweeping
<1>4. Unused
  BY <1>2 DEF Unused
<1>5. AvatarFiles /\ ErasedForGood /\ ListedOnDisk
  BY DEF AvatarFiles, ErasedForGood, ListedOnDisk
<1>6. Accounted
  BY DEF Accounted
<1> QED
  BY <1>1, <1>3, <1>4, <1>5, <1>6 DEF Files

(* A request draws a key, or asks for a removal.                           *)
LEMMA BeginFiles ==
  ASSUME Types, Files, NEW r \in Requests, NEW k \in Keys \union {None}, NEW u \in Users \union {None},
         NEW place \in {"put", "putAvatar", "find", "readToClear"}, Begin(r, place, k, u),
         UNCHANGED <<disk, row, avatar, leaked, torn>>,
         place \in {"put", "putAvatar"} => k \in Keys \ used /\ used' = used \union {k},
         place = "find" => k \in used /\ used' = used,
         place = "readToClear" => k = None /\ used' = used,
         place \in {"putAvatar", "readToClear"} => u \in Users
  PROVE  Files'
<1> USE StoredFilesAssumption DEF Files
<1>1. /\ pc[r] = "new" /\ pc' = [pc EXCEPT ![r] = place]
      /\ file' = [file EXCEPT ![r] = k] /\ owner' = [owner EXCEPT ![r] = u] /\ old' = old
  BY DEF Begin, Arrives, Goto
<1>2. old[r] = None
  BY <1>1 DEF Olds, Sweeping
<1>3. FilesTypeOK'
  BY <1>1 DEF FilesTypeOK
<1>4. Unused'
  BY <1>1 DEF Unused, FilesTypeOK
<1>5. Held'
  BY <1>1, <1>2 DEF Held, Unused, FilesTypeOK, Types, Uploading
<1>6. Owners' /\ Olds'
  BY <1>1, <1>2 DEF Owners, Olds, FilesTypeOK, Types, Changes, Sweeping
<1>7. AvatarFiles' /\ ErasedForGood'
  BY <1>1 DEF AvatarFiles, ErasedForGood
<1>8. Attached' 
  BY <1>1 DEF Attached, FilesTypeOK, Types
<1>9. ListedOnDisk'
  BY <1>1 DEF ListedOnDisk, FilesTypeOK, Types
<1>10. Accounted'
  BY <1>1 DEF Accounted, FilesTypeOK, Types, Uploading, Sweeping
<1> QED
  BY <1>3, <1>4, <1>5, <1>6, <1>7, <1>8, <1>9, <1>10

(* A file is written, in part or not at all when that fails.               *)
LEMMA PutFiles ==
  ASSUME Types, Files, NEW r \in Requests, Put(r)
  PROVE  Files'
<1> USE StoredFilesAssumption DEF Files, Put, Goto, End, memory, history
<1>1. FilesTypeOK'
  BY DEF FilesTypeOK, Owners, Held, Olds, Attached, Changes, Uploading, Sweeping
<1>2. Unused' /\ AvatarFiles' /\ ErasedForGood'
  BY DEF Unused, FilesTypeOK, Types, AvatarFiles, ErasedForGood, Held, Olds, Attached, Owners, Uploading, Sweeping, Changes
<1>3. Held'
  BY DEF Held, Olds, Unused, Attached, FilesTypeOK, Types, Uploading, Sweeping, AvatarFiles, Owners, Changes
<1>4. Owners' /\ Olds' /\ Attached'
  BY DEF Owners, Olds, Attached, AvatarFiles, Held, FilesTypeOK, Types, Changes, Sweeping, Uploading
<1>5. ListedOnDisk'
  BY DEF ListedOnDisk, Attached, Held, Olds, FilesTypeOK, Types, Uploading, Sweeping
<1>6. Accounted'
  BY DEF Accounted, Held, Olds, Attached, Owners, ErasedForGood, FilesTypeOK, Types, Uploading, Sweeping, Changes
<1> QED
  BY <1>1, <1>2, <1>3, <1>4, <1>5, <1>6

(* The row of an attachment is made, or not.                               *)
LEMMA CreateFiles ==
  ASSUME Types, Files, NEW r \in Requests, Create(r)
  PROVE  Files'
<1> USE StoredFilesAssumption DEF Files, Create, Goto, End, memory, history
<1>1. FilesTypeOK'
  BY DEF FilesTypeOK, Owners, Held, Olds, Attached, Changes, Uploading, Sweeping
<1>2. Unused' /\ AvatarFiles' /\ ErasedForGood'
  BY DEF Unused, FilesTypeOK, Types, AvatarFiles, ErasedForGood, Held, Olds, Attached, Owners, Uploading, Sweeping, Changes
<1>3. Held'
  BY DEF Held, Olds, Unused, Attached, FilesTypeOK, Types, Uploading, Sweeping, AvatarFiles, Owners, Changes
<1>4. Owners' /\ Olds' /\ Attached'
  BY DEF Owners, Olds, Attached, AvatarFiles, Held, FilesTypeOK, Types, Changes, Sweeping, Uploading
<1>5. ListedOnDisk'
  BY DEF ListedOnDisk, Attached, Held, Olds, FilesTypeOK, Types, Uploading, Sweeping
<1>6. Accounted'
  BY DEF Accounted, Held, Olds, Attached, Owners, ErasedForGood, FilesTypeOK, Types, Uploading, Sweeping, Changes
<1> QED
  BY <1>1, <1>2, <1>3, <1>4, <1>5, <1>6

(* A file whose row could not be made is deleted, or not.                  *)
LEMMA UndoFiles ==
  ASSUME Types, Files, NEW r \in Requests, Undo(r)
  PROVE  Files'
<1> USE StoredFilesAssumption DEF Files, Undo, Goto, End, memory, history
<1>1. FilesTypeOK'
  BY DEF FilesTypeOK, Owners, Held, Olds, Attached, Changes, Uploading, Sweeping
<1>2. Unused' /\ AvatarFiles' /\ ErasedForGood'
  BY DEF Unused, FilesTypeOK, Types, AvatarFiles, ErasedForGood, Held, Olds, Attached, Owners, Uploading, Sweeping, Changes
<1>3. Held'
  BY DEF Held, Olds, Unused, Attached, FilesTypeOK, Types, Uploading, Sweeping, AvatarFiles, Owners, Changes
<1>4. Owners' /\ Olds' /\ Attached'
  BY DEF Owners, Olds, Attached, AvatarFiles, Held, FilesTypeOK, Types, Changes, Sweeping, Uploading
<1>5. ListedOnDisk'
  BY DEF ListedOnDisk, Attached, Held, Olds, FilesTypeOK, Types, Uploading, Sweeping
<1>6. Accounted'
  BY DEF Accounted, Held, Olds, Attached, Owners, ErasedForGood, FilesTypeOK, Types, Uploading, Sweeping, Changes
<1> QED
  BY <1>1, <1>2, <1>3, <1>4, <1>5, <1>6

(* What follows a row that was made or marked.                             *)
LEMMA RecordFiles ==
  ASSUME Types, Files, NEW r \in Requests, Record(r)
  PROVE  Files'
<1> USE StoredFilesAssumption DEF Files, Record, Goto, End, memory, history
<1>1. FilesTypeOK'
  BY DEF FilesTypeOK, Owners, Held, Olds, Attached, Changes, Uploading, Sweeping
<1>2. Unused' /\ AvatarFiles' /\ ErasedForGood'
  BY DEF Unused, FilesTypeOK, Types, AvatarFiles, ErasedForGood, Held, Olds, Attached, Owners, Uploading, Sweeping, Changes
<1>3. Held'
  BY DEF Held, Olds, Unused, Attached, FilesTypeOK, Types, Uploading, Sweeping, AvatarFiles, Owners, Changes
<1>4. Owners' /\ Olds' /\ Attached'
  BY DEF Owners, Olds, Attached, AvatarFiles, Held, FilesTypeOK, Types, Changes, Sweeping, Uploading
<1>5. ListedOnDisk'
  BY DEF ListedOnDisk, Attached, Held, Olds, FilesTypeOK, Types, Uploading, Sweeping
<1>6. Accounted'
  BY DEF Accounted, Held, Olds, Attached, Owners, ErasedForGood, FilesTypeOK, Types, Uploading, Sweeping, Changes
<1> QED
  BY <1>1, <1>2, <1>3, <1>4, <1>5, <1>6

(* The answer to an upload reads the row again.                            *)
LEMMA RereadFiles ==
  ASSUME Types, Files, NEW r \in Requests, Reread(r)
  PROVE  Files'
<1> USE StoredFilesAssumption DEF Files, Reread, Goto, End, memory, history
<1>1. FilesTypeOK'
  BY DEF FilesTypeOK, Owners, Held, Olds, Attached, Changes, Uploading, Sweeping
<1>2. Unused' /\ AvatarFiles' /\ ErasedForGood'
  BY DEF Unused, FilesTypeOK, Types, AvatarFiles, ErasedForGood, Held, Olds, Attached, Owners, Uploading, Sweeping, Changes
<1>3. Held'
  BY DEF Held, Olds, Unused, Attached, FilesTypeOK, Types, Uploading, Sweeping, AvatarFiles, Owners, Changes
<1>4. Owners' /\ Olds' /\ Attached'
  BY DEF Owners, Olds, Attached, AvatarFiles, Held, FilesTypeOK, Types, Changes, Sweeping, Uploading
<1>5. ListedOnDisk'
  BY DEF ListedOnDisk, Attached, Held, Olds, FilesTypeOK, Types, Uploading, Sweeping
<1>6. Accounted'
  BY DEF Accounted, Held, Olds, Attached, Owners, ErasedForGood, FilesTypeOK, Types, Uploading, Sweeping, Changes
<1> QED
  BY <1>1, <1>2, <1>3, <1>4, <1>5, <1>6

(* A removal looks for the row.                                            *)
LEMMA FindFiles ==
  ASSUME Types, Files, NEW r \in Requests, Find(r)
  PROVE  Files'
<1> USE StoredFilesAssumption DEF Files, Find, Goto, End, memory, history
<1>1. FilesTypeOK'
  BY DEF FilesTypeOK, Owners, Held, Olds, Attached, Changes, Uploading, Sweeping
<1>2. Unused' /\ AvatarFiles' /\ ErasedForGood'
  BY DEF Unused, FilesTypeOK, Types, AvatarFiles, ErasedForGood, Held, Olds, Attached, Owners, Uploading, Sweeping, Changes
<1>3. Held'
  BY DEF Held, Olds, Unused, Attached, FilesTypeOK, Types, Uploading, Sweeping, AvatarFiles, Owners, Changes
<1>4. Owners' /\ Olds' /\ Attached'
  BY DEF Owners, Olds, Attached, AvatarFiles, Held, FilesTypeOK, Types, Changes, Sweeping, Uploading
<1>5. ListedOnDisk'
  BY DEF ListedOnDisk, Attached, Held, Olds, FilesTypeOK, Types, Uploading, Sweeping
<1>6. Accounted'
  BY DEF Accounted, Held, Olds, Attached, Owners, ErasedForGood, FilesTypeOK, Types, Uploading, Sweeping, Changes
<1> QED
  BY <1>1, <1>2, <1>3, <1>4, <1>5, <1>6

(* A removal looks for the file.                                           *)
LEMMA ResolveFiles ==
  ASSUME Types, Files, NEW r \in Requests, Resolve(r)
  PROVE  Files'
<1> USE StoredFilesAssumption DEF Files, Resolve, Goto, End, memory, history
<1>1. FilesTypeOK'
  BY DEF FilesTypeOK, Owners, Held, Olds, Attached, Changes, Uploading, Sweeping
<1>2. Unused' /\ AvatarFiles' /\ ErasedForGood'
  BY DEF Unused, FilesTypeOK, Types, AvatarFiles, ErasedForGood, Held, Olds, Attached, Owners, Uploading, Sweeping, Changes
<1>3. Held'
  BY DEF Held, Olds, Unused, Attached, FilesTypeOK, Types, Uploading, Sweeping, AvatarFiles, Owners, Changes
<1>4. Owners' /\ Olds' /\ Attached'
  BY DEF Owners, Olds, Attached, AvatarFiles, Held, FilesTypeOK, Types, Changes, Sweeping, Uploading
<1>5. ListedOnDisk'
  BY DEF ListedOnDisk, Attached, Held, Olds, FilesTypeOK, Types, Uploading, Sweeping
<1>6. Accounted'
  BY DEF Accounted, Held, Olds, Attached, Owners, ErasedForGood, FilesTypeOK, Types, Uploading, Sweeping, Changes
<1> QED
  BY <1>1, <1>2, <1>3, <1>4, <1>5, <1>6

(* The file of an attachment is deleted.                                   *)
LEMMA UnlinkFiles ==
  ASSUME Types, Files, NEW r \in Requests, Unlink(r)
  PROVE  Files'
<1> USE StoredFilesAssumption DEF Files, Unlink, Goto, End, memory, history
<1>1. FilesTypeOK'
  BY DEF FilesTypeOK, Owners, Held, Olds, Attached, Changes, Uploading, Sweeping
<1>2. Unused' /\ AvatarFiles' /\ ErasedForGood'
  BY DEF Unused, FilesTypeOK, Types, AvatarFiles, ErasedForGood, Held, Olds, Attached, Owners, Uploading, Sweeping, Changes
<1>3. Held'
  BY DEF Held, Olds, Unused, Attached, FilesTypeOK, Types, Uploading, Sweeping, AvatarFiles, Owners, Changes
<1>4. Owners' /\ Olds' /\ Attached'
  BY DEF Owners, Olds, Attached, AvatarFiles, Held, FilesTypeOK, Types, Changes, Sweeping, Uploading
<1>5. ListedOnDisk'
  BY DEF ListedOnDisk, Attached, Held, Olds, FilesTypeOK, Types, Uploading, Sweeping
<1>6. Accounted'
  BY DEF Accounted, Held, Olds, Attached, Owners, ErasedForGood, FilesTypeOK, Types, Uploading, Sweeping, Changes
<1> QED
  BY <1>1, <1>2, <1>3, <1>4, <1>5, <1>6

(* Its row is marked.                                                      *)
LEMMA MarkFiles ==
  ASSUME Types, Files, NEW r \in Requests, Mark(r)
  PROVE  Files'
<1> USE StoredFilesAssumption DEF Files, Mark, Goto, End, memory, history
<1>1. FilesTypeOK'
  BY DEF FilesTypeOK, Owners, Held, Olds, Attached, Changes, Uploading, Sweeping
<1>2. Unused' /\ AvatarFiles' /\ ErasedForGood'
  BY DEF Unused, FilesTypeOK, Types, AvatarFiles, ErasedForGood, Held, Olds, Attached, Owners, Uploading, Sweeping, Changes
<1>3. Held'
  BY DEF Held, Olds, Unused, Attached, FilesTypeOK, Types, Uploading, Sweeping, AvatarFiles, Owners, Changes
<1>4. Owners' /\ Olds' /\ Attached'
  BY DEF Owners, Olds, Attached, AvatarFiles, Held, FilesTypeOK, Types, Changes, Sweeping, Uploading
<1>5. ListedOnDisk'
  BY DEF ListedOnDisk, Attached, Held, Olds, FilesTypeOK, Types, Uploading, Sweeping
<1>6. Accounted'
  BY DEF Accounted, Held, Olds, Attached, Owners, ErasedForGood, FilesTypeOK, Types, Uploading, Sweeping, Changes
<1> QED
  BY <1>1, <1>2, <1>3, <1>4, <1>5, <1>6

(* The previous avatar is read.                                            *)
LEMMA ReadAvatarFiles ==
  ASSUME Types, Files, NEW r \in Requests, ReadAvatar(r)
  PROVE  Files'
<1> USE StoredFilesAssumption DEF Files, ReadAvatar, Goto, End, memory, history
<1>1. FilesTypeOK'
  BY DEF FilesTypeOK, Owners, Held, Olds, Attached, Changes, Uploading, Sweeping
<1>2. Unused' /\ AvatarFiles' /\ ErasedForGood'
  BY DEF Unused, FilesTypeOK, Types, AvatarFiles, ErasedForGood, Held, Olds, Attached, Owners, Uploading, Sweeping, Changes
<1>3. Held'
  BY DEF Held, Olds, Unused, Attached, FilesTypeOK, Types, Uploading, Sweeping, AvatarFiles, Owners, Changes
<1>4. Owners' /\ Olds' /\ Attached'
  BY DEF Owners, Olds, Attached, AvatarFiles, Held, FilesTypeOK, Types, Changes, Sweeping, Uploading
<1>5. ListedOnDisk'
  BY DEF ListedOnDisk, Attached, Held, Olds, FilesTypeOK, Types, Uploading, Sweeping
<1>6. Accounted'
  BY DEF Accounted, Held, Olds, Attached, Owners, ErasedForGood, FilesTypeOK, Types, Uploading, Sweeping, Changes
<1> QED
  BY <1>1, <1>2, <1>3, <1>4, <1>5, <1>6

(* The avatar is replaced, or cleared.                                     *)
LEMMA SetAvatarFiles ==
  ASSUME Types, Files, NEW r \in Requests, SetAvatar(r)
  PROVE  Files'
<1> USE StoredFilesAssumption DEF Files, SetAvatar, Unseen, Goto, End, memory, history
<1>1. FilesTypeOK'
  BY DEF FilesTypeOK, Owners, Held, Olds, Attached, Changes, Uploading, Sweeping
<1>2. Unused' /\ AvatarFiles' /\ ErasedForGood'
  BY DEF Unused, FilesTypeOK, Types, AvatarFiles, ErasedForGood, Held, Olds, Attached, Owners, Uploading, Sweeping, Changes
<1>3. Held'
  BY DEF Held, Olds, Unused, Attached, FilesTypeOK, Types, Uploading, Sweeping, AvatarFiles, Owners, Changes
<1>4. Owners' /\ Olds' /\ Attached'
  BY DEF Owners, Olds, Attached, AvatarFiles, Held, FilesTypeOK, Types, Changes, Sweeping, Uploading
<1>5. ListedOnDisk'
  BY DEF ListedOnDisk, Attached, Held, Olds, FilesTypeOK, Types, Uploading, Sweeping
<1>6. Accounted'
  BY DEF Accounted, Held, Olds, Attached, Owners, ErasedForGood, FilesTypeOK, Types, Uploading, Sweeping, Changes
<1> QED
  BY <1>1, <1>2, <1>3, <1>4, <1>5, <1>6

(* The file of the previous avatar is looked for.                          *)
LEMMA ResolveOldFiles ==
  ASSUME Types, Files, NEW r \in Requests, ResolveOld(r)
  PROVE  Files'
<1> USE StoredFilesAssumption DEF Files, ResolveOld, Goto, End, memory, history
<1>1. FilesTypeOK'
  BY DEF FilesTypeOK, Owners, Held, Olds, Attached, Changes, Uploading, Sweeping
<1>2. Unused' /\ AvatarFiles' /\ ErasedForGood'
  BY DEF Unused, FilesTypeOK, Types, AvatarFiles, ErasedForGood, Held, Olds, Attached, Owners, Uploading, Sweeping, Changes
<1>3. Held'
  BY DEF Held, Olds, Unused, Attached, FilesTypeOK, Types, Uploading, Sweeping, AvatarFiles, Owners, Changes
<1>4. Owners' /\ Olds' /\ Attached'
  BY DEF Owners, Olds, Attached, AvatarFiles, Held, FilesTypeOK, Types, Changes, Sweeping, Uploading
<1>5. ListedOnDisk'
  BY DEF ListedOnDisk, Attached, Held, Olds, FilesTypeOK, Types, Uploading, Sweeping
<1>6. Accounted'
  BY DEF Accounted, Held, Olds, Attached, Owners, ErasedForGood, FilesTypeOK, Types, Uploading, Sweeping, Changes
<1> QED
  BY <1>1, <1>2, <1>3, <1>4, <1>5, <1>6

(* The previous avatar is deleted.                                         *)
LEMMA UnlinkOldFiles ==
  ASSUME Types, Files, NEW r \in Requests, UnlinkOld(r)
  PROVE  Files'
<1> USE StoredFilesAssumption DEF Files, UnlinkOld, Goto, End, memory, history
<1>1. FilesTypeOK'
  BY DEF FilesTypeOK, Owners, Held, Olds, Attached, Changes, Uploading, Sweeping
<1>2. Unused' /\ AvatarFiles' /\ ErasedForGood'
  BY DEF Unused, FilesTypeOK, Types, AvatarFiles, ErasedForGood, Held, Olds, Attached, Owners, Uploading, Sweeping, Changes
<1>3. Held'
  BY DEF Held, Olds, Unused, Attached, FilesTypeOK, Types, Uploading, Sweeping, AvatarFiles, Owners, Changes
<1>4. Owners' /\ Olds' /\ Attached'
  BY DEF Owners, Olds, Attached, AvatarFiles, Held, FilesTypeOK, Types, Changes, Sweeping, Uploading
<1>5. ListedOnDisk'
  BY DEF ListedOnDisk, Attached, Held, Olds, FilesTypeOK, Types, Uploading, Sweeping
<1>6. Accounted'
  BY DEF Accounted, Held, Olds, Attached, Owners, ErasedForGood, FilesTypeOK, Types, Uploading, Sweeping, Changes
<1> QED
  BY <1>1, <1>2, <1>3, <1>4, <1>5, <1>6

(* The process dies.                                                       *)
LEMMA CrashFiles ==
  ASSUME Types, Files, Crash
  PROVE  Files'
<1> USE StoredFilesAssumption DEF Files, Crash, FilesCrash
<1>1. FilesTypeOK'
  BY DEF FilesTypeOK, Held, Olds, Attached, Uploading, Sweeping
<1>2. \A r \in Requests : pc'[r] \in Ended \union {"new"} /\ file'[r] = None /\ old'[r] = None
  BY DEF Types, Running, Ended
<1>3. Held' /\ Owners' /\ Olds' /\ Attached'
  BY <1>2 DEF Held, Owners, Olds, Attached, Uploading, Changes, Sweeping, Ended
<1>4. Unused' /\ AvatarFiles' /\ ErasedForGood'
  BY <1>2 DEF Unused, AvatarFiles, ErasedForGood
<1>5. ListedOnDisk'
  BY DEF ListedOnDisk
<1>6. Accounted'
  <2> SUFFICES ASSUME NEW k \in disk' \ leaked'
               PROVE  row[k] = "live" \/ \E u \in Users : avatar[u] = k
    BY DEF Accounted
  <2>1. \A r \in Requests : ~(pc[r] \in Uploading /\ file[r] = k) /\ ~(pc[r] \in Sweeping /\ old[r] = k)
    BY DEF Held, Uploading, Sweeping
  <2> QED
    BY <2>1 DEF Accounted
<1> QED
  BY <1>1, <1>3, <1>4, <1>5, <1>6

(* Every step of the service of files keeps the invariant.                 *)
LEMMA StepFiles ==
  ASSUME Types, Files, FilesNext
  PROVE  Files'
<1> USE StoredFilesAssumption
<1>1. PICK r \in Requests :
        \/ \E k \in Keys : Upload(r, k) \/ RemoveAttachment(r, k) \/ \E u \in Users : UploadAvatar(r, k, u)
        \/ \E u \in Users : DeleteAvatar(r, u)
        \/ Put(r) \/ Create(r) \/ Undo(r) \/ Record(r) \/ Reread(r)
        \/ Find(r) \/ Resolve(r) \/ Unlink(r) \/ Mark(r)
        \/ ReadAvatar(r) \/ SetAvatar(r) \/ ResolveOld(r) \/ UnlinkOld(r)
  BY DEF FilesNext
<1>2. ASSUME NEW k \in Keys, Upload(r, k)
      PROVE  Files'
  <2>1. Begin(r, "put", k, None) /\ k \in Keys \ used
    BY <1>2 DEF Upload, Draws
  <2> QED
    BY <1>2, <2>1, BeginFiles DEF Upload
<1>3. ASSUME NEW k \in Keys, NEW u \in Users, UploadAvatar(r, k, u)
      PROVE  Files'
  <2>1. Begin(r, "putAvatar", k, u) /\ k \in Keys \ used
    BY <1>3 DEF UploadAvatar, Draws
  <2> QED
    BY <1>3, <2>1, BeginFiles DEF UploadAvatar
<1>4. ASSUME NEW k \in Keys, RemoveAttachment(r, k)
      PROVE  Files'
  <2>1. Begin(r, "find", k, None) /\ k \in used /\ UNCHANGED <<disk, row, avatar, used, leaked, torn>>
    BY <1>4 DEF RemoveAttachment, history
  <2> QED
    BY <2>1, BeginFiles
<1>5. ASSUME NEW u \in Users, DeleteAvatar(r, u)
      PROVE  Files'
  <2>1. Begin(r, "readToClear", None, u) /\ UNCHANGED <<disk, row, avatar, used, leaked, torn>>
    BY <1>5 DEF DeleteAvatar, history
  <2> QED
    BY <2>1, BeginFiles
<1> QED
  BY <1>1, <1>2, <1>3, <1>4, <1>5, PutFiles, CreateFiles, UndoFiles, RecordFiles, RereadFiles, FindFiles,
     ResolveFiles, UnlinkFiles, MarkFiles, ReadAvatarFiles, SetAvatarFiles, ResolveOldFiles, UnlinkOldFiles

(* So do the steps of the discussion, which has no request among them.     *)
LEMMA QuietFiles ==
  ASSUME Files, UNCHANGED filesVars,
         \A r \in Requests : pc[r] \notin FilePlaces /\ pc'[r] \notin FilePlaces
  PROVE  Files'
<1> USE DEF Files, filesVars
<1>1. FilesTypeOK' /\ Unused' /\ AvatarFiles' /\ ErasedForGood'
  BY DEF FilesTypeOK, Unused, AvatarFiles, ErasedForGood
<1>2. \A r \in Requests :
        /\ pc'[r] \notin Uploading \union Changes \union Sweeping /\ pc[r] \notin Uploading \union Sweeping
        /\ pc'[r] \notin {"find", "resolve", "unlink", "mark", "record", "reread", "recordRemoval", "undoMade"}
        /\ pc[r] \notin {"mark", "setAvatar", "clearAvatar"}
  BY DEF FilePlaces, Uploading, Changes, Sweeping
<1>3. Held' /\ Owners' /\ Attached'
  BY <1>2 DEF Held, Owners, Attached, Changes
<1>4. Olds'
  BY <1>2 DEF Olds
<1>5. ListedOnDisk'
  BY <1>2 DEF ListedOnDisk
<1>6. Accounted'
  BY <1>2 DEF Accounted
<1> QED
  BY <1>1, <1>3, <1>4, <1>5, <1>6

-----------------------------------------------------------------------------
(* Comments.                                                               *)

(* The people a comment may mention are people.                            *)
LEMMA Lists ==
  ASSUME NEW l \in Mentioned \union {<<>>}
  PROVE  ToSet(l) \subseteq People
  BY DiscussionAssumption DEF ToSet

(* The first states satisfy the invariant.                                 *)
LEMMA InitTalk == Init => Talk
<1> SUFFICES ASSUME Init PROVE Talk
  OBVIOUS
<1> USE DiscussionAssumption DEF Init, DiscussionInit
<1>1. DiscussionTypeOK
  BY DEF DiscussionTypeOK, Pairs
<1>2. \A r \in Requests : pc[r] \in {"new", "ok"}
  OBVIOUS
<1>3. Askers /\ Makers
  BY <1>2 DEF Askers, Makers, Making, DiscussionPlaces, Creating, Changing, Notifying
<1>4. Progress
  BY <1>2 DEF Progress, ProgressOf, Notifying
<1>5. Blank /\ AnsweredMeansNotified
  BY DEF Blank, AnsweredMeansNotified
<1>6. TogglesAddUp
  BY DEF TogglesAddUp, Pairs
<1> QED
  BY <1>1, <1>3, <1>4, <1>5, <1>6 DEF Talk

(* How far a request has come stays true while nothing of it changes.      *)
LEMMA ProgressRests ==
  ASSUME NEW r \in Requests, ProgressOf(r),
         /\ pc'[r] = pc[r] /\ by'[r] = by[r] /\ on'[r] = on[r] /\ list'[r] = list[r]
         /\ people'[r] = people[r] /\ todo'[r] = todo[r] /\ (r \in bad' <=> r \in bad),
         pc[r] \in Making => notes'[on[r]] = notes[on[r]]
  PROVE  ProgressOf(r)'
<1>1. CASE pc[r] \in Making
  <2>1. notes'[on'[r]] = notes[on[r]]
    BY <1>1
  <2> QED
    BY <2>1 DEF ProgressOf
<1>2. CASE pc[r] \notin Making
  BY <1>2 DEF ProgressOf, Making, Notifying
<1> QED
  BY <1>1, <1>2

(* A request that neither made a comment nor failed has nothing to keep.   *)
LEMMA ProgressNone ==
  ASSUME NEW r \in Requests, pc'[r] \notin Making, r \notin bad'
  PROVE  ProgressOf(r)'
  BY DEF ProgressOf, Making, Notifying

(* A request begins.                                                       *)
LEMMA AskTalk ==
  ASSUME Types, Talk, NEW r \in Requests, NEW place \in DiscussionPlaces, NEW u \in Actors,
         NEW c \in Comments \union {None}, NEW ms \in Mentioned \union {<<>>}, Ask(r, place, u, c, ms),
         place = "task" \/ (place \in Changing /\ c \in Comments /\ comment[c] # "none"),
         UNCHANGED <<rows, assignees, likes, notes, tally, told>>
  PROVE  Talk'
<1> USE DiscussionAssumption DEF Talk, rows
<1>1. /\ pc[r] = "new" /\ pc' = [pc EXCEPT ![r] = place]
      /\ by' = [by EXCEPT ![r] = u] /\ on' = [on EXCEPT ![r] = c] /\ list' = [list EXCEPT ![r] = ms]
      /\ UNCHANGED <<people, todo, bad, liked>>
  BY DEF Ask, Arrives, Goto
<1>2. DiscussionTypeOK'
  BY <1>1 DEF DiscussionTypeOK
<1>3. Blank' /\ AnsweredMeansNotified' /\ TogglesAddUp'
  BY DEF Blank, AnsweredMeansNotified, TogglesAddUp
<1>4. place \notin Making
  BY DEF Making, Changing, Notifying
<1>5. Askers' /\ Makers'
  BY <1>1, <1>4 DEF Askers, Makers, Types, DiscussionTypeOK, Creating, Changing, Notifying, DiscussionPlaces
<1>6. Progress'
  BY <1>1, <1>4 DEF Progress, ProgressOf, Types, DiscussionTypeOK, Making, Notifying
<1> QED
  BY <1>2, <1>3, <1>5, <1>6

(* A request moves on without telling or making anything.                  *)
LEMMA MoveTalk ==
  ASSUME Types, Talk, NEW r \in Requests, NEW place, Goto(r, place), pc[r] \in DiscussionPlaces,
         place \in Ended \/ (place \in DiscussionPlaces \ Making /\ on'[r] = on[r] /\ by'[r] = by[r]),
         place \in Changing => pc[r] \in Changing,
         place = "parent" => on[r] \in Comments,
         \A q \in Requests \ {r} : /\ by'[q] = by[q] /\ on'[q] = on[q] /\ list'[q] = list[q]
                                   /\ people'[q] = people[q] /\ todo'[q] = todo[q]
                                   /\ (q \in bad' <=> q \in bad),
         r \notin bad', DiscussionTypeOK', UNCHANGED <<author, mentions, notes>>,
         told' = told, comment' = comment \/ (comment' = [comment EXCEPT ![on[r]] = "deleted"] /\ pc[r] = "drop"),
         TogglesAddUp'
  PROVE  Talk'
<1> USE DiscussionAssumption DEF Talk
<1>1. \A q \in Requests \ {r} : pc'[q] = pc[q]
  BY DEF Goto, Types
<1>2. pc'[r] = place /\ place \notin Making
  BY DEF Goto, Types, Ended, Making, Notifying
<1>3. \A c \in Comments : comment'[c] = "none" <=> comment[c] = "none"
  BY DEF DiscussionTypeOK, Askers, Changing
<1>4. Blank' /\ AnsweredMeansNotified'
  BY <1>3 DEF Blank, AnsweredMeansNotified
<1>5. Askers'
  <2>1. \A q \in Requests : pc'[q] \in DiscussionPlaces => pc[q] \in DiscussionPlaces /\ by'[q] = by[q] /\ on'[q] = on[q]
    BY <1>1, <1>2 DEF Ended, DiscussionPlaces, Creating, Changing, Notifying
  <2>2. \A q \in Requests : pc'[q] \in Changing => pc[q] \in Changing
    BY <1>1, <1>2 DEF Ended, Changing
  <2>3. \A q \in Requests : pc'[q] = "parent" => on[q] \in Comments
    BY <1>1, <1>2 DEF Askers
  <2>4. Changing \union {"parent"} \subseteq DiscussionPlaces
    BY DEF Changing, DiscussionPlaces, Creating
  <2> QED
    BY <1>3, <2>1, <2>2, <2>3, <2>4 DEF Askers
<1>6. Makers'
  BY <1>1, <1>2, <1>3 DEF Makers
<1>7. Progress'
  <2>1. \A q \in Requests \ {r} : ProgressOf(q)'
    BY <1>1, ProgressRests DEF Progress
  <2>2. ProgressOf(r)'
    BY <1>2, ProgressNone
  <2> QED
    BY <2>1, <2>2 DEF Progress
<1> QED
  BY <1>4, <1>5, <1>6, <1>7

(* The steps of a request that neither make a comment nor tell anyone.     *)
LEMMA LocalTalk ==
  ASSUME Types, Talk, NEW r \in Requests,
         \/ QueryFails(r) \/ FindTask(r) \/ FindParent(r) \/ Check(r) \/ FindComment(r)
         \/ Edit(r) \/ ReloadEdited(r) \/ Drop(r) \/ Look(r) \/ Flip(r)
  PROVE  Talk'
<1> USE DiscussionAssumption
<1>1. /\ pc[r] \in DiscussionPlaces
      /\ pc[r] \in Creating \union Changing
      /\ UNCHANGED <<author, mentions, notes, told>>
  BY DEF QueryFails, FindTask, FindParent, Check, FindComment, Edit, ReloadEdited, Drop, Look, Flip, rows,
         DiscussionPlaces, Creating, Changing
<1>2. PICK place :
        /\ Goto(r, place)
        /\ place \in Ended \/ (place \in DiscussionPlaces \ Making /\ on'[r] = on[r] /\ by'[r] = by[r])
        /\ place \in Changing => pc[r] \in Changing
        /\ place = "parent" => on[r] # None
  BY DEF QueryFails, FindTask, FindParent, Check, FindComment, Edit, ReloadEdited, Drop, Look, Flip,
         Close, Step, locals, Ended, DiscussionPlaces, Creating, Changing, Notifying, Making
<1>3. place = "parent" => on[r] \in Comments
  BY <1>2 DEF Talk, Askers, DiscussionTypeOK
<1>4. /\ \A q \in Requests \ {r} : /\ by'[q] = by[q] /\ on'[q] = on[q] /\ list'[q] = list[q]
                                   /\ people'[q] = people[q] /\ todo'[q] = todo[q]
                                   /\ (q \in bad' <=> q \in bad)
      /\ r \notin bad'
  BY <1>1 DEF Talk, DiscussionTypeOK, Progress, ProgressOf, QueryFails, FindTask, FindParent, Check, FindComment, Edit,
              ReloadEdited, Drop, Look, Flip, Close, Step, locals, Creating, Changing, Notifying
<1>5. comment' = comment \/ (comment' = [comment EXCEPT ![on[r]] = "deleted"] /\ pc[r] = "drop")
  BY DEF QueryFails, FindTask, FindParent, Check, FindComment, Edit, ReloadEdited, Drop, Look, Flip, rows
<1>6. TogglesAddUp' /\ likes' \subseteq Pairs
  <2>1. CASE Flip(r)
    <3>1. Pair(r) \in Pairs
      BY <2>1 DEF Flip, Pair, Pairs, Talk, Askers, DiscussionPlaces, Changing
    <3>2. \/ UNCHANGED <<likes, tally>>
          \/ Pair(r) \in likes /\ likes' = likes \ {Pair(r)} /\ tally' = [tally EXCEPT ![Pair(r)] = @ - 1]
          \/ Pair(r) \notin likes /\ likes' = likes \union {Pair(r)} /\ tally' = [tally EXCEPT ![Pair(r)] = @ + 1]
      BY <2>1 DEF Flip
    <3> HIDE DEF Pair, Pairs
    <3> QED
      BY <3>1, <3>2 DEF Talk, TogglesAddUp, DiscussionTypeOK
  <2>2. CASE UNCHANGED <<likes, tally>>
    BY <2>2 DEF Talk, TogglesAddUp, DiscussionTypeOK
  <2> QED
    BY <2>1, <2>2 DEF QueryFails, FindTask, FindParent, Check, FindComment, Edit, ReloadEdited, Drop, Look
<1>7. DiscussionTypeOK'
  <2>1. /\ comment' \in [Comments -> {"none", "live", "deleted"}] /\ author' = author /\ parent' = parent
        /\ edited' \subseteq Comments /\ mentions' = mentions /\ notes' = notes /\ told' = told
        /\ assignees' = assignees
    BY <1>5 DEF QueryFails, FindTask, FindParent, Check, FindComment, Edit, ReloadEdited, Drop, Look, Flip,
                rows, Talk, DiscussionTypeOK, Askers, Changing
  <2>2. /\ by' \in [Requests -> People \union {None}]
        /\ on' \in [Requests -> Comments \union {None}]
        /\ list' \in [Requests -> Mentioned \union {<<>>}]
        /\ people' \in [Requests -> SUBSET People]
        /\ todo' \in [Requests -> SUBSET People]
        /\ bad' \subseteq Requests /\ liked' \subseteq Requests
    <3>1. \/ FindTask(r) \/ Look(r) \/ UNCHANGED <<by, on, list, people, todo, bad, liked>>
          \/ Close(r, "ok") \/ Close(r, "error")
      BY DEF QueryFails, FindParent, Check, FindComment, Edit, ReloadEdited, Drop, Flip, Step, locals
    <3>2. CASE FindTask(r)
      BY <3>2 DEF FindTask, Talk, DiscussionTypeOK
    <3>3. CASE Look(r)
      BY <3>3 DEF Look, Talk, DiscussionTypeOK
    <3>4. CASE Close(r, "ok") \/ Close(r, "error")
      <4>1. /\ by' = [by EXCEPT ![r] = None] /\ on' = [on EXCEPT ![r] = None]
            /\ people' = [people EXCEPT ![r] = {}] /\ todo' = [todo EXCEPT ![r] = {}]
            /\ bad' = bad \ {r} /\ liked' = liked \ {r}
        BY <3>4 DEF Close
      <4>2. PICK l \in Mentioned \union {<<>>} : list' = [list EXCEPT ![r] = l]
        BY <3>4, Zenon DEF Close
      <4>3. list' \in [Requests -> Mentioned \union {<<>>}]
        BY <4>2 DEF Talk, DiscussionTypeOK
      <4> QED
        BY <4>1, <4>3 DEF Talk, DiscussionTypeOK
    <3>5. CASE UNCHANGED <<by, on, list, people, todo, bad, liked>>
      BY <3>5 DEF Talk, DiscussionTypeOK
    <3> QED
      BY <3>1, <3>2, <3>3, <3>4, <3>5
  <2>3. tally' \in [Pairs -> {-1, 0, 1, 2}]
    <3>1. tally' = tally \/ (tally' = [tally EXCEPT ![Pair(r)] = @ - 1]) \/ (tally' = [tally EXCEPT ![Pair(r)] = @ + 1])
      BY DEF QueryFails, FindTask, FindParent, Check, FindComment, Edit, ReloadEdited, Drop, Look, Flip
    <3>2. DOMAIN tally' = Pairs /\ tally' = [p \in Pairs |-> tally'[p]]
      BY <3>1 DEF Talk, DiscussionTypeOK
    <3>3. \A p \in Pairs : tally'[p] \in {0, 1}
      BY <1>6 DEF TogglesAddUp
    <3> QED
      BY <3>2, <3>3
  <2> QED
    BY <1>6, <2>1, <2>2, <2>3 DEF DiscussionTypeOK, Talk
<1> QED
  BY <1>1, <1>2, <1>3, <1>4, <1>5, <1>6, <1>7, MoveTalk

(* A comment is made, or not; it is then read back.                        *)
LEMMA InsertTalk ==
  ASSUME Types, Talk, NEW r \in Requests, NEW c \in Comments, Insert(r, c),
         Cardinality(ToSet(list[r])) = Len(list[r])
  PROVE  Talk'
<1> USE DiscussionAssumption DEF Talk
<1>1. /\ pc[r] = "insert" /\ comment[c] = "none" /\ pc' = [pc EXCEPT ![r] = "reload"]
      /\ comment' = [comment EXCEPT ![c] = "live"]
      /\ author' = [author EXCEPT ![c] = by[r]]
      /\ parent' = [parent EXCEPT ![c] = on[r]]
      /\ mentions' = [mentions EXCEPT ![c] = ToSet(list[r])]
      /\ on' = [on EXCEPT ![r] = c]
      /\ UNCHANGED <<edited, by, list, people, todo, bad, liked, assignees, likes, notes, tally, told>>
  BY DEF Insert, Goto
<1>2. by[r] \in People /\ told[c] = None /\ ToSet(list[r]) \subseteq People
  BY <1>1, Lists DEF Askers, Blank, DiscussionTypeOK, DiscussionPlaces, Creating
<1>3. DiscussionTypeOK'
  BY <1>1, <1>2 DEF DiscussionTypeOK
<1>4. Blank' /\ TogglesAddUp'
  BY <1>1 DEF Blank, TogglesAddUp, DiscussionTypeOK
<1>5. AnsweredMeansNotified'
  BY <1>1, <1>2 DEF AnsweredMeansNotified, DiscussionTypeOK
<1>6. Askers'
  <2>1. \A q \in Requests \ {r} : pc'[q] = pc[q] /\ by'[q] = by[q] /\ on'[q] = on[q]
    BY <1>1 DEF Types, DiscussionTypeOK
  <2>2. pc'[r] = "reload" /\ by'[r] \in People
    BY <1>1, <1>2 DEF Types
  <2>3. \A d \in Comments : comment[d] # "none" => comment'[d] # "none"
    BY <1>1 DEF DiscussionTypeOK
  <2>4. "reload" \notin Changing \union {"parent"}
    BY DEF Changing
  <2> QED
    BY <2>1, <2>2, <2>3, <2>4 DEF Askers
<1>7. Makers'
  <2>1. \A q \in Requests \ {r} : pc[q] \in Making => on[q] # c /\ on[q] \in Comments
    BY <1>1 DEF Makers
  <2> QED
    BY <1>1, <1>2, <2>1 DEF Makers, Types, DiscussionTypeOK
<1>8. Progress'
  BY <1>1 DEF Progress, ProgressOf, Blank, Types, DiscussionTypeOK, Notifying
<1> QED
  BY <1>3, <1>4, <1>5, <1>6, <1>7, <1>8

(* The step from one stage to the next of a request that made a comment.   *)
LEMMA StageTalk ==
  ASSUME Types, Talk, NEW r \in Requests, pc[r] \in Making, NEW place \in Notifying, Goto(r, place),
         r \notin bad, todo[r] = {} \/ pc[r] = "reload",
         \/ pc[r] = "reload" /\ place = "mention" /\ todo' = [todo EXCEPT ![r] = ToSet(list[r])]
         \/ /\ pc[r] = "mention" /\ place = "inform"
            /\ todo' = [todo EXCEPT ![r] = people[r] \ ({by[r]} \union ToSet(list[r]))],
         UNCHANGED <<by, on, list, people, bad, liked, comment, author, parent, edited, mentions,
                     assignees, likes, notes, tally, told>>
  PROVE  Talk'
<1> USE DiscussionAssumption DEF Talk
<1>1. \A q \in Requests \ {r} : pc'[q] = pc[q] /\ todo'[q] = todo[q]
  BY DEF Goto, Types, DiscussionTypeOK
<1>2. pc'[r] = place /\ place \in Making
  BY DEF Goto, Types, Making
<1>3. ToSet(list[r]) \subseteq People /\ people[r] \subseteq People
  BY Lists DEF DiscussionTypeOK
<1>4. DiscussionTypeOK'
  <2>1. PICK U \in SUBSET People : todo' = [todo EXCEPT ![r] = U]
    BY <1>3
  <2>2. todo' \in [Requests -> SUBSET People]
    BY <2>1 DEF DiscussionTypeOK
  <2> QED
    BY <2>2 DEF DiscussionTypeOK
<1>5. Blank' /\ AnsweredMeansNotified' /\ TogglesAddUp'
  BY DEF Blank, AnsweredMeansNotified, TogglesAddUp
<1>6. Askers' /\ Makers'
  BY <1>1, <1>2 DEF Askers, Makers, Making, Notifying, Changing, DiscussionPlaces, Creating
<1>7. Progress'
  <2>1. \A q \in Requests \ {r} : ProgressOf(q)'
    BY <1>1 DEF Progress, ProgressOf
  <2>2. CASE pc[r] = "reload"
    <3>1. todo'[r] = ToSet(list[r]) /\ pc'[r] = "mention"
      BY <1>2, <2>2 DEF DiscussionTypeOK
    <3>2. \A u \in People : notes[on[r]][u] = {}
      BY <2>2 DEF Progress, ProgressOf
    <3>3. ProgressOf(r)'
      BY <3>1, <3>2 DEF ProgressOf, Notifying
    <3> QED
      BY <2>1, <3>3 DEF Progress
  <2>3. CASE pc[r] = "mention"
    <3>1. todo'[r] = people[r] \ ({by[r]} \union ToSet(list[r])) /\ pc'[r] = "inform"
      BY <1>2, <2>3 DEF DiscussionTypeOK
    <3>2. \A u \in People : notes[on[r]][u] = IF u \in ToSet(list[r]) THEN {"mentioned"} ELSE {}
      BY <2>3 DEF Progress, ProgressOf
    <3>3. ProgressOf(r)'
      BY <3>1, <3>2 DEF ProgressOf, Notifying
    <3> QED
      BY <2>1, <3>3 DEF Progress
  <2> QED
    BY <2>2, <2>3
<1> QED
  BY <1>4, <1>5, <1>6, <1>7

(* A request that made a comment ends.                                     *)
LEMMA CloseTalk ==
  ASSUME Types, Talk, NEW r \in Requests, pc[r] \in Making, NEW outcome \in Ended, Close(r, outcome),
         UNCHANGED <<comment, author, parent, edited, mentions, assignees, likes, notes, tally>>,
         \/ told' = told
         \/ /\ told' = [told EXCEPT ![on[r]] = people[r]]
            /\ pc[r] = "inform" /\ r \notin bad /\ todo[r] = {}
  PROVE  Talk'
<1> USE DiscussionAssumption DEF Talk
<1>1. /\ by' = [by EXCEPT ![r] = None] /\ on' = [on EXCEPT ![r] = None]
      /\ people' = [people EXCEPT ![r] = {}] /\ todo' = [todo EXCEPT ![r] = {}]
      /\ bad' = bad \ {r} /\ liked' = liked \ {r} /\ pc' = [pc EXCEPT ![r] = outcome]
  BY DEF Close, Goto
<1>2. PICK l \in Mentioned \union {<<>>} : list' = [list EXCEPT ![r] = l]
  BY Zenon DEF Close
<1>3. /\ pc'[r] \in Ended
      /\ \A q \in Requests \ {r} : /\ pc'[q] = pc[q] /\ by'[q] = by[q] /\ on'[q] = on[q] /\ list'[q] = list[q]
                                   /\ people'[q] = people[q] /\ todo'[q] = todo[q] /\ (q \in bad' <=> q \in bad)
  BY <1>1, <1>2 DEF Types, DiscussionTypeOK
<1>4. on[r] \in Comments /\ people[r] \subseteq People
  BY DEF Makers, DiscussionTypeOK
<1>5. DiscussionTypeOK'
  <2>1. told' \in [Comments -> (SUBSET People) \union {None}]
    BY <1>4 DEF DiscussionTypeOK
  <2>2. list' \in [Requests -> Mentioned \union {<<>>}]
    BY <1>2 DEF DiscussionTypeOK
  <2> QED
    BY <1>1, <2>1, <2>2 DEF DiscussionTypeOK
<1>6. Blank' /\ TogglesAddUp'
  BY <1>4 DEF Blank, TogglesAddUp, Makers, DiscussionTypeOK
<1>7. AnsweredMeansNotified'
  <2>1. CASE told' = told
    BY <2>1 DEF AnsweredMeansNotified
  <2>2. CASE told' = [told EXCEPT ![on[r]] = people[r]] /\ pc[r] = "inform" /\ r \notin bad /\ todo[r] = {}
    <3>1. \A c \in Comments : told'[c] = IF c = on[r] THEN people[r] ELSE told[c]
      BY <2>2 DEF DiscussionTypeOK
    <3>2. author[on[r]] = by[r] /\ mentions[on[r]] = ToSet(list[r])
      BY DEF Makers
    <3>3. \A u \in People : notes[on[r]][u] = IF u \in mentions[on[r]] THEN {"mentioned"}
                                              ELSE IF u \in people[r] \ {author[on[r]]} THEN {"commented"} ELSE {}
      BY <2>2, <3>2 DEF Progress, ProgressOf
    <3> QED
      BY <3>1, <3>3 DEF AnsweredMeansNotified
  <2> QED
    BY <2>1, <2>2
<1>8. Askers'
  BY <1>3 DEF Askers, Ended, DiscussionPlaces, Creating, Changing, Notifying
<1>9. Makers'
  <2>1. \A q \in Requests \ {r} : pc[q] \in Making => told'[on[q]] = told[on[q]]
    BY DEF Makers, DiscussionTypeOK
  <2> QED
    BY <1>3, <2>1 DEF Makers, Ended, Making, Notifying
<1>10. Progress'
  <2>1. \A q \in Requests \ {r} : ProgressOf(q)'
    BY <1>3, ProgressRests DEF Progress
  <2>2. pc'[r] \notin Making /\ r \notin bad'
    BY <1>1, <1>3 DEF Ended, Making, Notifying
  <2> QED
    BY <2>1, <2>2, ProgressNone DEF Progress
<1> QED
  BY <1>5, <1>6, <1>7, <1>8, <1>9, <1>10

(* Somebody is notified, or not.                                           *)
LEMMA NotifyTalk ==
  ASSUME Types, Talk, NEW r \in Requests, NEW u \in People, Notify(r, u)
  PROVE  Talk'
<1> USE DiscussionAssumption DEF Talk
<1> DEFINE kind == IF pc[r] = "mention" THEN "mentioned" ELSE "commented"
<1>1. /\ pc[r] \in Notifying /\ u \in todo[r] /\ pc[r] \in Making
      /\ todo' = [todo EXCEPT ![r] = todo[r] \ {u}]
      /\ UNCHANGED <<pc, by, on, list, people, liked, comment, author, parent, edited, mentions,
                     assignees, likes, tally, told>>
  BY DEF Notify, rows, Making
<1>2. PICK written \in BOOLEAN, failed \in BOOLEAN :
        /\ written \/ failed
        /\ notes' = IF written THEN [notes EXCEPT ![on[r]][u] = notes[on[r]][u] \union {kind}] ELSE notes
        /\ bad' = IF failed THEN bad \union {r} ELSE bad
  BY DEF Notify
<1>3. on[r] \in Comments /\ comment[on[r]] # "none" /\ told[on[r]] = None
  BY <1>1 DEF Makers
<1>4. \A c \in Comments \ {on[r]} : notes'[c] = notes[c]
  BY <1>2, <1>3 DEF DiscussionTypeOK
<1>5. \A v \in People \ {u} : notes'[on[r]][v] = notes[on[r]][v]
  BY <1>2, <1>3 DEF DiscussionTypeOK
<1>6. r \notin bad' => notes'[on[r]][u] = notes[on[r]][u] \union {kind}
  BY <1>2, <1>3 DEF DiscussionTypeOK
<1>7. DiscussionTypeOK'
  BY <1>1, <1>2, <1>3 DEF DiscussionTypeOK
<1>8. Blank' /\ AnsweredMeansNotified'
  BY <1>1, <1>3, <1>4 DEF Blank, AnsweredMeansNotified
<1>9. TogglesAddUp' /\ Askers' /\ Makers'
  BY <1>1 DEF TogglesAddUp, Askers, Makers
<1>10. Progress'
  <2>1. \A q \in Requests \ {r} : pc[q] \in Making => on[q] # on[r] /\ on[q] \in Comments
    BY <1>1 DEF Makers
  <2>2. \A q \in Requests \ {r} : todo'[q] = todo[q] /\ (q \in bad' <=> q \in bad)
                                  /\ (pc[q] \in Making => notes'[on[q]] = notes[on[q]])
    BY <1>1, <1>2, <1>4, <2>1 DEF DiscussionTypeOK
  <2>3. todo'[r] = todo[r] \ {u}
    BY <1>1 DEF DiscussionTypeOK
  <2>4. \A q \in Requests \ {r} : ProgressOf(q)'
    BY <1>1, <2>2, ProgressRests DEF Progress
  <2>5. CASE pc[r] = "mention"
    <3>1. todo[r] \subseteq ToSet(list[r])
      BY <2>5 DEF Progress, ProgressOf
    <3>2. r \notin bad' => /\ notes'[on[r]][u] = {"mentioned"}
                           /\ \A v \in People \ {u} : notes'[on[r]][v] =
                                IF v \in ToSet(list[r]) \ todo[r] THEN {"mentioned"} ELSE {}
      BY <1>1, <1>2, <1>5, <1>6, <2>5 DEF Progress, ProgressOf
    <3> QED
      <4>1. ProgressOf(r)'
        BY <1>1, <2>3, <2>5, <3>1, <3>2 DEF ProgressOf, Notifying
      <4> QED
        BY <2>4, <4>1 DEF Progress
  <2>6. CASE pc[r] = "inform"
    <3>1. todo[r] \subseteq people[r] \ ({by[r]} \union ToSet(list[r]))
      BY <2>6 DEF Progress, ProgressOf
    <3>2. r \notin bad' => /\ notes'[on[r]][u] = {"commented"}
                           /\ \A v \in People \ {u} : notes'[on[r]][v] =
                                IF v \in ToSet(list[r]) THEN {"mentioned"}
                                ELSE IF v \in people[r] \ ({by[r]} \union todo[r]) THEN {"commented"} ELSE {}
      BY <1>1, <1>2, <1>5, <1>6, <2>6, <3>1 DEF Progress, ProgressOf
    <3> QED
      <4>1. ProgressOf(r)'
        BY <1>1, <2>3, <2>6, <3>1, <3>2 DEF ProgressOf, Notifying
      <4> QED
        BY <2>4, <4>1 DEF Progress
  <2> QED
    BY <1>1, <2>5, <2>6 DEF Notifying
<1> QED
  BY <1>7, <1>8, <1>9, <1>10

(* Every step of the discussion keeps the invariant.                       *)
LEMMA StepTalk ==
  ASSUME Types, Talk, DiscussionNext
  PROVE  Talk'
<1> USE DiscussionAssumption
<1>1. ASSUME NEW r \in Requests, NEW u \in Actors, NEW c \in Comments \union {None}, NEW ms \in Mentioned,
             CreateComment(r, u, c, ms)
      PROVE  Talk'
  <2>1. "task" \in DiscussionPlaces /\ ms \in Mentioned \union {<<>>}
    BY DEF DiscussionPlaces, Creating
  <2> QED
    BY <1>1, <2>1, AskTalk DEF CreateComment
<1>2. ASSUME NEW r \in Requests, NEW u \in Actors, NEW c \in Comments, NEW place \in Changing, Change(r, place, u, c)
      PROVE  Talk'
  <2>1. place \in DiscussionPlaces
    BY DEF DiscussionPlaces
  <2>2. PICK ms \in Mentioned \union {<<>>} : Ask(r, place, u, c, ms)
    BY <1>2 DEF Change
  <2>3. comment[c] # "none" /\ UNCHANGED <<rows, assignees, likes, notes, tally, told>>
    BY <1>2 DEF Change
  <2> QED
    BY <2>1, <2>2, <2>3, AskTalk
<1>3. ASSUME NEW r \in Requests, NEW c \in Comments, Insert(r, c)
      PROVE  Talk'
  <2>1. CASE Cardinality(ToSet(list[r])) = Len(list[r])
    BY <1>3, <2>1, InsertTalk
  <2>2. CASE Cardinality(ToSet(list[r])) # Len(list[r])
    <3>1. QueryFails(r)
      BY <1>3, <2>2 DEF Insert, QueryFails, Creating
    <3> QED
      BY <3>1, LocalTalk
  <2> QED
    BY <2>1, <2>2
<1>4. ASSUME NEW r \in Requests, Reload(r)
      PROVE  Talk'
  <2>1. pc[r] = "reload" /\ pc[r] \in Making /\ r \notin bad
    BY <1>4 DEF Reload, Making, Talk, Progress, ProgressOf, Notifying
  <2>2. CASE comment[on[r]] = "live"
    <3>1. /\ Goto(r, "mention") /\ todo' = [todo EXCEPT ![r] = ToSet(list[r])]
          /\ UNCHANGED <<by, on, list, people, bad, liked, comment, author, parent, edited, mentions,
                         assignees, likes, notes, tally, told>>
      BY <1>4, <2>2 DEF Reload, rows
    <3>2. "mention" \in Notifying
      BY DEF Notifying
    <3> QED
      BY <2>1, <3>1, <3>2, StageTalk
  <2>3. CASE comment[on[r]] # "live"
    <3>1. Close(r, "error") /\ UNCHANGED <<comment, author, parent, edited, mentions, assignees, likes, notes, tally, told>>
      BY <1>4, <2>3 DEF Reload, rows
    <3>2. "error" \in Ended
      BY DEF Ended
    <3> QED
      BY <2>1, <3>1, <3>2, CloseTalk
  <2> QED
    BY <2>2, <2>3
<1>5. ASSUME NEW r \in Requests, Notified(r)
      PROVE  Talk'
  <2>1. /\ pc[r] \in Notifying /\ pc[r] \in Making /\ todo[r] = {}
        /\ UNCHANGED <<comment, author, parent, edited, mentions, assignees, likes, notes, tally>>
    BY <1>5 DEF Notified, Making, rows
  <2>2. "error" \in Ended /\ "ok" \in Ended /\ "inform" \in Notifying
    BY DEF Ended, Notifying
  <2>3. CASE r \in bad
    <3>1. Close(r, "error") /\ told' = told
      BY <1>5, <2>3 DEF Notified
    <3> QED
      BY <2>1, <2>2, <3>1, CloseTalk
  <2>4. CASE r \notin bad /\ pc[r] = "mention"
    <3>1. /\ todo' = [todo EXCEPT ![r] = people[r] \ ({by[r]} \union ToSet(list[r]))]
          /\ Goto(r, "inform")
          /\ UNCHANGED <<by, on, list, people, bad, liked, told>>
      BY <1>5, <2>4 DEF Notified
    <3> QED
      BY <2>1, <2>2, <2>4, <3>1, StageTalk
  <2>5. CASE r \notin bad /\ pc[r] = "inform"
    <3>1. told' = [told EXCEPT ![on[r]] = people[r]] /\ Close(r, "ok")
      BY <1>5, <2>5 DEF Notified
    <3> QED
      BY <2>1, <2>2, <2>5, <3>1, CloseTalk
  <2> QED
    BY <2>1, <2>3, <2>4, <2>5 DEF Notifying
<1>6. ASSUME NEW u \in Assignable, Assign(u)
      PROVE  Talk'
  <2>1. assignees' \subseteq Assignable
    BY <1>6 DEF Assign, Talk, DiscussionTypeOK
  <2>2. UNCHANGED <<pc, by, on, list, people, todo, bad, liked, comment, author, parent, edited, mentions,
                    likes, notes, tally, told>>
    BY <1>6 DEF Assign, locals, rows
  <2> QED
    BY <2>1, <2>2 DEF Talk, DiscussionTypeOK, Blank, Askers, Makers, Progress, ProgressOf,
                      AnsweredMeansNotified, TogglesAddUp
<1> QED
  BY <1>1, <1>2, <1>3, <1>4, <1>5, <1>6, LocalTalk, NotifyTalk DEF DiscussionNext

(* The process dies.                                                       *)
LEMMA CrashTalk ==
  ASSUME Types, Talk, Crash
  PROVE  Talk'
<1> USE DiscussionAssumption DEF Talk
<1>1. /\ \A r \in Requests : pc'[r] \in Ended \union {"new"}
      /\ bad' = {} /\ UNCHANGED <<comment, author, parent, edited, mentions, assignees, likes, notes, tally, told>>
  BY DEF Crash, DiscussionCrash, Types, Running, Ended, rows
<1>2. \A r \in Requests : pc'[r] \notin Making /\ pc'[r] \notin DiscussionPlaces /\ pc'[r] \notin Changing \union {"parent"}
  BY <1>1 DEF Ended, Making, DiscussionPlaces, Creating, Changing, Notifying
<1>3. DiscussionTypeOK'
  BY <1>1 DEF Crash, DiscussionCrash, DiscussionTypeOK
<1>4. Blank' /\ AnsweredMeansNotified' /\ TogglesAddUp'
  BY <1>1 DEF Blank, AnsweredMeansNotified, TogglesAddUp
<1>5. Askers' /\ Makers'
  BY <1>2 DEF Askers, Makers
<1>6. Progress'
  BY <1>1, <1>2, ProgressNone DEF Progress
<1> QED
  BY <1>3, <1>4, <1>5, <1>6

(* So do the steps of the service of files, which make no comment.         *)
LEMMA QuietTalk ==
  ASSUME Talk, UNCHANGED discussionVars, \A r \in Requests : pc[r] \notin DiscussionPlaces /\ pc'[r] \notin DiscussionPlaces
  PROVE  Talk'
<1> USE DEF Talk, discussionVars
<1>1. DiscussionTypeOK' /\ Blank' /\ AnsweredMeansNotified' /\ TogglesAddUp'
  BY DEF DiscussionTypeOK, Blank, AnsweredMeansNotified, TogglesAddUp
<1>2. \A r \in Requests : /\ pc[r] \notin Notifying /\ pc'[r] \notin Making
                          /\ pc'[r] \notin Changing \union {"parent"}
  BY DEF DiscussionPlaces, Creating, Making
<1>3. Askers' /\ Makers'
  BY <1>2 DEF Askers, Makers
<1>4. \A r \in Requests : r \notin bad'
  BY <1>2 DEF Progress, ProgressOf
<1>5. Progress'
  BY <1>2, <1>4, ProgressNone DEF Progress
<1> QED
  BY <1>1, <1>3, <1>5

-----------------------------------------------------------------------------
(* The invariant, and what follows from it.                                *)

(* A behaviour that is about files has no request about the discussion,    *)
(* and the other way round.                                                *)
Apart ==
  /\ subject \in {"files", "discussion"}
  /\ \A r \in Requests : pc[r] \notin (IF subject = "files" THEN DiscussionPlaces ELSE FilePlaces)

IInv == Types /\ Apart /\ Files /\ Talk

(* A step of the service of files sends one request to one of its places.  *)
LEMMA FilesMove ==
  ASSUME FilesNext
  PROVE  \E r \in Requests, place \in FilePlaces \union Ended : Goto(r, place)
<1> USE DEF FilePlaces, Ended
<1>1. PICK r \in Requests :
        \/ \E k \in Keys : Upload(r, k) \/ RemoveAttachment(r, k) \/ \E u \in Users : UploadAvatar(r, k, u)
        \/ \E u \in Users : DeleteAvatar(r, u)
        \/ Put(r) \/ Create(r) \/ Undo(r) \/ Record(r) \/ Reread(r)
        \/ Find(r) \/ Resolve(r) \/ Unlink(r) \/ Mark(r)
        \/ ReadAvatar(r) \/ SetAvatar(r) \/ ResolveOld(r) \/ UnlinkOld(r)
  BY DEF FilesNext
<1>2. (\E k \in Keys : Upload(r, k) \/ RemoveAttachment(r, k) \/ \E u \in Users : UploadAvatar(r, k, u))
      \/ (\E u \in Users : DeleteAvatar(r, u))
      => \E place \in FilePlaces : Goto(r, place)
  BY DEF Upload, RemoveAttachment, UploadAvatar, DeleteAvatar, Begin
<1>3. Put(r) \/ Create(r) \/ Undo(r) \/ Record(r) \/ Reread(r)
      => \E place \in FilePlaces \union Ended : Goto(r, place)
  BY DEF Put, Create, Undo, Record, Reread, End
<1>4. Find(r) \/ Resolve(r) \/ Unlink(r) \/ Mark(r)
      => \E place \in FilePlaces \union Ended : Goto(r, place)
  BY DEF Find, Resolve, Unlink, Mark, End
<1>5. ReadAvatar(r) \/ SetAvatar(r) \/ ResolveOld(r) \/ UnlinkOld(r)
      => \E place \in FilePlaces \union Ended : Goto(r, place)
  BY DEF ReadAvatar, SetAvatar, ResolveOld, UnlinkOld, End
<1> QED
  BY <1>1, <1>2, <1>3, <1>4, <1>5

(* A step of the discussion sends a request to one of its places, or none. *)
LEMMA DiscussionMoves ==
  ASSUME DiscussionNext
  PROVE  \/ UNCHANGED pc
         \/ \E r \in Requests, place \in DiscussionPlaces \union Ended : Goto(r, place)
<1> USE DEF DiscussionPlaces, Creating, Changing, Notifying, Ended
<1>1. ASSUME NEW r \in Requests
      PROVE  /\ \A u \in Actors, c \in Comments \union {None}, ms \in Mentioned :
                  CreateComment(r, u, c, ms) => Goto(r, "task")
             /\ \A u \in Actors, c \in Comments, place \in Changing :
                  Change(r, place, u, c) => Goto(r, place)
             /\ \A c \in Comments : Insert(r, c) => Goto(r, "reload") \/ Goto(r, "error")
             /\ \A u \in People : Notify(r, u) => UNCHANGED pc
  BY DEF CreateComment, Change, Ask, Insert, Close, Notify
<1>2. ASSUME NEW r \in Requests,
             QueryFails(r) \/ FindTask(r) \/ FindParent(r) \/ Check(r) \/ Reload(r) \/ Notified(r)
      PROVE  \E place \in DiscussionPlaces \union Ended : Goto(r, place)
  BY <1>2 DEF QueryFails, FindTask, FindParent, Check, Reload, Notified, Close, Step
<1>3. ASSUME NEW r \in Requests,
             Edit(r) \/ ReloadEdited(r) \/ Drop(r) \/ Look(r) \/ Flip(r)
      PROVE  \E place \in DiscussionPlaces \union Ended : Goto(r, place)
  BY <1>3 DEF Edit, ReloadEdited, Drop, Look, Flip, Close, Step
<1>4. ASSUME NEW r \in Requests, FindComment(r)
      PROVE  \E place \in DiscussionPlaces \union Ended : Goto(r, place)
  BY <1>4 DEF FindComment, Close, Step
<1>5. ASSUME NEW u \in Assignable, Assign(u)
      PROVE  UNCHANGED pc
  BY <1>5 DEF Assign
<1> QED
  BY <1>1, <1>2, <1>3, <1>4, <1>5 DEF DiscussionNext

(* The first states satisfy the invariant.                                 *)
LEMMA InitIInv == Init => IInv
<1> SUFFICES ASSUME Init PROVE IInv
  OBVIOUS
<1>1. subject \in {"files", "discussion"} /\ \A r \in Requests : pc[r] \in {"new", "ok"}
  BY DEF Init
<1>2. Types
  BY DEF Init, Types, Ended
<1>3. Apart
  BY <1>1 DEF Apart, FilePlaces, DiscussionPlaces, Creating, Changing, Notifying
<1> QED
  BY <1>2, <1>3, InitFiles, InitTalk DEF IInv

(* Every step keeps it.                                                    *)
LEMMA StepKeepsIInv ==
  ASSUME IInv, [Next]_vars
  PROVE  IInv'
<1> USE DEF IInv
<1>1. ASSUME subject = "files", FilesNext, UNCHANGED <<discussionVars, subject>>
      PROVE  IInv'
  <2>1. PICK r \in Requests, place \in FilePlaces \union Ended : Goto(r, place)
    BY <1>1, FilesMove
  <2>2. Types'
    BY <2>1 DEF Types, Goto
  <2>3. \A q \in Requests : pc'[q] = pc[q] \/ pc'[q] \in FilePlaces \union Ended
    BY <2>1 DEF Types, Goto
  <2>4. FilePlaces \intersect DiscussionPlaces = {} /\ Ended \intersect DiscussionPlaces = {}
    BY DEF FilePlaces, DiscussionPlaces, Creating, Changing, Notifying, Ended
  <2>5. \A q \in Requests : pc[q] \notin DiscussionPlaces /\ pc'[q] \notin DiscussionPlaces
    BY <1>1, <2>3, <2>4 DEF Apart
  <2>6. Apart'
    BY <1>1, <2>5 DEF Apart
  <2>7. Files'
    BY <1>1, StepFiles
  <2>8. Talk'
    BY <1>1, <2>5, QuietTalk
  <2> QED
    BY <2>2, <2>6, <2>7, <2>8
<1>2. ASSUME subject = "discussion", DiscussionNext, UNCHANGED <<filesVars, subject>>
      PROVE  IInv'
  <2>1. \/ UNCHANGED pc
        \/ \E r \in Requests, place \in DiscussionPlaces \union Ended : Goto(r, place)
    BY <1>2, DiscussionMoves
  <2>2. Types'
    BY <2>1 DEF Types, Goto
  <2>3. \A q \in Requests : pc'[q] = pc[q] \/ pc'[q] \in DiscussionPlaces \union Ended
    BY <2>1 DEF Types, Goto
  <2>4. DiscussionPlaces \intersect FilePlaces = {} /\ Ended \intersect FilePlaces = {}
    BY DEF FilePlaces, DiscussionPlaces, Creating, Changing, Notifying, Ended
  <2>5. \A q \in Requests : pc[q] \notin FilePlaces /\ pc'[q] \notin FilePlaces
    BY <1>2, <2>3, <2>4 DEF Apart
  <2>6. Apart'
    BY <1>2, <2>5 DEF Apart
  <2>7. Files'
    BY <1>2, <2>5, QuietFiles
  <2>8. Talk'
    BY <1>2, StepTalk
  <2> QED
    BY <2>2, <2>6, <2>7, <2>8
<1>3. ASSUME Crash
      PROVE  IInv'
  <2>1. \A q \in Requests : pc'[q] = pc[q] \/ pc'[q] = "dead"
    BY <1>3 DEF Crash, Types
  <2>2. Types'
    BY <1>3 DEF Crash, Types, Ended
  <2>3. "dead" \notin FilePlaces /\ "dead" \notin DiscussionPlaces
    BY DEF FilePlaces, DiscussionPlaces, Creating, Changing, Notifying
  <2>4. Apart'
    BY <1>3, <2>1, <2>3 DEF Apart, Crash
  <2> QED
    BY <1>3, <2>2, <2>4, CrashFiles, CrashTalk
<1>4. ASSUME UNCHANGED vars
      PROVE  IInv'
  <2>1. UNCHANGED <<pc, subject>> /\ UNCHANGED filesVars /\ UNCHANGED discussionVars
    BY <1>4 DEF vars, filesVars, discussionVars
  <2>2. Types' /\ Apart'
    BY <2>1 DEF Types, Apart
  <2>3. Files'
    <3> USE <2>1 DEF filesVars
    <3>1. FilesTypeOK' /\ Unused' /\ Held' /\ Owners' /\ Olds' /\ AvatarFiles' /\ Attached'
      BY DEF Files, FilesTypeOK, Unused, Held, Owners, Olds, AvatarFiles, Attached
    <3>2. ErasedForGood' /\ ListedOnDisk' /\ Accounted'
      BY DEF Files, ErasedForGood, ListedOnDisk, Accounted
    <3> QED
      BY <3>1, <3>2 DEF Files
  <2>4. Talk'
    <3> USE <2>1 DEF discussionVars
    <3>1. DiscussionTypeOK' /\ Blank' /\ Askers' /\ Makers'
      BY DEF Talk, DiscussionTypeOK, Blank, Askers, Makers
    <3>2. Progress' /\ AnsweredMeansNotified' /\ TogglesAddUp'
      BY DEF Talk, Progress, ProgressOf, AnsweredMeansNotified, TogglesAddUp
    <3> QED
      BY <3>1, <3>2 DEF Talk
  <2> QED
    BY <2>2, <2>3, <2>4
<1> QED
  BY <1>1, <1>2, <1>3, <1>4 DEF Next

(* The invariant holds in every behaviour of the two services.             *)
THEOREM Invariance == Spec => []IInv
<1> QED
  BY InitIInv, StepKeepsIInv, PTL DEF Spec

(* Every variable of both services keeps its type, and every handler is at *)
(* one of its steps.                                                       *)
THEOREM Typing == Spec => []TypeOK
<1>1. IInv => TypeOK
  BY DEF IInv, Files, Talk, Types, TypeOK
<1> QED
  BY <1>1, Invariance, PTL

(* A removed attachment (task-attachments.service.ts) is off the disk.     *)
THEOREM Erasure == Spec => []ErasedForGood
<1>1. IInv => ErasedForGood
  BY DEF IInv, Files
<1> QED
  BY <1>1, Invariance, PTL

(* The avatar a profile names (users.service.ts) is on the disk.           *)
THEOREM Avatar == Spec => []AvatarOnDisk
<1>1. IInv => AvatarOnDisk
  BY DEF IInv, Files, AvatarFiles, AvatarOnDisk
<1> QED
  BY <1>1, Invariance, PTL

(* A listed attachment has its file, unless it is being removed or its     *)
(* removal ended half way.                                                 *)
THEOREM Listing == Spec => []ListedOnDisk
<1>1. IInv => ListedOnDisk
  BY DEF IInv, Files
<1> QED
  BY <1>1, Invariance, PTL

(* A file that is neither named by a row nor held by a request was lost to *)
(* one of the failures and races that are counted.                         *)
THEOREM Orphans == Spec => []NoOrphans
<1>1. IInv => NoOrphans
  BY DEF IInv, Files, Accounted, NoOrphans
<1> QED
  BY <1>1, Invariance, PTL

(* Everyone a comment concerns was told of it exactly once when its        *)
(* creation (comments.service.ts) is answered with success.                *)
THEOREM Answering == Spec => []AnsweredMeansNotified
<1>1. IInv => AnsweredMeansNotified
  BY DEF IInv, Talk
<1> QED
  BY <1>1, Invariance, PTL

(* The answers of toggleReaction add up to the reaction there is.          *)
THEOREM Toggling == Spec => []TogglesAddUp
<1>1. IInv => TogglesAddUp
  BY DEF IInv, Talk
<1> QED
  BY <1>1, Invariance, PTL
=============================================================================
