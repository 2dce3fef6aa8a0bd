------------------------------- MODULE Files -------------------------------
(***************************************************************************)
(* Uploaded files.  A file is bytes on the server's disk and a record in   *)
(* the database, and no transaction spans the two.  It is shared with the  *)
(* receiver of a message that attaches it, who may be a bot: a reply gives *)
(* the model an image as data, any other file as a copy in the model's own *)
(* store (OpenAI's).  A file is named after the request that uploads it,   *)
(* and nobody knows the name before that is answered.                      *)
(***************************************************************************)
EXTENDS Naturals, FiniteSets

CONSTANTS
  Uploads,
  ToModel,       \* those with reupload_to_openai
  Images,        \* those whose type is an image's
  Attachings,    \* messages that attach a file
  FirstMessages, \* those sent as the first message of a new chat
  Receiver,      \* of such a message
  Assemblings,   \* replies that assemble the attachment of a message
  MessageOf,     \* ... which one
  OpenAI,        \* those whose model is OpenAI's
  Gets,          \* requests for the content of a file
  Deletes,       \* ... and to delete one
  FileOf,        \* the file of a request
  FileUser       \* who sends it

FileRequests == Uploads \cup Attachings \cup Assemblings \cup Gets \cup Deletes

\* A request is of one kind.
ASSUME FilesAssumption ==
  /\ IsFiniteSet(Assemblings)
  /\ Uploads \cap (Attachings \cup Assemblings \cup Gets \cup Deletes) = {}
  /\ Attachings \cap (Assemblings \cup Gets \cup Deletes) = {}
  /\ (Assemblings \cup Gets) \cap Deletes = {}
  /\ Assemblings \cap Gets = {}
  /\ ToModel \cup Images \subseteq Uploads
  /\ FirstMessages \subseteq Attachings
  /\ MessageOf \in [Assemblings -> Attachings]
  /\ OpenAI \subseteq Assemblings
  /\ FileOf \in [FileRequests -> Uploads]
  /\ DOMAIN FileUser = FileRequests
  /\ \A u \in Uploads : FileOf[u] = u
  /\ \A p \in Assemblings : /\ FileOf[p] = FileOf[MessageOf[p]]
                            /\ FileUser[p] = Receiver[MessageOf[p]]

VARIABLES
  disk,     \* the bytes of a file: "none", "part" or "whole"
  record,   \* its row: "none", "live" or "deleted"
  copies,   \* number of copies the model's store has of it
  known,    \* the files whose row names such a copy
  grants,   \* rows of file_access: <<file, user>>
  doing,    \* how far a request is
  seen,     \* what a reply gives the model: "nothing", "image" or "file"
  \* History.
  served,   \* the requests that were given the content of a file
  late      \* those that came when a deletion had been answered

fileVars == <<disk, record, copies, known, grants, doing, seen, served, late>>

FilesInit ==
  /\ disk = [u \in Uploads |-> "none"]
  /\ record = [u \in Uploads |-> "none"]
  /\ copies = [u \in Uploads |-> 0]
  /\ known = {}
  /\ grants = {}
  /\ doing = [r \in FileRequests |-> "new"]
  /\ seen = [p \in Assemblings |-> "nothing"]
  /\ served = {}
  /\ late = {}

\* A request goes on, unless it is not where it should be.
Continues(r, from, to) ==
  /\ doing[r] = from
  /\ doing' = [doing EXCEPT ![r] = to]

\* The file's name is known from the answer to its upload.
Named(r) == doing[FileOf[r]] = "done"

AfterDeletion(r) == \E d \in Deletes : doing[d] = "done" /\ FileOf[d] = FileOf[r]

(***************************************************************************)
(* Upload.                                                                 *)
(***************************************************************************)
CreateFile(u) ==
  /\ Continues(u, "new", "copying")
  /\ disk' = [disk EXCEPT ![u] = "part"]
  /\ UNCHANGED <<record, copies, known, grants, seen, served, late>>

\* Fault: an error of the copy is not looked at.
CopyUnchecked(u) ==
  /\ Continues(u, "copying", IF u \in ToModel THEN "sending" ELSE "recording")
  /\ \E bytes \in {"part", "whole"} : disk' = [disk EXCEPT ![u] = bytes]
  /\ UNCHANGED <<record, copies, known, grants, seen, served, late>>

\* What was copied when the copy fails stays on disk.
CopyFile(u) ==
  /\ \/ /\ Continues(u, "copying", IF u \in ToModel THEN "sending" ELSE "recording")
        /\ disk' = [disk EXCEPT ![u] = "whole"]
     \/ /\ Continues(u, "copying", "failed")
        /\ UNCHANGED disk
  /\ UNCHANGED <<record, copies, known, grants, seen, served, late>>

\* That the model's store does not take it is only logged.
SendToModel(u) ==
  /\ Continues(u, "sending", "recording")
  /\ \/ /\ copies' = [copies EXCEPT ![u] = @ + 1]
        /\ known' = known \cup {u}
     \/ UNCHANGED <<copies, known>>
  /\ UNCHANGED <<disk, record, grants, seen, served, late>>

\* Without a record the file is removed, unless that fails too.
InsertRecord(u) ==
  /\ \/ /\ Continues(u, "recording", "done")
        /\ record' = [record EXCEPT ![u] = "live"]
        /\ UNCHANGED disk
     \/ /\ Continues(u, "recording", "failed")
        /\ \E bytes \in {"none", disk[u]} : disk' = [disk EXCEPT ![u] = bytes]
        /\ UNCHANGED record
  /\ UNCHANGED <<copies, known, grants, seen, served, late>>

(***************************************************************************)
(* Attaching: the receiver is granted access, if there is no grant yet; an *)
(* insert that fails is only logged.  Somebody else's file, or none, makes *)
(* a message fail, but not the creation of a chat.                         *)
(***************************************************************************)
Attach(s) ==
  LET f == FileOf[s]
      found == record[f] = "live"
      allowed == found /\ FileUser[s] = FileUser[f]
  IN
  /\ Named(s)
  /\ \/ /\ allowed \/ s \in FirstMessages
        /\ Continues(s, "new", "done")
        /\ \E granted \in SUBSET {<<f, Receiver[s]>>} :
             /\ ~found => granted = {}
             /\ grants' = grants \cup granted
     \/ /\ ~allowed /\ s \notin FirstMessages
        /\ Continues(s, "new", "refused")
        /\ UNCHANGED grants
  /\ UNCHANGED <<disk, record, copies, known, seen, served, late>>

(***************************************************************************)
(* Reading.                                                                *)
(***************************************************************************)

\* The record is found, and the file the user's own or shared with them.
Found(r) ==
  /\ record[FileOf[r]] = "live"
  /\ \/ FileUser[r] = FileUser[FileOf[r]]
     \/ <<FileOf[r], FileUser[r]>> \in grants

\* The attachment of a first message has no type, so it is not taken for an image.
AsImage(p) == FileOf[p] \in Images /\ MessageOf[p] \notin FirstMessages

\* A request arrives, or a reply comes to an attachment: to an image, to a
\* file for a model that takes it, or to one that it leaves out.
Come(r) ==
  /\ IF r \in Gets THEN Named(r) ELSE doing[MessageOf[r]] = "done"
  /\ Continues(r, "new", CASE r \in Gets -> "find"
                           [] r \notin Gets /\ AsImage(r) -> "find"
                           [] r \in OpenAI /\ ~AsImage(r) -> "ask"
                           [] OTHER -> "skipped")
  /\ late' = IF AfterDeletion(r) THEN late \cup {r} ELSE late
  /\ UNCHANGED <<disk, record, copies, known, grants, seen, served>>

\* The file's info says whether there is a copy, which is then referred to.
AskForCopy(p) ==
  /\ \/ /\ Found(p) /\ FileOf[p] \in known
        /\ Continues(p, "ask", "done")
        /\ seen' = [seen EXCEPT ![p] = "file"]
     \/ /\ Found(p) /\ FileOf[p] \notin known
        /\ Continues(p, "ask", "find")
        /\ UNCHANGED seen
     \/ /\ Continues(p, "ask", "skipped")
        /\ UNCHANGED seen
  /\ UNCHANGED <<disk, record, copies, known, grants, served, late>>

FindRecord(r) ==
  /\ Continues(r, "find", IF Found(r) THEN "serve" ELSE "skipped")
  /\ UNCHANGED <<disk, record, copies, known, grants, seen, served, late>>

\* The file is looked for on disk only now; a deletion may have come between.
Serve(r) ==
  /\ IF disk[FileOf[r]] = "none"
     THEN /\ Continues(r, "serve", "skipped")
          /\ UNCHANGED <<seen, served>>
     ELSE /\ Continues(r, "serve", IF r \in Gets \/ AsImage(r) THEN "done" ELSE "copy")
          /\ served' = served \cup {r}
          /\ seen' = IF r \in Assemblings /\ AsImage(r)
                     THEN [seen EXCEPT ![r] = "image"] ELSE seen
  /\ UNCHANGED <<disk, record, copies, known, grants, late>>

\* The copy needs the file's name, and is not noted in the record.
CopyToModel(p) ==
  /\ \/ /\ Found(p)
        /\ Continues(p, "copy", "done")
        /\ copies' = [copies EXCEPT ![FileOf[p]] = @ + 1]
        /\ seen' = [seen EXCEPT ![p] = "file"]
     \/ /\ Continues(p, "copy", "skipped")
        /\ UNCHANGED <<copies, seen>>
  /\ UNCHANGED <<disk, record, known, grants, served, late>>

(***************************************************************************)
(* Deletion: first from the disk, then from the database.                  *)
(***************************************************************************)
FindOwn(d) ==
  /\ Named(d)
  /\ Continues(d, "new", IF record[FileOf[d]] = "live"
                            /\ FileUser[d] = FileUser[FileOf[d]]
                         THEN "removing" ELSE "refused")
  /\ UNCHANGED <<disk, record, copies, known, grants, seen, served, late>>

\* That it is not there, or cannot be removed, is only logged.
RemoveFromDisk(d) ==
  /\ Continues(d, "removing", "deleting")
  /\ \E bytes \in {"none", disk[FileOf[d]]} :
       disk' = [disk EXCEPT ![FileOf[d]] = bytes]
  /\ UNCHANGED <<record, copies, known, grants, seen, served, late>>

DeleteRecord(d) ==
  /\ \/ /\ Continues(d, "deleting", "done")
        /\ record' = [record EXCEPT ![FileOf[d]] = "deleted"]
     \/ /\ Continues(d, "deleting", "failed")
        /\ UNCHANGED record
  /\ UNCHANGED <<disk, copies, known, grants, seen, served, late>>

Ended == {"done", "failed", "refused", "skipped", "lost"}

\* The process ends: requests and replies under way are lost.
FilesCrash ==
  /\ \E r \in FileRequests : doing[r] \notin Ended \cup {"new"}
  /\ doing' = [r \in FileRequests |->
                 IF doing[r] \in Ended \cup {"new"} THEN doing[r] ELSE "lost"]
  /\ UNCHANGED <<disk, record, copies, known, grants, seen, served, late>>

FilesNext ==
  \/ \E u \in Uploads :
       CreateFile(u) \/ CopyFile(u) \/ SendToModel(u) \/ InsertRecord(u)
  \/ \E s \in Attachings : Attach(s)
  \/ \E r \in Gets \cup Assemblings : Come(r) \/ FindRecord(r) \/ Serve(r)
  \/ \E p \in Assemblings : AskForCopy(p) \/ CopyToModel(p)
  \/ \E d \in Deletes : FindOwn(d) \/ RemoveFromDisk(d) \/ DeleteRecord(d)
  \/ FilesCrash

FilesSpec == FilesInit /\ [][FilesNext]_fileVars

(***************************************************************************)
(* Properties.                                                             *)
(***************************************************************************)

\* Every variable keeps its type; a copy that is known exists, and there are
\* grants only for files that a message attached.
FilesTypeOK ==
  /\ disk \in [Uploads -> {"none", "part", "whole"}]
  /\ record \in [Uploads -> {"none", "live", "deleted"}]
  /\ copies \in [Uploads -> 0 .. 1 + Cardinality(Assemblings)]
  /\ known \subseteq {u \in ToModel : copies[u] > 0}
  /\ grants \subseteq {<<FileOf[s], Receiver[s]>> :
                       s \in {a \in Attachings : doing[a] = "done"}}
  /\ seen \in [Assemblings -> {"nothing", "image", "file"}]
  /\ served \cup late \subseteq Gets \cup Assemblings

\* A record that nobody has begun to delete has its whole file on disk, after
\* failures and crashes at any step of an upload (UploadFile).
RecordHasFile ==
  \A u \in Uploads :
    /\ record[u] = "live"
    /\ \A d \in Deletes : FileOf[d] = u => doing[d] \in {"new", "refused", "removing"}
    => disk[u] = "whole"

\* The owner can delete a file whose deletion was cut off between disk and
\* database: they are only refused when the record is deleted (DeleteFile).
DeletionRepeats ==
  \A d \in Deletes :
    doing[d] = "refused" /\ FileUser[d] = FileUser[FileOf[d]]
      => record[FileOf[d]] = "deleted"

\* Content is only given to the owner and to those a message has shared the
\* file with, and to nobody who asks when a deletion has been answered, even
\* if the file could not be removed from the disk (GetFile, GetFileData).
ServedRightly ==
  /\ \A r \in served : \/ FileUser[r] = FileUser[FileOf[r]]
                       \/ <<FileOf[r], FileUser[r]>> \in grants
  /\ served \cap late = {}

\* The model is given what it can read: an image's bytes or a copy it has, and
\* nothing of a file deleted before; a file whose record names a copy is not
\* copied again (ProcessAttachments).
ModelReads ==
  \A p \in Assemblings :
    /\ seen[p] = "image" => p \in served /\ FileOf[p] \in Images
    /\ seen[p] = "file" => copies[FileOf[p]] > 0
    /\ seen[p] # "nothing" => p \notin late
    /\ FileOf[p] \in known => copies[FileOf[p]] = 1

\* Records, disk and copies agree, for whoever may read a file.
FilesHold ==
  /\ FilesTypeOK
  /\ RecordHasFile
  /\ DeletionRepeats
  /\ ServedRightly
  /\ ModelReads
=============================================================================
