---------------------------- MODULE StoredFiles ----------------------------
(***************************************************************************)
(* The pictures the server keeps: the enrolment photo of a member and the  *)
(* captures of checks.  A picture is three things written at three         *)
(* moments: a row of `attachments', a file under STORAGE_DIR, and the      *)
(* column that points at it (face_templates.photo_path, or the probe path  *)
(* of an attendance row).                                                  *)
(*                                                                         *)
(* A request is a sequence of statements.  What it wrote in its            *)
(* transaction is seen by others when it commits; the file system has no   *)
(* transactions.  A statement waits for a row another request has written; *)
(* one that looks for a row (UPDATE, DELETE) sees committed rows only, an  *)
(* upsert also waits for one that is being inserted.                       *)
(*                                                                         *)
(* One member; what two members write never meets.  The upsert of the      *)
(* template and its audit row are one step: nothing waits between them.    *)
(***************************************************************************)
EXTENDS FiniteSets

CONSTANTS Requests,   \* the connections that may be serving a request
          FacePaths,  \* where facePath puts the photo: by code, group and branch
          ProbePaths, \* where probePath puts a capture: by member and minute
          SentPaths,  \* the probe_path a request may name; the app names none
          NoPath,     \* a null path column
          Faults      \* the operations that may be lost before they commit

ASSUME PathsAssumption == /\ NoPath \notin FacePaths \cup ProbePaths
                          /\ FacePaths \cap ProbePaths = {}
                          /\ SentPaths \subseteq ProbePaths \cup {NoPath}

Paths == FacePaths \cup ProbePaths

VARIABLES template,   \* the row of face_templates: whether it is there, its photo
          enrolled,   \* members.enrollment_status is 'enrolled'
          captures,   \* the probe paths that attendance rows point at
          rows,       \* the committed paths of attachments
          disk,       \* the files
          directory,  \* what facePath gives for the member now
          storing,    \* app_settings.store_face_images
          req         \* what each connection is doing

vars == <<template, enrolled, captures, rows, disk, directory, storing, req>>

NoTemplate == [there |-> FALSE, photo |-> NoPath]

Idle == [op |-> "none", step |-> "idle", path |-> NoPath,
         onTemplate |-> FALSE, onRow |-> FALSE]

Template == [there : BOOLEAN, photo : FacePaths \cup {NoPath}]

Request == [op : {"none", "save", "check", "reset", "delete"},
            step : {"idle", "put", "mark", "photo", "row", "file", "point", "bare",
                    "template", "pending", "unlink", "drop", "clear", "commit"},
            path : Paths \cup {NoPath},
            onTemplate : BOOLEAN,   \* holds the lock of the template row
            onRow : BOOLEAN]        \* holds the lock of the attachments row of its path

TypeOK == /\ template \in Template
          /\ enrolled \in BOOLEAN
          /\ captures \subseteq ProbePaths
          /\ rows \subseteq Paths
          /\ disk \subseteq Paths
          /\ directory \in FacePaths
          /\ storing \in BOOLEAN
          /\ req \in [Requests -> Request]

Init == /\ template = NoTemplate
        /\ enrolled = FALSE
        /\ captures = {}
        /\ rows = {}
        /\ disk = {}
        /\ directory \in FacePaths
        /\ storing = TRUE
        /\ req = [r \in Requests |-> Idle]

---------------------------------------------------------------------------
(* Locks, and the step from one statement to the next.                     *)

At(r, op, step) == req[r].op = op /\ req[r].step = step

Goes(r, step) == req' = [req EXCEPT ![r].step = step]

Ends(r) == req' = [req EXCEPT ![r] = Idle]

TemplateFree(r) == \A o \in Requests \ {r} : ~req[o].onTemplate

RowFree(r, p) == \A o \in Requests \ {r} : ~(req[o].onRow /\ req[o].path = p)

\* A reset holds the members row from its update to its end.
MemberFree(r) ==
  \A o \in Requests \ {r} : ~(req[o].op = "reset" /\ req[o].step \in {"unlink", "drop", "commit"})

---------------------------------------------------------------------------
(* Saving an enrolment: the page puts the template, marks the member       *)
(* enrolled, then sends the photo; three requests one after another.       *)

\* The page offers it to a member it believes is not enrolled.
BeginSave(r) == /\ req[r] = Idle
                /\ ~enrolled
                /\ req' = [req EXCEPT ![r] = [Idle EXCEPT !.op = "save", !.step = "put"]]
                /\ UNCHANGED <<template, enrolled, captures, rows, disk, directory, storing>>

\* The upsert writes the photo path the page sends, which is null.
PutTemplate(r) == /\ At(r, "save", "put")
                  /\ TemplateFree(r)
                  /\ template' = [there |-> TRUE, photo |-> NoPath]
                  /\ Goes(r, "mark")
                  /\ UNCHANGED <<enrolled, captures, rows, disk, directory, storing>>

MarkEnrolled(r) == /\ At(r, "save", "mark")
                   /\ MemberFree(r)
                   /\ enrolled' = TRUE
                   /\ Goes(r, "photo")
                   /\ UNCHANGED <<template, captures, rows, disk, directory, storing>>

EnrolPhoto(r) == /\ At(r, "save", "photo")
                 /\ IF storing THEN req' = [req EXCEPT ![r].step = "row", ![r].path = directory]
                               ELSE Ends(r)
                 /\ UNCHANGED <<template, enrolled, captures, rows, disk, directory, storing>>

\* The page lost an answer: it stops where it is.
GiveUp(r) == /\ req[r].op = "save" /\ req[r].step \in {"put", "mark", "photo"}
             /\ Ends(r)
             /\ UNCHANGED <<template, enrolled, captures, rows, disk, directory, storing>>

\* A check with a capture: recordAttendance has decided, and stores the
\* picture in its own transaction.  Two in one minute share a name.
BeginCheck(r, p) ==
  /\ req[r] = Idle
  /\ req' = [req EXCEPT ![r] = [Idle EXCEPT !.op = "check", !.step = "row", !.path = p]]
  /\ UNCHANGED <<template, enrolled, captures, rows, disk, directory, storing>>

\* A check without one, or while probes are not kept.
BeginBareCheck(r) ==
  /\ req[r] = Idle
  /\ req' = [req EXCEPT ![r] = [Idle EXCEPT !.op = "check", !.step = "bare"]]
  /\ UNCHANGED <<template, enrolled, captures, rows, disk, directory, storing>>

(* FileManager.upload: the row first, then the file.                       *)

WriteRow(r) == /\ req[r].step = "row"
               /\ RowFree(r, req[r].path)
               /\ req' = [req EXCEPT ![r].step = "file", ![r].onRow = TRUE]
               /\ UNCHANGED <<template, enrolled, captures, rows, disk, directory, storing>>

WriteFile(r) == /\ req[r].step = "file"
                /\ disk' = disk \cup {req[r].path}
                /\ Goes(r, IF req[r].op = "save" THEN "point" ELSE "commit")
                /\ UNCHANGED <<template, enrolled, captures, rows, directory, storing>>

\* storeProbe swallows the failure, and the check goes on with the path that
\* was sent; the row stays in its transaction.  For a photo it is an Abort.
ProbeFileFails(r) == /\ At(r, "check", "file")
                     /\ "file" \in Faults
                     /\ Goes(r, "bare")
                     /\ UNCHANGED <<template, enrolled, captures, rows, disk, directory, storing>>

\* No template, no row to update: the photo is kept all the same.
PointAtPhoto(r) == /\ At(r, "save", "point")
                   /\ template.there => TemplateFree(r)
                   /\ req' = [req EXCEPT ![r].step = "commit", ![r].onTemplate = template.there]
                   /\ UNCHANGED <<template, enrolled, captures, rows, disk, directory, storing>>

CommitPhoto(r) == /\ At(r, "save", "commit")
                  /\ rows' = rows \cup {req[r].path}
                  /\ template' = IF req[r].onTemplate
                                 THEN [template EXCEPT !.photo = req[r].path] ELSE template
                  /\ Ends(r)
                  /\ UNCHANGED <<enrolled, captures, disk, directory, storing>>

\* The attendance row points at the capture.
CommitCheck(r) == /\ At(r, "check", "commit")
                  /\ rows' = rows \cup {req[r].path}
                  /\ captures' = captures \cup {req[r].path}
                  /\ Ends(r)
                  /\ UNCHANGED <<template, enrolled, disk, directory, storing>>

\* It points where the request said.
CommitBareCheck(r, sent) ==
  /\ At(r, "check", "bare")
  /\ rows' = rows \cup ({req[r].path} \ {NoPath})
  /\ captures' = captures \cup ({sent} \ {NoPath})
  /\ Ends(r)
  /\ UNCHANGED <<template, enrolled, disk, directory, storing>>

---------------------------------------------------------------------------
(* Clearing an enrolment.  The photo to remove is read before the template *)
(* is locked, and the file goes before the transaction ends.               *)

\* Mutant: the path is read after the template is gone.
BeginResetReadLate(r) ==
  /\ req[r] = Idle
  /\ req' = [req EXCEPT ![r] = [Idle EXCEPT !.op = "reset", !.step = "template"]]
  /\ UNCHANGED <<template, enrolled, captures, rows, disk, directory, storing>>

BeginReset(r) == /\ req[r] = Idle
                 /\ req' = [req EXCEPT ![r] = [Idle EXCEPT !.op = "reset", !.step = "template",
                                                          !.path = template.photo]]
                 /\ UNCHANGED <<template, enrolled, captures, rows, disk, directory, storing>>

DeleteTemplate(r) == /\ At(r, "reset", "template")
                     /\ template.there => TemplateFree(r)
                     /\ req' = [req EXCEPT ![r].step = "pending", ![r].onTemplate = template.there]
                     /\ UNCHANGED <<template, enrolled, captures, rows, disk, directory, storing>>

SetEnrollmentPending(r) ==
  /\ At(r, "reset", "pending")
  /\ MemberFree(r)
  /\ Goes(r, "unlink")
  /\ UNCHANGED <<template, enrolled, captures, rows, disk, directory, storing>>

\* FileManager.delete: the files first; a file that is not there is ignored.
Unlink(r) == /\ req[r].step = "unlink"
             /\ disk' = disk \ {req[r].path}
             /\ Goes(r, "drop")
             /\ UNCHANGED <<template, enrolled, captures, rows, directory, storing>>

DropRow(r) == /\ At(r, "reset", "drop")
              /\ req[r].path \in rows => RowFree(r, req[r].path)
              /\ req' = [req EXCEPT ![r].step = "commit", ![r].onRow = req[r].path \in rows]
              /\ UNCHANGED <<template, enrolled, captures, rows, disk, directory, storing>>

CommitReset(r) == /\ At(r, "reset", "commit")
                  /\ template' = IF req[r].onTemplate THEN NoTemplate ELSE template
                  /\ enrolled' = FALSE
                  /\ rows' = IF req[r].onRow THEN rows \ {req[r].path} ELSE rows
                  /\ Ends(r)
                  /\ UNCHANGED <<captures, disk, directory, storing>>

---------------------------------------------------------------------------
(* Deleting pictures: by staff, who confirm a list the page read before,   *)
(* and by the job that prunes captures older than the retention.  The rows *)
(* go in one transaction, the columns are cleared in another.              *)

BeginDelete(r, p) ==
  /\ req[r] = Idle
  /\ p = template.photo \/ p \in captures
  /\ p \in rows
  /\ req' = [req EXCEPT ![r] = [Idle EXCEPT !.op = "delete", !.step = "unlink", !.path = p]]
  /\ UNCHANGED <<template, enrolled, captures, rows, disk, directory, storing>>

\* How old the row is is left out.
BeginPrune(r, p) ==
  /\ req[r] = Idle
  /\ p \in rows
  /\ req' = [req EXCEPT ![r] = [Idle EXCEPT !.op = "delete", !.step = "unlink", !.path = p]]
  /\ UNCHANGED <<template, enrolled, captures, rows, disk, directory, storing>>

DeleteRow(r) == /\ At(r, "delete", "drop")
                /\ req[r].path \in rows => RowFree(r, req[r].path)
                /\ rows' = rows \ {req[r].path}
                /\ Goes(r, "clear")
                /\ UNCHANGED <<template, enrolled, captures, disk, directory, storing>>

\* Mutant: only the templates are cleared.
ClearTemplatePaths(r) ==
  /\ At(r, "delete", "clear")
  /\ template.photo = req[r].path => TemplateFree(r)
  /\ template' = IF template.photo = req[r].path
                 THEN [template EXCEPT !.photo = NoPath] ELSE template
  /\ Ends(r)
  /\ UNCHANGED <<enrolled, captures, rows, disk, directory, storing>>

ClearObjectPaths(r) ==
  /\ At(r, "delete", "clear")
  /\ template.photo = req[r].path => TemplateFree(r)
  /\ template' = IF template.photo = req[r].path
                 THEN [template EXCEPT !.photo = NoPath] ELSE template
  /\ captures' = captures \ {req[r].path}
  /\ Ends(r)
  /\ UNCHANGED <<enrolled, rows, disk, directory, storing>>

---------------------------------------------------------------------------
(* What ends a request early, and what staff change around it.             *)

\* A transaction is lost before its commit: the server stops, the connection
\* drops, a statement fails, or the database ends a deadlock.  The rows are as
\* before; the file system is not.
Abort(r) ==
  /\ \/ req[r].op \in {"save", "check"} /\ req[r].step \in {"row", "file", "point", "bare", "commit"}
     \/ req[r].op = "reset"
     \/ req[r].op = "delete" /\ req[r].step \in {"unlink", "drop", "clear"}
  /\ req[r].op \in Faults
  /\ Ends(r)
  /\ UNCHANGED <<template, enrolled, captures, rows, disk, directory, storing>>

\* The group or the branch is renamed, or the member gets another code.
MoveDirectory(p) == /\ p # directory
                    /\ directory' = p
                    /\ UNCHANGED <<template, enrolled, captures, rows, disk, storing, req>>

SetStoring(b) == /\ b # storing
                 /\ storing' = b
                 /\ UNCHANGED <<template, enrolled, captures, rows, disk, directory, req>>

Enrolment(r) == \/ BeginSave(r) \/ PutTemplate(r) \/ MarkEnrolled(r) \/ EnrolPhoto(r)
                \/ GiveUp(r) \/ PointAtPhoto(r) \/ CommitPhoto(r)

Capture(r) == \/ \E p \in ProbePaths : BeginCheck(r, p)
              \/ BeginBareCheck(r) \/ ProbeFileFails(r) \/ CommitCheck(r)
              \/ \E p \in SentPaths : CommitBareCheck(r, p)

Reset(r) == \/ BeginReset(r) \/ DeleteTemplate(r) \/ SetEnrollmentPending(r)
            \/ DropRow(r) \/ CommitReset(r)

Removal(r) == \/ \E p \in Paths : BeginDelete(r, p)
              \/ \E p \in ProbePaths : BeginPrune(r, p)
              \/ DeleteRow(r) \/ ClearObjectPaths(r)

Work == \/ \E r \in Requests : \/ Enrolment(r) \/ Capture(r) \/ Reset(r) \/ Removal(r)
                               \/ WriteRow(r) \/ WriteFile(r) \/ Unlink(r)
        \/ \E p \in FacePaths : MoveDirectory(p)
        \/ \E b \in BOOLEAN : SetStoring(b)

Next == Work \/ \E r \in Requests : Abort(r)

Spec == Init /\ [][Next]_vars

---------------------------------------------------------------------------

BeingDeleted(p) == \E r \in Requests : req[r].op = "delete" /\ req[r].step = "clear" /\ req[r].path = p

Pointers == captures \cup ({template.photo} \ {NoPath})
=============================================================================
