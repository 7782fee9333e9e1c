------------------------- MODULE PhotoProofs -------------------------
(***************************************************************************)
(* What is kept of the photos, from the camera to the disk.                *)
(*                                                                         *)
(* StoredFiles, for any number of requests and paths, whoever meets and    *)
(* whatever is lost: every path kept has its row, unless it was left       *)
(* without in one of three ways; and, whoever meets before and after it, a *)
(* request that runs alone leaves rows, files and columns straight.        *)
(*                                                                         *)
(* PhotoCamera, for any number of calls and any samples: the camera is off *)
(* once the caller has its answer, and the photo follows its proof.        *)
(***************************************************************************)
EXTENDS MCStoredFiles, MCPhotoCamera, TLAPS

Uploading == {"row", "file", "point", "commit"}

\* A save and a reset are of a face, a check is of a probe, and only a save
\* and a check write a picture.
PathFits(q) == /\ q.step \in {"row", "file"} => q.op \in {"save", "check"}
               /\ q.op = "save" /\ q.step \in Uploading => q.path \in FacePaths
               /\ q.op = "reset" => q.path \in FacePaths \cup {NoPath}
               /\ q.op = "check" => q.path \in ProbePaths \/ (q.step = "bare" /\ q.path = NoPath)

\* A photo is kept in a template that is there.
Shapes == /\ template.photo # NoPath => template.there
          /\ \A r \in Requests : PathFits(req[r])

\* Who holds the template holds it alone, and it is there.
TemplateLock == \A r \in Requests : req[r].onTemplate => template.there /\ TemplateFree(r)

\* The inductive invariant.
IInv == TypeOK /\ Shapes /\ TemplateLock /\ PointsAtARow

\* What is lost stays lost while it is in use without a row.
KeepsLost == \A p \in Pointers' \ rows' : p \in lost => p \in lost'

\* Nothing is stored, nothing is asked.
LEMMA Initially == Init => IInv
<1> SUFFICES ASSUME Init PROVE IInv
  OBVIOUS
<1>1. TypeOK
  BY DEF Init, TypeOK, NoTemplate, Idle, Template, Request
<1>2. Shapes /\ TemplateLock
  BY DEF Init, Shapes, PathFits, TemplateLock, NoTemplate, Idle
<1>3. PointsAtARow
  BY DEF Init, PointsAtARow, Pointers, NoTemplate
<1> QED BY <1>1, <1>2, <1>3 DEF IInv

\* A step that only moves one request, and neither to nor from the two
\* places that the invariant looks at.
LEMMA RequestMoves ==
  ASSUME IInv, NEW r \in Requests, NEW to \in Request,
         req' = [req EXCEPT ![r] = to],
         UNCHANGED <<template, captures, rows>>,
         enrolled' \in BOOLEAN, disk' \subseteq Paths, storing' = storing, directory' = directory,
         to.op = "delete" => to.step # "clear",
         ~(req[r].op = "delete" /\ req[r].step = "clear"),
         PathFits(to),
         to.onTemplate => template.there /\ TemplateFree(r),
         KeepsLost
  PROVE  IInv'
<1>0. \A o \in Requests : req'[o] = IF o = r THEN to ELSE req[o]
  BY DEF IInv, TypeOK
<1>1. TypeOK'
  BY DEF IInv, TypeOK
<1>2. Shapes' /\ TemplateLock'
  BY <1>0 DEF IInv, Shapes, PathFits, TemplateLock, TemplateFree
<1>3. PointsAtARow'
  BY <1>0 DEF IInv, PointsAtARow, KeepsLost, Pointers, BeingDeleted
<1> QED BY <1>1, <1>2, <1>3 DEF IInv

\* A request begins.
LEMMA BeginKeeps ==
  ASSUME IInv, NEW r \in Requests, KeepsLost,
         \/ BeginSave(r) \/ BeginReset(r) \/ BeginBareCheck(r)
         \/ \E p \in ProbePaths : BeginCheck(r, p) \/ BeginPrune(r, p)
         \/ \E p \in Paths : BeginDelete(r, p)
  PROVE  IInv'
<1>0. template \in Template /\ req[r] \in Request
  BY DEF IInv, TypeOK
<1>1. req[r] = Idle
  BY DEF BeginSave, BeginReset, BeginCheck, BeginBareCheck, BeginPrune, BeginDelete
<1>2. UNCHANGED <<template, enrolled, captures, rows, disk, directory, storing>>
  BY DEF BeginSave, BeginReset, BeginCheck, BeginBareCheck, BeginPrune, BeginDelete
<1>2a. req[r].op = "none"
  BY <1>1 DEF Idle
<1>3. PICK to \in Request : /\ req' = [req EXCEPT ![r] = to]
                            /\ to.step # "clear" /\ ~to.onTemplate /\ PathFits(to)
  <2>1. CASE BeginSave(r)
    <3> DEFINE to == [Idle EXCEPT !.op = "save", !.step = "put"]
    <3>1. to \in Request /\ to.step # "clear" /\ ~to.onTemplate /\ PathFits(to)
      BY DEF Idle, Request, PathFits, Uploading
    <3> QED BY <2>1, <3>1 DEF BeginSave
  <2>2. CASE \E p \in ProbePaths : BeginCheck(r, p)
    <3> PICK p \in ProbePaths : BeginCheck(r, p)
      BY <2>2
    <3> DEFINE to == [Idle EXCEPT !.op = "check", !.step = "row", !.path = p]
    <3>1. to \in Request /\ to.step # "clear" /\ ~to.onTemplate /\ PathFits(to)
      BY DEF Idle, Request, Paths, PathFits
    <3> QED BY <3>1 DEF BeginCheck
  <2>3. CASE \/ \E p \in ProbePaths : BeginPrune(r, p)
             \/ \E p \in Paths : BeginDelete(r, p)
    <3> PICK p \in Paths : BeginPrune(r, p) \/ BeginDelete(r, p)
      BY <2>3 DEF Paths
    <3> DEFINE to == [Idle EXCEPT !.op = "delete", !.step = "unlink", !.path = p]
    <3>1. to \in Request /\ to.step # "clear" /\ ~to.onTemplate /\ PathFits(to)
      BY DEF Idle, Request, PathFits, Uploading
    <3> QED BY <3>1 DEF BeginPrune, BeginDelete
  <2>4. CASE BeginReset(r)
    <3> DEFINE to == [Idle EXCEPT !.op = "reset", !.step = "template", !.path = template.photo]
    <3>1. to \in Request /\ to.step # "clear" /\ ~to.onTemplate /\ PathFits(to)
      BY <1>0, PathsAssumption DEF Idle, Request, Template, Paths, PathFits
    <3> QED BY <2>4, <3>1 DEF BeginReset
  <2>5. CASE BeginBareCheck(r)
    <3> DEFINE to == [Idle EXCEPT !.op = "check", !.step = "bare"]
    <3>1. to \in Request /\ to.step # "clear" /\ ~to.onTemplate /\ PathFits(to)
      BY DEF Idle, Request, PathFits
    <3> QED BY <2>5, <3>1 DEF BeginBareCheck
  <2> QED BY <2>1, <2>2, <2>3, <2>4, <2>5
<1>4. enrolled' \in BOOLEAN /\ disk' \subseteq Paths
  BY <1>2 DEF IInv, TypeOK
<1> QED BY <1>2, <1>2a, <1>3, <1>4, RequestMoves

\* A request ends, and leaves the rows and the columns as they are.
LEMMA EndKeeps ==
  ASSUME IInv, NEW r \in Requests, KeepsLost, Ends(r),
         UNCHANGED <<template, captures, rows>>,
         enrolled' \in BOOLEAN, disk' \subseteq Paths, storing' = storing, directory' = directory,
         ~(req[r].op = "delete" /\ req[r].step = "clear")
  PROVE  IInv'
<1>1. Idle \in Request /\ Idle.op = "none" /\ Idle.step = "idle" /\ ~Idle.onTemplate /\ PathFits(Idle)
  BY DEF Idle, Request, PathFits
<1>2. req' = [req EXCEPT ![r] = Idle]
  BY DEF Ends
<1> HIDE DEF Idle
<1> QED BY <1>1, <1>2, RequestMoves

\* A request goes to its next step and keeps what it knows.
LEMMA StepKeeps ==
  ASSUME IInv, NEW r \in Requests, KeepsLost,
         NEW step \in {"mark", "photo", "point", "bare", "unlink", "drop", "commit"},
         Goes(r, step),
         UNCHANGED <<template, captures, rows>>,
         enrolled' \in BOOLEAN, disk' \subseteq Paths, storing' = storing, directory' = directory,
         req[r].step # "bare",
         req[r].op = "save" /\ step \in Uploading => req[r].step \in Uploading,
         ~(req[r].op = "delete" /\ req[r].step = "clear")
  PROVE  IInv'
<1> DEFINE to == [req[r] EXCEPT !.step = step]
<1>1. req[r] \in Request
  BY DEF IInv, TypeOK
<1>2. /\ to \in Request /\ to.op = req[r].op /\ to.path = req[r].path
      /\ to.step = step /\ to.onTemplate = req[r].onTemplate
  BY <1>1 DEF Request
<1>3. req' = [req EXCEPT ![r] = to]
  BY DEF Goes
<1>4. /\ req[r].onTemplate => template.there /\ TemplateFree(r)
      /\ PathFits(to)
  BY <1>2 DEF IInv, Shapes, PathFits, TemplateLock
<1> HIDE DEF to
<1> QED BY <1>2, <1>3, <1>4, RequestMoves

\* A request writes a row of attachments in its transaction.
LEMMA RowStepKeeps ==
  ASSUME IInv, NEW r \in Requests, KeepsLost, WriteRow(r) \/ DropRow(r)
  PROVE  IInv'
<1>0. req[r] \in Request
  BY DEF IInv, TypeOK
<1>1. PICK step \in {"file", "commit"}, b \in BOOLEAN :
        /\ req' = [req EXCEPT ![r] = [req[r] EXCEPT !.step = step, !.onRow = b]]
        /\ step = "file" => req[r].step = "row"
  <2>1. CASE WriteRow(r)
    <3>1. /\ req' = [req EXCEPT ![r] = [req[r] EXCEPT !.step = "file", !.onRow = TRUE]]
          /\ req[r].step = "row"
      BY <2>1 DEF WriteRow
    <3> QED BY <3>1
  <2>2. CASE DropRow(r)
    <3>1. req' = [req EXCEPT ![r] = [req[r] EXCEPT !.step = "commit",
                                                   !.onRow = req[r].path \in rows]]
      BY <2>2 DEF DropRow
    <3>2. (req[r].path \in rows) \in BOOLEAN
      OBVIOUS
    <3> QED BY <3>1, <3>2
  <2> QED BY <2>1, <2>2
<1> DEFINE to == [req[r] EXCEPT !.step = step, !.onRow = b]
<1>2. /\ to \in Request /\ to.op = req[r].op /\ to.path = req[r].path
      /\ to.step = step /\ to.onTemplate = req[r].onTemplate
  BY <1>0 DEF Request
<1>3. req[r].step = "row" \/ (req[r].op = "reset" /\ req[r].step = "drop")
  BY DEF WriteRow, DropRow, At
<1>5. UNCHANGED <<template, enrolled, captures, rows, disk, directory, storing>>
  BY DEF WriteRow, DropRow
<1>6. enrolled' \in BOOLEAN /\ disk' \subseteq Paths
  BY <1>5 DEF IInv, TypeOK
<1>7. req' = [req EXCEPT ![r] = to]
  BY <1>1
<1> HIDE DEF to
<1>4. req[r].onTemplate => template.there /\ TemplateFree(r)
  BY <1>3 DEF IInv, TemplateLock
<1>8. PathFits(to)
  BY <1>1, <1>2, <1>3 DEF IInv, Shapes, PathFits, Uploading
<1> QED BY <1>2, <1>3, <1>4, <1>5, <1>6, <1>7, <1>8, RequestMoves

\* The photo is asked for, and the template or nothing is locked for it.
LEMMA PhotoStepKeeps ==
  ASSUME IInv, NEW r \in Requests, KeepsLost, EnrolPhoto(r) \/ PointAtPhoto(r)
  PROVE  IInv'
<1>0. req[r] \in Request /\ template \in Template /\ directory \in FacePaths
      /\ FacePaths \subseteq Paths
  BY DEF IInv, TypeOK, Paths
<1>1. req[r].op = "save"
  BY DEF EnrolPhoto, PointAtPhoto, At
<1>2. UNCHANGED <<template, enrolled, captures, rows, disk, directory, storing>>
  BY DEF EnrolPhoto, PointAtPhoto
<1>3. enrolled' \in BOOLEAN /\ disk' \subseteq Paths
  BY <1>2 DEF IInv, TypeOK
<1>4. CASE Ends(r)
  BY <1>1, <1>2, <1>3, <1>4, EndKeeps
<1>5. CASE ~Ends(r)
  <2>1. PICK to \in Request : /\ req' = [req EXCEPT ![r] = to] /\ to.op = "save" /\ PathFits(to)
                              /\ to.onTemplate => template.there /\ TemplateFree(r)
    <3>1. CASE EnrolPhoto(r)
      <4> DEFINE to == [req[r] EXCEPT !.step = "row", !.path = directory]
      <4>1. to \in Request /\ to.op = "save" /\ PathFits(to)
        BY <1>0, <1>1 DEF Request, PathFits
      <4>2. to.onTemplate => template.there /\ TemplateFree(r)
        BY <1>0 DEF Request, IInv, TemplateLock
      <4> QED BY <1>5, <3>1, <4>1, <4>2 DEF EnrolPhoto
    <3>2. CASE PointAtPhoto(r)
      <4> DEFINE to == [req[r] EXCEPT !.step = "commit", !.onTemplate = template.there]
      <4>1. to \in Request /\ to.op = "save" /\ to.path = req[r].path
        BY <1>0, <1>1 DEF Request, Template
      <4>2. to.onTemplate => template.there /\ TemplateFree(r)
        BY <1>0, <3>2 DEF Request, PointAtPhoto
      <4>3. PathFits(to)
        BY <3>2, <4>1 DEF IInv, Shapes, PathFits, PointAtPhoto, At, Uploading
      <4> QED BY <3>2, <4>1, <4>2, <4>3 DEF PointAtPhoto
    <3> QED BY <3>1, <3>2
  <2> QED BY <1>1, <1>2, <1>3, <2>1, RequestMoves
<1> QED BY <1>4, <1>5

\* A reset locks the template it has read, if there is one.
LEMMA DeleteTemplateKeeps ==
  ASSUME IInv, NEW r \in Requests, KeepsLost, DeleteTemplate(r)
  PROVE  IInv'
<1> DEFINE to == [req[r] EXCEPT !.step = "pending", !.onTemplate = template.there]
<1>0. req[r] \in Request /\ template \in Template
  BY DEF IInv, TypeOK
<1>1. /\ to \in Request /\ to.op = "reset" /\ to.path = req[r].path
      /\ to.step = "pending" /\ to.onTemplate = template.there
  BY <1>0 DEF Request, Template, DeleteTemplate, At
<1>2. PathFits(to) /\ (template.there => TemplateFree(r))
  BY <1>1 DEF IInv, Shapes, PathFits, DeleteTemplate, At
<1>3. /\ req' = [req EXCEPT ![r] = to] /\ req[r].op = "reset"
      /\ UNCHANGED <<template, enrolled, captures, rows, disk, directory, storing>>
  BY DEF DeleteTemplate, At
<1>4. enrolled' \in BOOLEAN /\ disk' \subseteq Paths
  BY <1>3 DEF IInv, TypeOK
<1> HIDE DEF to
<1> QED BY <1>1, <1>2, <1>3, <1>4, RequestMoves

\* A commit that adds the row of a path, and points at it.
LEMMA CommitKeeps ==
  ASSUME IInv, NEW r \in Requests, KeepsLost, CommitPhoto(r) \/ CommitCheck(r)
  PROVE  IInv'
<1>0. /\ req[r] \in Request /\ template \in Template
      /\ req[r].op \in {"save", "check"} /\ Ends(r)
      /\ rows' = rows \cup {req[r].path}
      /\ UNCHANGED <<enrolled, disk, directory, storing>>
  BY DEF IInv, TypeOK, CommitPhoto, CommitCheck, At
<1>1. \A o \in Requests : req'[o] = IF o = r THEN Idle ELSE req[o]
  BY <1>0 DEF IInv, TypeOK, Ends
<1>2. \/ /\ CommitPhoto(r) /\ req[r].path \in FacePaths /\ captures' = captures
         /\ template' = IF req[r].onTemplate THEN [template EXCEPT !.photo = req[r].path] ELSE template
      \/ /\ CommitCheck(r) /\ req[r].path \in ProbePaths /\ template' = template
         /\ captures' \in {captures, captures \cup {req[r].path}}
  BY DEF IInv, Shapes, PathFits, Uploading, CommitPhoto, CommitCheck, At
<1>3. /\ template' \in Template /\ template'.there = template.there
      /\ template'.photo \in {template.photo, req[r].path}
      /\ template'.photo # template.photo => template.there
  BY <1>0, <1>2 DEF Template, IInv, TemplateLock
<1>4. Idle \in Request /\ Idle.op = "none" /\ ~Idle.onTemplate /\ PathFits(Idle)
  BY DEF Idle, Request, PathFits
<1>5. TypeOK'
  BY <1>0, <1>1, <1>2, <1>3, <1>4 DEF IInv, TypeOK, Ends, Paths
<1>6. Shapes' /\ TemplateLock'
  BY <1>1, <1>3, <1>4 DEF IInv, Shapes, PathFits, TemplateLock, TemplateFree
<1>7. PointsAtARow'
  BY <1>0, <1>1, <1>2, <1>3 DEF IInv, PointsAtARow, KeepsLost, Pointers, BeingDeleted
<1> QED BY <1>5, <1>6, <1>7 DEF IInv

\* The template is put, with no photo.
LEMMA PutKeeps ==
  ASSUME IInv, NEW r \in Requests, KeepsLost, PutTemplate(r)
  PROVE  IInv'
<1> DEFINE to == [req[r] EXCEPT !.step = "mark"]
<1>0. /\ req[r] \in Request /\ req[r].op = "save" /\ req[r].step = "put" /\ TemplateFree(r)
      /\ UNCHANGED <<enrolled, captures, rows, disk, directory, storing>>
      /\ req' = [req EXCEPT ![r] = to]
  BY DEF IInv, TypeOK, PutTemplate, At, Goes
<1>1. template' \in Template /\ template'.there /\ template'.photo = NoPath
  BY DEF PutTemplate, Template
<1>2. /\ to \in Request /\ to.op = "save" /\ to.step = "mark" /\ to.path = req[r].path
      /\ to.onTemplate = req[r].onTemplate
  BY <1>0 DEF Request
<1> HIDE DEF to
<1>3. \A o \in Requests : req'[o] = IF o = r THEN to ELSE req[o]
  BY <1>0 DEF IInv, TypeOK
<1>4. TypeOK'
  BY <1>0, <1>1, <1>2 DEF IInv, TypeOK
<1>5. Shapes' /\ TemplateLock'
  BY <1>0, <1>1, <1>2, <1>3
     DEF IInv, Shapes, PathFits, TemplateLock, TemplateFree, Uploading
<1>6. PointsAtARow'
  BY <1>0, <1>1, <1>2, <1>3 DEF IInv, PointsAtARow, KeepsLost, Pointers, BeingDeleted
<1> QED BY <1>4, <1>5, <1>6 DEF IInv

\* A check that stored no picture points at the path that was sent, if at any.
LEMMA BareCommitKeeps ==
  ASSUME IInv, NEW r \in Requests, KeepsLost, NEW sent \in SentPaths, CommitBareCheck(r, sent),
         \A p \in Pointers' \ rows' : Names(r, p) => p \in lost'
  PROVE  IInv'
<1>0. /\ req[r] \in Request /\ req[r].op = "check" /\ Ends(r)
      /\ rows' = rows \cup ({req[r].path} \ {NoPath})
      /\ captures' = captures \cup ({sent} \ {NoPath})
      /\ UNCHANGED <<template, enrolled, disk, directory, storing>>
  BY DEF IInv, TypeOK, CommitBareCheck, At
<1>1. \A o \in Requests : req'[o] = IF o = r THEN Idle ELSE req[o]
  BY <1>0 DEF IInv, TypeOK, Ends
<1>2. Idle \in Request /\ Idle.op = "none" /\ ~Idle.onTemplate /\ PathFits(Idle)
  BY DEF Idle, Request, PathFits
<1>3. TypeOK'
  <2>1. rows' \subseteq Paths /\ captures' \subseteq ProbePaths
    BY <1>0, PathsAssumption DEF IInv, TypeOK, Request
  <2> QED BY <1>0, <1>2, <2>1 DEF IInv, TypeOK, Ends
<1>4. Shapes' /\ TemplateLock'
  BY <1>0, <1>1, <1>2 DEF IInv, Shapes, PathFits, TemplateLock, TemplateFree
<1>5. PointsAtARow'
  <2>1. \A p \in Pointers' : p \in Pointers \/ (p = sent /\ p # NoPath)
    BY <1>0 DEF Pointers
  <2>2. sent # NoPath => Names(r, sent)
    BY DEF Names
  <2>3. \A p : BeingDeleted(p) => BeingDeleted(p)'
    BY <1>0, <1>1 DEF BeingDeleted
  <2> QED BY <1>0, <2>1, <2>2, <2>3 DEF IInv, PointsAtARow, KeepsLost
<1> QED BY <1>3, <1>4, <1>5 DEF IInv

\* A reset that removes a row had read its path in the template it removes, or
\* was overtaken.
LEMMA ResetKeeps ==
  ASSUME IInv, NEW r \in Requests, KeepsLost, CommitReset(r),
         \A p \in Pointers' \ rows' : req[r].path = p /\ ResetOvertaken(r) => p \in lost'
  PROVE  IInv'
<1>0. /\ req[r] \in Request /\ req[r].op = "reset" /\ req[r].step = "commit" /\ Ends(r)
      /\ template' = IF req[r].onTemplate THEN NoTemplate ELSE template
      /\ rows' = IF req[r].onRow THEN rows \ {req[r].path} ELSE rows
      /\ enrolled' = FALSE
      /\ UNCHANGED <<captures, disk, directory, storing>>
  BY DEF IInv, TypeOK, CommitReset, At
<1>1. \A o \in Requests : req'[o] = IF o = r THEN Idle ELSE req[o]
  BY <1>0 DEF IInv, TypeOK, Ends
<1>2. /\ req[r].path \in FacePaths \cup {NoPath}
      /\ req[r].onTemplate => TemplateFree(r)
  BY <1>0 DEF IInv, Shapes, PathFits, TemplateLock
<1>3. /\ Idle \in Request /\ Idle.op = "none" /\ ~Idle.onTemplate /\ PathFits(Idle)
      /\ NoTemplate \in Template /\ ~NoTemplate.there /\ NoTemplate.photo = NoPath
  BY DEF Idle, Request, PathFits, NoTemplate, Template
<1>4. TypeOK'
  BY <1>0, <1>3 DEF IInv, TypeOK, Ends
<1>5. Shapes' /\ TemplateLock'
  BY <1>0, <1>1, <1>2, <1>3
     DEF IInv, Shapes, PathFits, TemplateLock, TemplateFree
<1>6. PointsAtARow'
  <2>1. captures \subseteq ProbePaths /\ template \in Template
    BY DEF IInv, TypeOK
  <2>2. \A p \in Pointers' : p \in Pointers
    BY <1>0, <1>3 DEF Pointers
  <2>3. \A p : BeingDeleted(p) => BeingDeleted(p)'
    BY <1>0, <1>1 DEF BeingDeleted
  <2>4. SUFFICES ASSUME NEW p \in Pointers', p \notin rows', p \in rows
                 PROVE  p \in lost'
    BY <2>2, <2>3 DEF IInv, PointsAtARow, KeepsLost
  <2>5. p = req[r].path /\ req[r].onRow
    BY <1>0, <2>4
  <2>6. ~req[r].onTemplate
    <3> SUFFICES ASSUME req[r].onTemplate PROVE FALSE
      OBVIOUS
    <3>1. Pointers' = captures
      BY <1>0, <1>3 DEF Pointers
    <3> QED BY <1>2, <2>1, <2>4, <2>5, <3>1, PathsAssumption
  <2>7. ResetOvertaken(r)
    BY <2>5, <2>6 DEF ResetOvertaken
  <2> QED BY <2>4, <2>5, <2>7
<1> QED BY <1>4, <1>5, <1>6 DEF IInv

\* The two transactions of a deletion.
LEMMA DeletionKeeps ==
  ASSUME IInv, NEW r \in Requests, KeepsLost, DeleteRow(r) \/ ClearObjectPaths(r)
  PROVE  IInv'
<1>0. req[r] \in Request /\ template \in Template /\ captures \subseteq ProbePaths
  BY DEF IInv, TypeOK
<1>1. CASE DeleteRow(r)
  <2> DEFINE to == [req[r] EXCEPT !.step = "clear"]
  <2>1. /\ req[r].op = "delete" /\ rows' = rows \ {req[r].path}
        /\ req' = [req EXCEPT ![r] = to]
        /\ UNCHANGED <<template, enrolled, captures, disk, directory, storing>>
    BY <1>1 DEF DeleteRow, At, Goes
  <2>2. /\ to \in Request /\ to.op = "delete" /\ to.step = "clear" /\ to.path = req[r].path
        /\ to.onTemplate = req[r].onTemplate
    BY <1>0, <2>1 DEF Request
  <2> HIDE DEF to
  <2>3. \A o \in Requests : req'[o] = IF o = r THEN to ELSE req[o]
    BY <2>1 DEF IInv, TypeOK
  <2>4. TypeOK'
    BY <2>1, <2>2 DEF IInv, TypeOK
  <2>5. Shapes' /\ TemplateLock'
    BY <2>1, <2>2, <2>3 DEF IInv, Shapes, PathFits, TemplateLock, TemplateFree
  <2>6. PointsAtARow'
    BY <2>1, <2>2, <2>3 DEF IInv, PointsAtARow, KeepsLost, Pointers, BeingDeleted
  <2> QED BY <2>4, <2>5, <2>6 DEF IInv
<1>2. CASE ClearObjectPaths(r)
  <2>1. /\ Ends(r) /\ captures' = captures \ {req[r].path}
        /\ template' = IF template.photo = req[r].path
                       THEN [template EXCEPT !.photo = NoPath] ELSE template
        /\ UNCHANGED <<enrolled, rows, disk, directory, storing>>
    BY <1>2 DEF ClearObjectPaths
  <2>2. /\ template' \in Template /\ template'.there = template.there
        /\ template'.photo \in {template.photo, NoPath}
        /\ template'.photo # req[r].path \/ template'.photo = NoPath
    BY <1>0, <2>1 DEF Template
  <2>3. Idle \in Request /\ Idle.op = "none" /\ ~Idle.onTemplate /\ PathFits(Idle)
    BY DEF Idle, Request, PathFits
  <2>4. \A o \in Requests : req'[o] = IF o = r THEN Idle ELSE req[o]
    BY <2>1 DEF IInv, TypeOK, Ends
  <2>5. TypeOK'
    BY <2>1, <2>2, <2>3 DEF IInv, TypeOK, Ends
  <2>6. Shapes' /\ TemplateLock'
    BY <2>2, <2>3, <2>4 DEF IInv, Shapes, PathFits, TemplateLock, TemplateFree
  <2>7. PointsAtARow'
    BY <2>1, <2>2, <2>4 DEF IInv, PointsAtARow, KeepsLost, Pointers, BeingDeleted
  <2> QED BY <2>5, <2>6, <2>7 DEF IInv
<1> QED BY <1>1, <1>2

\* The steps of one request, apart from the commits.
LEMMA OtherStepsKeep ==
  ASSUME IInv, NEW r \in Requests, KeepsLost,
         \/ MarkEnrolled(r) \/ WriteFile(r) \/ ProbeFileFails(r)
         \/ SetEnrollmentPending(r) \/ Unlink(r)
  PROVE  IInv'
<1>0. req[r] \in Request
  BY DEF IInv, TypeOK
<1>1. CASE MarkEnrolled(r)
  <2>1. Goes(r, "photo") /\ req[r].op = "save" /\ req[r].step = "mark" /\ enrolled' = TRUE
        /\ UNCHANGED <<template, captures, rows, disk, directory, storing>>
    BY <1>1 DEF MarkEnrolled, At
  <2>2. disk' \subseteq Paths
    BY <2>1 DEF IInv, TypeOK
  <2> QED BY <2>1, <2>2, StepKeeps DEF Uploading
<1>2. CASE WriteFile(r)
  <2>1. PICK step \in {"point", "commit"} :
          /\ Goes(r, step) /\ req[r].step = "file" /\ disk' = disk \cup {req[r].path}
          /\ UNCHANGED <<template, enrolled, captures, rows, directory, storing>>
    BY <1>2 DEF WriteFile
  <2>2. enrolled' \in BOOLEAN
    BY <2>1 DEF IInv, TypeOK
  <2>3. req[r].op \in {"save", "check"}
    BY <2>1 DEF IInv, Shapes, PathFits
  <2>4. req[r].path \in Paths
    BY <2>1, <2>3 DEF IInv, Shapes, PathFits, Uploading, Paths
  <2>5. disk' \subseteq Paths
    BY <2>1, <2>4 DEF IInv, TypeOK
  <2> QED BY <2>1, <2>2, <2>5, StepKeeps DEF Uploading
<1>3. CASE ProbeFileFails(r)
  <2>1. Goes(r, "bare") /\ req[r].op = "check" /\ req[r].step = "file"
        /\ UNCHANGED <<template, enrolled, captures, rows, disk, directory, storing>>
    BY <1>3 DEF ProbeFileFails, At
  <2>2. disk' \subseteq Paths /\ enrolled' \in BOOLEAN
    BY <2>1 DEF IInv, TypeOK
  <2> QED BY <2>1, <2>2, StepKeeps
<1>4. CASE SetEnrollmentPending(r)
  <2>1. Goes(r, "unlink") /\ req[r].op = "reset" /\ req[r].step = "pending"
        /\ UNCHANGED <<template, enrolled, captures, rows, disk, directory, storing>>
    BY <1>4 DEF SetEnrollmentPending, At
  <2>2. disk' \subseteq Paths /\ enrolled' \in BOOLEAN
    BY <2>1 DEF IInv, TypeOK
  <2> QED BY <2>1, <2>2, StepKeeps
<1>5. CASE Unlink(r)
  <2>1. Goes(r, "drop") /\ req[r].step = "unlink" /\ disk' = disk \ {req[r].path}
        /\ UNCHANGED <<template, enrolled, captures, rows, directory, storing>>
    BY <1>5 DEF Unlink
  <2>2. disk' \subseteq Paths /\ enrolled' \in BOOLEAN
    BY <2>1 DEF IInv, TypeOK
  <2> QED BY <2>1, <2>2, StepKeeps DEF Uploading
<1> QED BY <1>1, <1>2, <1>3, <1>4, <1>5

\* What ends a request early changes no row; a deletion that is lost between its two
\* transactions leaves what it was to clear.
LEMMA StopsKeep ==
  ASSUME IInv, NEW r \in Requests, KeepsLost, GiveUp(r) \/ Abort(r),
         \A p \in Pointers' \ rows' : Abort(r) /\ p \in TornBy(r) => p \in lost'
  PROVE  IInv'
<1>1. Ends(r) /\ UNCHANGED <<template, enrolled, captures, rows, disk, directory, storing>>
  BY DEF GiveUp, Abort
<1>2. enrolled' \in BOOLEAN /\ disk' \subseteq Paths
  BY <1>1 DEF IInv, TypeOK
<1>3. CASE ~At(r, "delete", "clear")
  BY <1>1, <1>2, <1>3, EndKeeps DEF At
<1>4. CASE At(r, "delete", "clear")
  <2>1. Abort(r) /\ TornBy(r) = {req[r].path}
    BY <1>4 DEF GiveUp, TornBy, At
  <2>2. \A o \in Requests : req'[o] = IF o = r THEN Idle ELSE req[o]
    BY <1>1 DEF IInv, TypeOK, Ends
  <2>3. Idle \in Request /\ Idle.op = "none" /\ ~Idle.onTemplate /\ PathFits(Idle)
    BY DEF Idle, Request, PathFits
  <2>4. TypeOK' /\ Shapes' /\ TemplateLock'
    BY <1>1, <2>2, <2>3 DEF IInv, TypeOK, Ends, Shapes, PathFits, TemplateLock, TemplateFree
  <2>5. \A p : BeingDeleted(p) => BeingDeleted(p)' \/ p = req[r].path
    BY <2>2 DEF BeingDeleted
  <2>6. Pointers' = Pointers
    BY <1>1 DEF Pointers
  <2>7. PointsAtARow'
    BY <1>1, <2>1, <2>5, <2>6 DEF IInv, PointsAtARow, KeepsLost
  <2> QED BY <2>4, <2>7 DEF IInv
<1> QED BY <1>3, <1>4

\* What RememberLost remembers, whatever is torn.
LEMMA Remembered ==
  ASSUME NEW torn, RememberLost(torn)
  PROVE  /\ KeepsLost
         /\ \A p \in Pointers' \ rows' : p \in torn => p \in lost'
         /\ \A r \in Requests, p \in Pointers' \ rows' :
              (req[r].path = p /\ ResetOvertaken(r)) \/ Names(r, p) => p \in lost'
BY DEF RememberLost, KeepsLost

LEMMA Inductive ==
  ASSUME IInv, BooksNext
  PROVE  IInv'
<1>1. CASE Work /\ RememberLost({})
  <2>0. /\ KeepsLost
        /\ \A r \in Requests, p \in Pointers' \ rows' :
             (req[r].path = p /\ ResetOvertaken(r)) \/ Names(r, p) => p \in lost'
    BY <1>1, Remembered
  <2>1. ASSUME NEW r \in Requests, Enrolment(r) PROVE IInv'
    <3>1. ASSUME GiveUp(r) PROVE IInv'
      <4>1. ~Abort(r) \/ TornBy(r) = {}
        BY <3>1 DEF GiveUp, TornBy, At
      <4> QED BY <2>0, <3>1, <4>1, StopsKeep
    <3> QED BY <2>0, <2>1, <3>1, BeginKeeps, PutKeeps, OtherStepsKeep, PhotoStepKeeps, CommitKeeps DEF Enrolment
  <2>2. ASSUME NEW r \in Requests, Capture(r) PROVE IInv'
    BY <2>0, <2>2, BeginKeeps, OtherStepsKeep, CommitKeeps, BareCommitKeeps DEF Capture
  <2>3. ASSUME NEW r \in Requests, Reset(r) PROVE IInv'
    BY <2>0, <2>3, BeginKeeps, DeleteTemplateKeeps, OtherStepsKeep, RowStepKeeps, ResetKeeps DEF Reset
  <2>4. ASSUME NEW r \in Requests, Removal(r) PROVE IInv'
    BY <2>0, <2>4, BeginKeeps, DeletionKeeps DEF Removal
  <2>5. ASSUME NEW r \in Requests, WriteRow(r) \/ WriteFile(r) \/ Unlink(r) PROVE IInv'
    BY <2>0, <2>5, RowStepKeeps, OtherStepsKeep
  <2>6. ASSUME \/ \E p \in FacePaths : MoveDirectory(p)
               \/ \E b \in BOOLEAN : SetStoring(b)
        PROVE  IInv'
    <3>1. /\ UNCHANGED <<template, enrolled, captures, rows, disk, req>>
          /\ directory' \in FacePaths /\ storing' \in BOOLEAN
      BY <2>6 DEF MoveDirectory, SetStoring, IInv, TypeOK
    <3> QED BY <2>0, <3>1 DEF IInv, TypeOK, Shapes, TemplateLock, TemplateFree,
                              PointsAtARow, KeepsLost, Pointers, BeingDeleted
  <2> QED BY <1>1, <2>1, <2>2, <2>3, <2>4, <2>5, <2>6 DEF Work
<1>2. ASSUME NEW r \in Requests, Abort(r), RememberLost(TornBy(r)) PROVE IInv'
  BY <1>2, Remembered, StopsKeep
<1> QED BY <1>1, <1>2 DEF BooksNext

\* A stutter changes nothing.
LEMMA Stutters ==
  ASSUME IInv, UNCHANGED allVars
  PROVE  IInv'
BY DEF allVars, vars, IInv, TypeOK, Shapes, TemplateLock, TemplateFree,
       PointsAtARow, Pointers, BeingDeleted

LEMMA Invariance == BooksSpec => []IInv
<1>1. MCInit => IInv
  BY Initially DEF MCInit
<1>2. IInv /\ [BooksNext]_allVars => IInv'
  BY Inductive, Stutters
<1> QED BY <1>1, <1>2, PTL DEF BooksSpec

(* Every step leaves the books and the requests well typed.                *)
THEOREM TypeCorrect == BooksSpec => []TypeOK
<1>1. IInv => TypeOK
  BY DEF IInv
<1> QED BY <1>1, Invariance, PTL

(* However many requests meet and whichever are lost, a path kept in a     *)
(* template or in an attendance row has its row of attachments, or is      *)
(* about to be cleared, unless a deletion was lost between its two         *)
(* transactions, a reset was overtaken by another, or a request named the  *)
(* path (face.service.ts, storage.service.ts, attendance.service.ts).      *)
THEOREM PathsHaveRows == BooksSpec => []PointsAtARow
<1>1. IInv => PointsAtARow
  BY DEF IInv
<1> QED BY <1>1, Invariance, PTL

-----------------------------------------------------------------------------
(* A request that runs alone *)

StepsOf(op) ==
  CASE op = "save"   -> {"put", "mark", "photo", "row", "file", "point", "commit"}
    [] op = "check"  -> {"row", "file", "commit", "bare"}
    [] op = "reset"  -> {"template", "pending", "unlink", "drop", "commit"}
    [] op = "delete" -> {"unlink", "drop", "clear"}
    [] OTHER         -> {}

\* What the books say while q runs alone: the rows are what the columns point at
\* until the last transaction of a deletion, and a file is there before its row
\* commits or gone before its row goes.
Kept(q) ==
  /\ enrolled => template.there
  /\ template.photo # NoPath => enrolled
  /\ q.step \in StepsOf(q.op)
  /\ rows = IF q.step = "clear" THEN Pointers \ {q.path} ELSE Pointers
  /\ disk = IF q.op \in {"save", "check"} /\ q.step \in {"point", "commit"} THEN rows \cup {q.path}
            ELSE IF q.op \in {"reset", "delete"} /\ q.step \in {"drop", "clear", "commit"} THEN rows \ {q.path}
            ELSE rows
  /\ q.step = "bare" => q.path = NoPath
  /\ q.op = "save" =>
       /\ template.photo = NoPath
       /\ q.step # "put" => template.there
       /\ q.step \notin {"put", "mark"} => enrolled
       /\ q.step = "commit" => q.onTemplate
  /\ q.op = "reset" =>
       /\ q.path = template.photo
       /\ q.step # "template" => q.onTemplate = template.there
       /\ q.step = "commit" => q.onRow = (q.path \in rows)

Accounted == \A r \in alone : /\ r \in Requests /\ req[r] # Idle
                              /\ \A o \in Requests \ {r} : req[o] = Idle
                              /\ Kept(req[r])

Steady == TypeOK /\ \A r \in Requests : PathFits(req[r])

\* The type and the kind of path of every request, whatever is lost and whoever meets.
LEMMA SteadyKept ==
  ASSUME Steady, [Next]_vars
  PROVE  Steady'
<1>0. /\ template \in Template /\ enrolled \in BOOLEAN /\ captures \subseteq ProbePaths /\ rows \subseteq Paths
      /\ disk \subseteq Paths /\ directory \in FacePaths /\ storing \in BOOLEAN /\ req \in [Requests -> Request]
      /\ \A r \in Requests : PathFits(req[r])
  BY DEF Steady, TypeOK
<1>1. ASSUME NEW r \in Requests, NEW to, to \in Request, PathFits(to), req' = [req EXCEPT ![r] = to]
      PROVE  req' \in [Requests -> Request] /\ \A o \in Requests : PathFits(req'[o])
  BY <1>0, <1>1
<1>2. Idle \in Request /\ PathFits(Idle)
  BY DEF Idle, Request, PathFits
<1>3. ASSUME NEW r \in Requests, Enrolment(r) \/ Capture(r) \/ Reset(r) \/ Removal(r)
                                 \/ WriteRow(r) \/ WriteFile(r) \/ Unlink(r) \/ Abort(r)
      PROVE  \E to \in Request : PathFits(to) /\ req' = [req EXCEPT ![r] = to]
  <2>0. req[r] \in Request /\ PathFits(req[r])
    BY <1>0
  <2>1. CASE Ends(r)
    BY <1>2, <2>1 DEF Ends
  <2>2. CASE BeginBareCheck(r)
    <3>1. [Idle EXCEPT !.op = "check", !.step = "bare"] \in Request
          /\ PathFits([Idle EXCEPT !.op = "check", !.step = "bare"])
      BY DEF Idle, Request, PathFits, Uploading
    <3> QED BY <2>2, <3>1 DEF BeginBareCheck
  <2>3. CASE BeginSave(r)
    <3>1. [Idle EXCEPT !.op = "save", !.step = "put"] \in Request
          /\ PathFits([Idle EXCEPT !.op = "save", !.step = "put"])
      BY DEF Idle, Request, PathFits, Uploading
    <3> QED BY <2>3, <3>1 DEF BeginSave
  <2>4. ASSUME NEW p \in ProbePaths, BeginCheck(r, p)
        PROVE  \E x \in Request : PathFits(x) /\ req' = [req EXCEPT ![r] = x]
    <3>1. [Idle EXCEPT !.op = "check", !.step = "row", !.path = p] \in Request
          /\ PathFits([Idle EXCEPT !.op = "check", !.step = "row", !.path = p])
      BY DEF Idle, Request, PathFits, Uploading, Paths
    <3> QED BY <2>4, <3>1 DEF BeginCheck
  <2>5. ASSUME NEW p \in Paths, BeginDelete(r, p) \/ BeginPrune(r, p)
        PROVE  \E x \in Request : PathFits(x) /\ req' = [req EXCEPT ![r] = x]
    <3>1. [Idle EXCEPT !.op = "delete", !.step = "unlink", !.path = p] \in Request
          /\ PathFits([Idle EXCEPT !.op = "delete", !.step = "unlink", !.path = p])
      BY DEF Idle, Request, PathFits, Uploading, Paths
    <3> QED BY <2>5, <3>1 DEF BeginDelete, BeginPrune
  <2>6. CASE BeginReset(r)
    <3>1. [Idle EXCEPT !.op = "reset", !.step = "template", !.path = template.photo] \in Request
          /\ PathFits([Idle EXCEPT !.op = "reset", !.step = "template", !.path = template.photo])
      BY <1>0 DEF Idle, Request, PathFits, Uploading, Paths, Template
    <3> QED BY <2>6, <3>1 DEF BeginReset
  <2>7. CASE PutTemplate(r) \/ MarkEnrolled(r) \/ ProbeFileFails(r) \/ SetEnrollmentPending(r)
             \/ Unlink(r) \/ DeleteRow(r)
    <3>1. PICK s \in {"mark", "photo", "bare", "unlink", "drop", "clear"} :
            Goes(r, s) /\ req[r].step # "bare"
      BY <2>7 DEF PutTemplate, MarkEnrolled, ProbeFileFails, SetEnrollmentPending, Unlink, DeleteRow, At
    <3>2. [req[r] EXCEPT !.step = s] \in Request /\ PathFits([req[r] EXCEPT !.step = s])
      BY <2>0, <3>1 DEF Request, PathFits, Uploading
    <3> QED BY <3>1, <3>2 DEF Goes
  <2>8. CASE WriteFile(r)
    <3>1. PICK s \in {"point", "commit"} : Goes(r, s) /\ req[r].step = "file"
      BY <2>8 DEF WriteFile
    <3>2. [req[r] EXCEPT !.step = s] \in Request /\ PathFits([req[r] EXCEPT !.step = s])
      BY <2>0, <3>1 DEF Request, PathFits, Uploading
    <3> QED BY <3>1, <3>2 DEF Goes
  <2>9. CASE EnrolPhoto(r) /\ storing
    <3>1. req' = [req EXCEPT ![r] = [req[r] EXCEPT !.step = "row", !.path = directory]] /\ req[r].op = "save"
      BY <2>9 DEF EnrolPhoto, At
    <3>2. [req[r] EXCEPT !.step = "row", !.path = directory] \in Request
          /\ PathFits([req[r] EXCEPT !.step = "row", !.path = directory])
      BY <1>0, <2>0, <3>1 DEF Request, PathFits, Uploading, Paths
    <3> QED BY <3>1, <3>2
  <2>10. CASE PointAtPhoto(r) \/ DeleteTemplate(r)
    <3>1. PICK s \in {"commit", "pending"} :
            /\ req' = [req EXCEPT ![r] = [req[r] EXCEPT !.step = s, !.onTemplate = template.there]]
            /\ s = "commit" => req[r].step = "point"
            /\ req[r].op # "check"
      BY <2>10 DEF PointAtPhoto, DeleteTemplate, At
    <3>2. [req[r] EXCEPT !.step = s, !.onTemplate = template.there] \in Request
          /\ PathFits([req[r] EXCEPT !.step = s, !.onTemplate = template.there])
      BY <1>0, <2>0, <3>1 DEF Request, PathFits, Uploading, Template
    <3> QED BY <3>1, <3>2
  <2>11. CASE WriteRow(r)
    <3>1. req' = [req EXCEPT ![r] = [req[r] EXCEPT !.step = "file", !.onRow = TRUE]] /\ req[r].step = "row"
      BY <2>11 DEF WriteRow
    <3>2. [req[r] EXCEPT !.step = "file", !.onRow = TRUE] \in Request
          /\ PathFits([req[r] EXCEPT !.step = "file", !.onRow = TRUE])
      BY <2>0, <3>1 DEF Request, PathFits, Uploading
    <3> QED BY <3>1, <3>2
  <2>12. CASE DropRow(r)
    <3>0. PICK b \in BOOLEAN : b = (req[r].path \in rows)
      <4>1. (req[r].path \in rows) \in BOOLEAN
        OBVIOUS
      <4> QED BY <4>1, Zenon
    <3>1. req' = [req EXCEPT ![r] = [req[r] EXCEPT !.step = "commit", !.onRow = b]] /\ req[r].op = "reset"
      BY <2>12, <3>0 DEF DropRow, At
    <3>2. [req[r] EXCEPT !.step = "commit", !.onRow = b] \in Request
          /\ PathFits([req[r] EXCEPT !.step = "commit", !.onRow = b])
      BY <2>0, <3>1 DEF Request, PathFits, Uploading
    <3> QED BY <3>1, <3>2
  <2>13. CASE \/ GiveUp(r) \/ CommitPhoto(r) \/ CommitCheck(r) \/ CommitReset(r) \/ ClearObjectPaths(r) \/ Abort(r)
              \/ EnrolPhoto(r) /\ ~storing
              \/ \E p \in SentPaths : CommitBareCheck(r, p)
    BY <2>1, <2>13 DEF GiveUp, CommitPhoto, CommitCheck, CommitBareCheck, CommitReset, ClearObjectPaths, Abort, EnrolPhoto
  <2> QED BY <1>3, <2>2, <2>3, <2>4, <2>5, <2>6, <2>7, <2>8, <2>9, <2>10, <2>11, <2>12, <2>13
          DEF Enrolment, Capture, Reset, Removal, Paths
<1>4. ASSUME NEW r \in Requests, Enrolment(r) \/ Capture(r) \/ Reset(r) \/ Removal(r)
                                 \/ WriteRow(r) \/ WriteFile(r) \/ Unlink(r) \/ Abort(r)
      PROVE  /\ template' \in Template /\ enrolled' \in BOOLEAN /\ captures' \subseteq ProbePaths
             /\ rows' \subseteq Paths /\ disk' \subseteq Paths
             /\ UNCHANGED <<directory, storing>>
  <2>0. req[r] \in Request /\ PathFits(req[r])
    BY <1>0
  <2>1. CASE PutTemplate(r)
    BY <1>0, <2>1 DEF PutTemplate, Template
  <2>2. CASE MarkEnrolled(r)
    BY <1>0, <2>2 DEF MarkEnrolled
  <2>3. CASE WriteFile(r)
    BY <1>0, <2>0, <2>3 DEF WriteFile, PathFits, Uploading, Paths
  <2>4. CASE Unlink(r)
    BY <1>0, <2>4 DEF Unlink
  <2>5. CASE CommitPhoto(r)
    BY <1>0, <2>0, <2>5 DEF CommitPhoto, At, PathFits, Uploading, Paths, Template
  <2>6. CASE CommitCheck(r)
    BY <1>0, <2>0, <2>6 DEF CommitCheck, At, PathFits, Paths
  <2>6a. CASE \E p \in SentPaths : CommitBareCheck(r, p)
    BY <1>0, <2>0, <2>6a, PathsAssumption DEF CommitBareCheck, Request
  <2>7. CASE CommitReset(r)
    BY <1>0, <2>7 DEF CommitReset, NoTemplate, Template
  <2>8. CASE DeleteRow(r)
    BY <1>0, <2>8 DEF DeleteRow
  <2>9. CASE ClearObjectPaths(r)
    BY <1>0, <2>9 DEF ClearObjectPaths, Template
  <2>10. CASE \/ BeginSave(r) \/ EnrolPhoto(r) \/ GiveUp(r) \/ PointAtPhoto(r) \/ ProbeFileFails(r)
              \/ \E p \in ProbePaths : BeginCheck(r, p) \/ BeginPrune(r, p)
              \/ \E p \in Paths : BeginDelete(r, p)
              \/ BeginBareCheck(r) \/ BeginReset(r) \/ DeleteTemplate(r) \/ SetEnrollmentPending(r) \/ DropRow(r)
              \/ WriteRow(r) \/ Abort(r)
    <3>1. UNCHANGED <<template, enrolled, captures, rows, disk, directory, storing>>
      BY <2>10 DEF BeginSave, EnrolPhoto, GiveUp, PointAtPhoto, ProbeFileFails, BeginCheck,
                   BeginBareCheck, BeginPrune, BeginDelete, BeginReset, DeleteTemplate, SetEnrollmentPending, DropRow, WriteRow, Abort
    <3> QED BY <1>0, <3>1
  <2> QED BY <1>4, <2>1, <2>2, <2>3, <2>4, <2>5, <2>6, <2>6a, <2>7, <2>8, <2>9, <2>10
          DEF Enrolment, Capture, Reset, Removal
<1>5. CASE \/ \E p \in FacePaths : MoveDirectory(p)
           \/ \E b \in BOOLEAN : SetStoring(b)
           \/ UNCHANGED vars
  <2>1. /\ UNCHANGED <<template, enrolled, captures, rows, disk, req>>
        /\ directory' \in FacePaths /\ storing' \in BOOLEAN
    BY <1>0, <1>5 DEF MoveDirectory, SetStoring, vars
  <2> QED BY <1>0, <2>1 DEF Steady, TypeOK
<1>6. ASSUME NEW r \in Requests, Enrolment(r) \/ Capture(r) \/ Reset(r) \/ Removal(r)
                                 \/ WriteRow(r) \/ WriteFile(r) \/ Unlink(r) \/ Abort(r)
      PROVE  Steady'
  <2>1. PICK to \in Request : PathFits(to) /\ req' = [req EXCEPT ![r] = to]
    BY <1>3, <1>6
  <2>2. req' \in [Requests -> Request] /\ \A o \in Requests : PathFits(req'[o])
    BY <1>1, <2>1
  <2> QED BY <1>0, <1>4, <1>6, <2>2 DEF Steady, TypeOK
<1> QED BY <1>5, <1>6 DEF Next, Work

\* A request that begins with the books straight.
LEMMA KeptFromTheStart ==
  ASSUME Steady, NEW r \in Requests, Straight,
         \/ BeginSave(r) \/ BeginReset(r) \/ BeginBareCheck(r)
         \/ \E p \in ProbePaths : BeginCheck(r, p) \/ BeginPrune(r, p)
         \/ \E p \in Paths : BeginDelete(r, p)
  PROVE  Kept(req[r])'
<1>0. req \in [Requests -> Request] /\ template \in Template /\ enrolled \in BOOLEAN
  BY DEF Steady, TypeOK
<1>1. UNCHANGED <<template, enrolled, captures, rows, disk>> /\ Pointers' = Pointers
  BY DEF BeginSave, BeginReset, BeginCheck, BeginBareCheck, BeginPrune, BeginDelete, Pointers
<1>2. CASE BeginSave(r)
  <2>1. req'[r] = [Idle EXCEPT !.op = "save", !.step = "put"] /\ ~enrolled
    BY <1>0, <1>2 DEF BeginSave
  <2>2. req'[r].op = "save" /\ req'[r].step = "put"
    BY <2>1 DEF Idle
  <2> QED BY <1>1, <2>1, <2>2 DEF Kept, StepsOf, Straight
<1>3. CASE \E p \in ProbePaths : BeginCheck(r, p)
  <2>1. PICK p : req'[r] = [Idle EXCEPT !.op = "check", !.step = "row", !.path = p]
    BY <1>0, <1>3 DEF BeginCheck
  <2>2. req'[r].op = "check" /\ req'[r].step = "row"
    BY <2>1 DEF Idle
  <2> QED BY <1>1, <2>2 DEF Kept, StepsOf, Straight
<1>3a. CASE BeginBareCheck(r)
  <2>1. req'[r] = [Idle EXCEPT !.op = "check", !.step = "bare"]
    BY <1>0, <1>3a DEF BeginBareCheck
  <2>2. req'[r].op = "check" /\ req'[r].step = "bare" /\ req'[r].path = NoPath
    BY <2>1 DEF Idle
  <2> QED BY <1>1, <2>2 DEF Kept, StepsOf, Straight
<1>4. CASE BeginReset(r)
  <2>1. req'[r] = [Idle EXCEPT !.op = "reset", !.step = "template", !.path = template.photo]
    BY <1>0, <1>4 DEF BeginReset
  <2>2. req'[r].op = "reset" /\ req'[r].step = "template" /\ req'[r].path = template.photo
    BY <2>1 DEF Idle
  <2> QED BY <1>1, <2>2 DEF Kept, StepsOf, Straight
<1>5. CASE \E p \in Paths : BeginDelete(r, p) \/ BeginPrune(r, p)
  <2>1. PICK p : req'[r] = [Idle EXCEPT !.op = "delete", !.step = "unlink", !.path = p]
    BY <1>0, <1>5 DEF BeginDelete, BeginPrune
  <2>2. req'[r].op = "delete" /\ req'[r].step = "unlink"
    BY <2>1 DEF Idle
  <2> QED BY <1>1, <2>2 DEF Kept, StepsOf, Straight
<1> QED BY <1>2, <1>3, <1>3a, <1>4, <1>5 DEF Paths

\* Each step of the save, and of the upload it shares with a check.
LEMMA SaveKeepsTheBooks ==
  ASSUME Steady, NEW r \in Requests, Kept(req[r]), UNCHANGED storing, req'[r] # Idle,
         \/ PutTemplate(r) \/ MarkEnrolled(r) \/ EnrolPhoto(r) \/ PointAtPhoto(r)
         \/ WriteRow(r) \/ WriteFile(r)
  PROVE  Kept(req[r])'
<1>0. /\ req \in [Requests -> Request] /\ template \in Template /\ enrolled \in BOOLEAN
      /\ PathFits(req[r]) /\ req[r] \in Request
  BY DEF Steady, TypeOK
<1>1. CASE PutTemplate(r)
  <2>1. /\ req'[r] = [req[r] EXCEPT !.step = "mark"] /\ req[r].op = "save" /\ req[r].step = "put"
        /\ template' = [there |-> TRUE, photo |-> NoPath]
        /\ UNCHANGED <<enrolled, captures, rows, disk>>
    BY <1>0, <1>1 DEF PutTemplate, At, Goes
  <2>2. req'[r].op = "save" /\ req'[r].step = "mark" /\ template'.there /\ template'.photo = NoPath
    BY <1>0, <2>1 DEF Request
  <2>3. Pointers' = Pointers
    BY <2>1, <2>2 DEF Pointers, Kept
  <2> QED BY <2>1, <2>2, <2>3 DEF Kept, StepsOf
<1>2. CASE MarkEnrolled(r)
  <2>1. /\ req'[r] = [req[r] EXCEPT !.step = "photo"] /\ req[r].op = "save" /\ req[r].step = "mark"
        /\ enrolled' = TRUE /\ UNCHANGED <<template, captures, rows, disk>>
    BY <1>0, <1>2 DEF MarkEnrolled, At, Goes
  <2>2. req'[r].op = "save" /\ req'[r].step = "photo" /\ Pointers' = Pointers
    BY <1>0, <2>1 DEF Request, Pointers
  <2> QED BY <2>1, <2>2 DEF Kept, StepsOf
<1>3. CASE EnrolPhoto(r)
  <2>1. /\ req'[r] = [req[r] EXCEPT !.step = "row", !.path = directory]
        /\ req[r].op = "save" /\ req[r].step = "photo"
        /\ UNCHANGED <<template, enrolled, captures, rows, disk>>
    BY <1>0, <1>3 DEF EnrolPhoto, At, Ends
  <2>2. req'[r].op = "save" /\ req'[r].step = "row" /\ Pointers' = Pointers
    BY <1>0, <2>1 DEF Request, Pointers
  <2> QED BY <2>1, <2>2 DEF Kept, StepsOf
<1>4. CASE PointAtPhoto(r)
  <2>1. /\ req'[r] = [req[r] EXCEPT !.step = "commit", !.onTemplate = template.there]
        /\ req[r].op = "save" /\ req[r].step = "point"
        /\ UNCHANGED <<template, enrolled, captures, rows, disk>>
    BY <1>0, <1>4 DEF PointAtPhoto, At
  <2>2. /\ req'[r].op = "save" /\ req'[r].step = "commit" /\ req'[r].path = req[r].path
        /\ req'[r].onTemplate = template.there /\ Pointers' = Pointers
    BY <1>0, <2>1 DEF Request, Pointers
  <2> QED BY <2>1, <2>2 DEF Kept, StepsOf
<1>5. CASE WriteRow(r)
  <2>1. /\ req'[r] = [req[r] EXCEPT !.step = "file", !.onRow = TRUE] /\ req[r].step = "row"
        /\ UNCHANGED <<template, enrolled, captures, rows, disk>>
    BY <1>0, <1>5 DEF WriteRow
  <2>2. req'[r].op = req[r].op /\ req'[r].step = "file" /\ Pointers' = Pointers
    BY <1>0, <2>1 DEF Request, Pointers
  <2>3. req[r].op \in {"save", "check"}
    BY <1>0, <2>1 DEF PathFits
  <2> QED BY <2>1, <2>2, <2>3 DEF Kept, StepsOf
<1>6. CASE WriteFile(r)
  <2>1. /\ req'[r] = [req[r] EXCEPT !.step = IF req[r].op = "save" THEN "point" ELSE "commit"]
        /\ req[r].step = "file" /\ disk' = disk \cup {req[r].path}
        /\ UNCHANGED <<template, enrolled, captures, rows>>
    BY <1>0, <1>6 DEF WriteFile, Goes
  <2>2. req[r].op \in {"save", "check"}
    BY <1>0, <2>1 DEF PathFits
  <2>3. /\ req'[r].op = req[r].op /\ req'[r].path = req[r].path /\ Pointers' = Pointers
        /\ req'[r].step = IF req[r].op = "save" THEN "point" ELSE "commit"
    BY <1>0, <2>1 DEF Request, Pointers
  <2> QED BY <2>1, <2>2, <2>3 DEF Kept, StepsOf
<1> QED BY <1>1, <1>2, <1>3, <1>4, <1>5, <1>6

\* Each step of a reset and of a deletion.
LEMMA RemovalKeepsTheBooks ==
  ASSUME Steady, NEW r \in Requests, Kept(req[r]),
         \/ DeleteTemplate(r) \/ SetEnrollmentPending(r) \/ Unlink(r) \/ DropRow(r) \/ DeleteRow(r)
  PROVE  Kept(req[r])'
<1>0. /\ req \in [Requests -> Request] /\ template \in Template /\ enrolled \in BOOLEAN
      /\ req[r] \in Request
  BY DEF Steady, TypeOK
<1>1. CASE DeleteTemplate(r)
  <2>1. /\ req'[r] = [req[r] EXCEPT !.step = "pending", !.onTemplate = template.there]
        /\ req[r].op = "reset" /\ req[r].step = "template"
        /\ UNCHANGED <<template, enrolled, captures, rows, disk>>
    BY <1>0, <1>1 DEF DeleteTemplate, At
  <2>2. /\ req'[r].op = "reset" /\ req'[r].step = "pending" /\ req'[r].path = req[r].path
        /\ req'[r].onTemplate = template.there /\ Pointers' = Pointers
    BY <1>0, <2>1 DEF Request, Pointers
  <2> QED BY <2>1, <2>2 DEF Kept, StepsOf
<1>2. CASE SetEnrollmentPending(r)
  <2>1. /\ req'[r] = [req[r] EXCEPT !.step = "unlink"] /\ req[r].op = "reset" /\ req[r].step = "pending"
        /\ UNCHANGED <<template, enrolled, captures, rows, disk>>
    BY <1>0, <1>2 DEF SetEnrollmentPending, At, Goes
  <2>2. /\ req'[r].op = "reset" /\ req'[r].step = "unlink" /\ req'[r].path = req[r].path
        /\ req'[r].onTemplate = req[r].onTemplate /\ Pointers' = Pointers
    BY <1>0, <2>1 DEF Request, Pointers
  <2> QED BY <2>1, <2>2 DEF Kept, StepsOf
<1>3. CASE Unlink(r)
  <2>1. /\ req'[r] = [req[r] EXCEPT !.step = "drop"] /\ req[r].step = "unlink"
        /\ disk' = disk \ {req[r].path} /\ UNCHANGED <<template, enrolled, captures, rows>>
    BY <1>0, <1>3 DEF Unlink, Goes
  <2>2. /\ req'[r].op = req[r].op /\ req'[r].step = "drop" /\ req'[r].path = req[r].path
        /\ req'[r].onTemplate = req[r].onTemplate /\ Pointers' = Pointers
    BY <1>0, <2>1 DEF Request, Pointers
  <2>3. req[r].op \in {"reset", "delete"}
    BY <2>1 DEF Kept, StepsOf
  <2> QED BY <2>1, <2>2, <2>3 DEF Kept, StepsOf
<1>4. CASE DropRow(r)
  <2>1. /\ req'[r] = [req[r] EXCEPT !.step = "commit", !.onRow = req[r].path \in rows]
        /\ req[r].op = "reset" /\ req[r].step = "drop"
        /\ UNCHANGED <<template, enrolled, captures, rows, disk>>
    BY <1>0, <1>4 DEF DropRow, At
  <2>2. /\ req'[r].op = "reset" /\ req'[r].step = "commit" /\ req'[r].path = req[r].path
        /\ req'[r].onTemplate = req[r].onTemplate /\ Pointers' = Pointers
    BY <1>0, <2>1 DEF Request, Pointers
  <2>3. req'[r].onRow = (req[r].path \in rows)
    BY <1>0, <2>1, Zenon DEF Request
  <2> QED BY <2>1, <2>2, <2>3 DEF Kept, StepsOf
<1>5. CASE DeleteRow(r)
  <2>1. /\ req'[r] = [req[r] EXCEPT !.step = "clear"] /\ req[r].op = "delete" /\ req[r].step = "drop"
        /\ rows' = rows \ {req[r].path} /\ UNCHANGED <<template, enrolled, captures, disk>>
    BY <1>0, <1>5 DEF DeleteRow, At, Goes
  <2>2. req'[r].op = "delete" /\ req'[r].step = "clear" /\ req'[r].path = req[r].path /\ Pointers' = Pointers
    BY <1>0, <2>1 DEF Request, Pointers
  <2> QED BY <2>1, <2>2 DEF Kept, StepsOf
<1> QED BY <1>1, <1>2, <1>3, <1>4, <1>5

\* The last step leaves the books straight.
LEMMA EndsStraight ==
  ASSUME Steady, NEW r \in Requests, Kept(req[r]),
         \/ EnrolPhoto(r) /\ Ends(r) 
         \/ CommitPhoto(r) \/ CommitCheck(r) \/ CommitReset(r) \/ ClearObjectPaths(r)
         \/ CommitBareCheck(r, NoPath)
  PROVE  Straight'
<1>0. /\ req \in [Requests -> Request] /\ template \in Template /\ enrolled \in BOOLEAN
      /\ req[r] \in Request /\ captures \subseteq ProbePaths /\ PathFits(req[r])
  BY DEF Steady, TypeOK
<1>1. CASE EnrolPhoto(r) /\ Ends(r)
  <2>1. req[r].op = "save" /\ req[r].step = "photo" /\ UNCHANGED <<template, enrolled, captures, rows, disk>>
    BY <1>1 DEF EnrolPhoto, At
  <2> QED BY <2>1 DEF Kept, StepsOf, Straight, Pointers
<1>2. CASE CommitPhoto(r)
  <2>1. /\ req[r].op = "save" /\ req[r].step = "commit" /\ rows' = rows \cup {req[r].path}
        /\ template' = IF req[r].onTemplate THEN [template EXCEPT !.photo = req[r].path] ELSE template
        /\ UNCHANGED <<enrolled, captures, disk>>
    BY <1>2 DEF CommitPhoto, At
  <2>2. req[r].path \in FacePaths /\ req[r].path # NoPath
    BY <1>0, <2>1, PathsAssumption DEF PathFits, Uploading
  <2>3. /\ template'.photo = req[r].path /\ template'.there = template.there
        /\ template.photo = NoPath /\ template.there /\ enrolled
        /\ disk = rows \cup {req[r].path} /\ rows = Pointers
    BY <1>0, <2>1 DEF Kept, Template
  <2> QED BY <2>1, <2>2, <2>3 DEF Straight, Pointers
<1>3. CASE CommitCheck(r)
  <2>1. /\ req[r].op = "check" /\ req[r].step = "commit" /\ rows' = rows \cup {req[r].path}
        /\ captures' = captures \cup {req[r].path}
        /\ UNCHANGED <<template, enrolled, disk>>
    BY <1>3 DEF CommitCheck, At
  <2>2. disk = rows \cup {req[r].path} /\ rows = Pointers
    BY <2>1 DEF Kept
  <2> QED BY <2>1, <2>2 DEF Straight, Pointers, Kept
<1>4. CASE CommitReset(r)
  <2>1. /\ req[r].op = "reset" /\ req[r].step = "commit"
        /\ template' = IF req[r].onTemplate THEN NoTemplate ELSE template
        /\ enrolled' = FALSE
        /\ rows' = IF req[r].onRow THEN rows \ {req[r].path} ELSE rows
        /\ UNCHANGED <<captures, disk>>
    BY <1>4 DEF CommitReset, At
  <2>2. /\ req[r].path = template.photo /\ req[r].onTemplate = template.there
        /\ req[r].onRow = (req[r].path \in rows)
        /\ disk = rows \ {req[r].path} /\ rows = Pointers
        /\ template.photo # NoPath => template.there
    BY <2>1 DEF Kept
  <2>3. rows' = rows \ {req[r].path}
    BY <2>1, <2>2
  <2>4. template'.photo = NoPath
    BY <2>1, <2>2 DEF NoTemplate
  <2>5. template.photo \notin captures
    BY <1>0, PathsAssumption DEF Template
  <2> QED BY <2>1, <2>2, <2>3, <2>4, <2>5 DEF Straight, Pointers
<1>5. CASE ClearObjectPaths(r)
  <2>1. /\ req[r].op = "delete" /\ req[r].step = "clear"
        /\ template' = IF template.photo = req[r].path THEN [template EXCEPT !.photo = NoPath] ELSE template
        /\ captures' = captures \ {req[r].path}
        /\ UNCHANGED <<enrolled, rows, disk>>
    BY <1>5 DEF ClearObjectPaths, At
  <2>2. /\ template'.there = template.there
        /\ template'.photo = IF template.photo = req[r].path THEN NoPath ELSE template.photo
    BY <1>0, <2>1 DEF Template
  <2>3. rows = Pointers \ {req[r].path} /\ disk = rows \ {req[r].path}
    BY <2>1 DEF Kept
  <2> QED BY <2>1, <2>2, <2>3 DEF Straight, Pointers, Kept
<1>6. CASE CommitBareCheck(r, NoPath)
  <2>1. /\ req[r].op = "check" /\ req[r].step = "bare"
        /\ rows' = rows \cup ({req[r].path} \ {NoPath})
        /\ UNCHANGED <<template, enrolled, captures, disk>>
    BY <1>6 DEF CommitBareCheck, At
  <2>2. rows' = rows /\ disk = rows /\ rows = Pointers
    BY <2>1 DEF Kept
  <2> QED BY <2>1, <2>2 DEF Straight, Pointers, Kept
<1> QED BY <1>1, <1>2, <1>3, <1>4, <1>5, <1>6

\* What a request that is idle may do is begin.
LEMMA IdleBegins ==
  ASSUME Steady, NEW a \in Requests, req[a] = Idle,
         Enrolment(a) \/ Capture(a) \/ Reset(a) \/ Removal(a)
           \/ WriteRow(a) \/ WriteFile(a) \/ Unlink(a) \/ Abort(a)
  PROVE  /\ \/ BeginSave(a) \/ BeginReset(a) \/ BeginBareCheck(a)
            \/ \E p \in ProbePaths : BeginCheck(a, p) \/ BeginPrune(a, p)
            \/ \E p \in Paths : BeginDelete(a, p)
         /\ req'[a] # Idle
<1>1. req[a].op = "none" /\ req[a].step = "idle" /\ req \in [Requests -> Request]
  BY DEF Idle, Steady, TypeOK
<1>2. \/ BeginSave(a) \/ BeginReset(a) \/ BeginBareCheck(a)
      \/ \E p \in ProbePaths : BeginCheck(a, p) \/ BeginPrune(a, p)
      \/ \E p \in Paths : BeginDelete(a, p)
  BY <1>1 DEF Enrolment, Capture, Reset, Removal, PutTemplate, MarkEnrolled, EnrolPhoto, GiveUp, PointAtPhoto,
              CommitPhoto, ProbeFileFails, CommitCheck, CommitBareCheck, DeleteTemplate, SetEnrollmentPending, DropRow, CommitReset,
              DeleteRow, ClearObjectPaths, WriteRow, WriteFile, Unlink, Abort, At
<1>3. req'[a].op \in {"save", "reset", "check", "delete"}
  <2>1. CASE BeginSave(a)
    BY <1>1, <2>1 DEF BeginSave, Idle
  <2>2. CASE BeginReset(a)
    BY <1>1, <2>2 DEF BeginReset, Idle
  <2>3. CASE \E p \in ProbePaths : BeginCheck(a, p)
    BY <1>1, <2>3 DEF BeginCheck, Idle
  <2>3a. CASE BeginBareCheck(a)
    BY <1>1, <2>3a DEF BeginBareCheck, Idle
  <2>4. CASE \/ \E p \in ProbePaths : BeginPrune(a, p)
             \/ \E p \in Paths : BeginDelete(a, p)
    BY <1>1, <2>4 DEF BeginPrune, BeginDelete, Idle
  <2> QED BY <1>2, <2>1, <2>2, <2>3, <2>3a, <2>4
<1> QED BY <1>2, <1>3 DEF Idle

\* A step changes the request of the connection that takes it, and no other.
LEMMA OneAtATime ==
  ASSUME Steady, NEW a \in Requests,
         Enrolment(a) \/ Capture(a) \/ Reset(a) \/ Removal(a)
           \/ WriteRow(a) \/ WriteFile(a) \/ Unlink(a) \/ Abort(a)
  PROVE  (\A o \in Requests \ {a} : req'[o] = req[o]) /\ UNCHANGED <<directory, storing>>
<1>0. req \in [Requests -> Request]
  BY DEF Steady, TypeOK
<1>1. CASE Enrolment(a)
  BY <1>0, <1>1 DEF Enrolment, BeginSave, PutTemplate, MarkEnrolled, EnrolPhoto, GiveUp, PointAtPhoto, CommitPhoto,
                    Goes, Ends
<1>2. CASE Capture(a)
  BY <1>0, <1>2 DEF Capture, BeginCheck, BeginBareCheck, ProbeFileFails, CommitCheck, CommitBareCheck, Goes, Ends
<1>3. CASE Reset(a)
  BY <1>0, <1>3 DEF Reset, BeginReset, DeleteTemplate, SetEnrollmentPending, DropRow, CommitReset, Goes, Ends
<1>4. CASE Removal(a)
  BY <1>0, <1>4 DEF Removal, BeginDelete, BeginPrune, DeleteRow, ClearObjectPaths, Goes, Ends
<1>5. CASE WriteRow(a) \/ WriteFile(a) \/ Unlink(a) \/ Abort(a)
  BY <1>0, <1>5 DEF WriteRow, WriteFile, Unlink, Abort, Goes, Ends
<1> QED BY <1>1, <1>2, <1>3, <1>4, <1>5

\* The step of a request that runs alone and is not stopped.
LEMMA AloneKeepsTheBooks ==
  ASSUME Steady, NEW r \in Requests, req[r] # Idle, \A o \in Requests \ {r} : req[o] = Idle,
         Kept(req[r]), Next, UNCHANGED <<directory, storing>>, ~Stops(r),
         \A o \in Requests \ {r} : req'[o] = Idle
  PROVE  IF req'[r] = Idle THEN Straight' ELSE Kept(req[r])'
<1>1. PICK a \in Requests : Enrolment(a) \/ Capture(a) \/ Reset(a) \/ Removal(a)
                              \/ WriteRow(a) \/ WriteFile(a) \/ Unlink(a) \/ Abort(a)
  <2>1. ~(\E p \in FacePaths : MoveDirectory(p)) /\ ~(\E b \in BOOLEAN : SetStoring(b))
    BY DEF MoveDirectory, SetStoring
  <2> QED BY <2>1 DEF Next, Work
<1>2. a = r
  BY <1>1, IdleBegins
<1>3. req[r].op # "none"
  BY DEF Kept, StepsOf
<1>4. ~(\/ BeginSave(r) \/ BeginReset(r) \/ BeginBareCheck(r)
        \/ \E p \in ProbePaths : BeginCheck(r, p) \/ BeginPrune(r, p)
        \/ \E p \in Paths : BeginDelete(r, p))
  BY DEF BeginSave, BeginReset, BeginCheck, BeginBareCheck, BeginPrune, BeginDelete
<1>5. CASE \/ PutTemplate(r) \/ MarkEnrolled(r) \/ EnrolPhoto(r) \/ PointAtPhoto(r)
           \/ WriteRow(r) \/ WriteFile(r)
  <2>1. CASE req'[r] # Idle
    BY <1>5, <2>1, SaveKeepsTheBooks
  <2>2. CASE req'[r] = Idle
    <3>1. EnrolPhoto(r) /\ Ends(r)
      <4>0. req \in [Requests -> Request] /\ req[r] \in Request
        BY DEF Steady, TypeOK
      <4>1. \A s \in {"mark", "photo", "row", "file", "point", "commit"} : \A q : q.step = s => q # Idle
        BY DEF Idle
      <4>2. ~PutTemplate(r) /\ ~MarkEnrolled(r) /\ ~WriteFile(r)
        BY <2>2, <4>0, <4>1 DEF PutTemplate, MarkEnrolled, WriteFile, Goes, Request
      <4>3. ~PointAtPhoto(r) /\ ~WriteRow(r)
        BY <2>2, <4>0, <4>1 DEF PointAtPhoto, WriteRow, Request
      <4>4. EnrolPhoto(r) /\ ~storing
        BY <1>5, <2>2, <4>0, <4>1, <4>2, <4>3 DEF EnrolPhoto, Request
      <4> QED BY <4>4 DEF EnrolPhoto
    <3> QED BY <2>2, <3>1, EndsStraight
  <2> QED BY <2>1, <2>2
<1>6. CASE DeleteTemplate(r) \/ SetEnrollmentPending(r) \/ Unlink(r) \/ DropRow(r) \/ DeleteRow(r)
  <2>1. Kept(req[r])'
    BY <1>6, RemovalKeepsTheBooks
  <2>2. req'[r] # Idle
    BY <2>1 DEF Kept, StepsOf, Idle
  <2> QED BY <2>1, <2>2
<1>7. CASE CommitPhoto(r) \/ CommitCheck(r) \/ CommitReset(r) \/ ClearObjectPaths(r)
  <2>1. req'[r] = Idle
    BY <1>7 DEF CommitPhoto, CommitCheck, CommitReset, ClearObjectPaths, Ends, Steady, TypeOK
  <2>2. Straight'
    BY <1>7, EndsStraight
  <2> QED BY <2>1, <2>2
<1>8. ASSUME NEW p \in SentPaths, CommitBareCheck(r, p)
      PROVE  req'[r] = Idle /\ Straight'
  <2>1. req'[r] = Idle
    BY <1>8 DEF CommitBareCheck, Ends, Steady, TypeOK
  <2>2. p = NoPath
    BY <1>8 DEF Stops, Names
  <2> QED BY <1>8, <2>1, <2>2, EndsStraight
<1> QED BY <1>1, <1>2, <1>4, <1>5, <1>6, <1>7, <1>8 DEF Enrolment, Capture, Reset, Removal, Stops

LEMMA AccountsKept ==
  ASSUME Steady, Accounted, Next, RememberAlone
  PROVE  /\ Accounted'
         /\ \A r \in alone : req[r] # Idle /\ req'[r] = Idle /\ ~Stops(r) => Straight'
<1>1. ASSUME NEW r \in alone' PROVE r \in Requests /\ req'[r] # Idle /\ (\A o \in Requests \ {r} : req'[o] = Idle) /\ Kept(req[r])'
  <2>1. /\ r \in Requests /\ req'[r] # Idle /\ \A o \in Requests \ {r} : req'[o] = Idle
        /\ r \in alone \/ (req[r] = Idle /\ Straight)
        /\ ~Stops(r) /\ UNCHANGED <<directory, storing>>
    BY <1>1 DEF RememberAlone
  <2>2. CASE r \in alone
    BY <2>1, <2>2, AloneKeepsTheBooks DEF Accounted
  <2>3. CASE req[r] = Idle /\ Straight
    <3>1. PICK a \in Requests : Enrolment(a) \/ Capture(a) \/ Reset(a) \/ Removal(a)
                                  \/ WriteRow(a) \/ WriteFile(a) \/ Unlink(a) \/ Abort(a)
      <4>1. ~(\E p \in FacePaths : MoveDirectory(p)) /\ ~(\E b \in BOOLEAN : SetStoring(b))
        BY <2>1 DEF MoveDirectory, SetStoring
      <4> QED BY <4>1 DEF Next, Work
    <3>2. a = r
      BY <2>1, <2>3, <3>1, OneAtATime
    <3> QED BY <2>1, <2>3, <3>1, <3>2, IdleBegins, KeptFromTheStart
  <2> QED BY <2>1, <2>2, <2>3
<1>2. ASSUME NEW r \in alone, req[r] # Idle, req'[r] = Idle, ~Stops(r) PROVE Straight'
  <2>1. r \in Requests /\ (\A o \in Requests \ {r} : req[o] = Idle) /\ Kept(req[r])
    BY <1>2 DEF Accounted
  <2>2. PICK a \in Requests : Enrolment(a) \/ Capture(a) \/ Reset(a) \/ Removal(a)
                                \/ WriteRow(a) \/ WriteFile(a) \/ Unlink(a) \/ Abort(a)
    <3>1. ~(\E p \in FacePaths : MoveDirectory(p)) /\ ~(\E b \in BOOLEAN : SetStoring(b))
      BY <1>2 DEF MoveDirectory, SetStoring
    <3> QED BY <3>1 DEF Next, Work
  <2>3. a = r
    BY <1>2, <2>1, <2>2, OneAtATime
  <2>4. (\A o \in Requests \ {r} : req'[o] = Idle) /\ UNCHANGED <<directory, storing>>
    BY <2>1, <2>2, <2>3, OneAtATime
  <2> QED BY <1>2, <2>1, <2>4, AloneKeepsTheBooks
<1> QED BY <1>1, <1>2 DEF Accounted

\* A stutter changes no account.
LEMMA AccountsStutter ==
  ASSUME Steady, Accounted, UNCHANGED allVars
  PROVE  Accounted'
BY DEF allVars, vars, Accounted, Kept, Pointers

(* A request that began with the books straight, ran alone and was not     *)
(* stopped leaves the rows, the files and the columns straight (the upload *)
(* and the deletion of file-manager, the reset of face.service), however   *)
(* others meet before and after it.                                        *)
THEOREM AloneLeavesItStraightAlways == BooksSpec => AloneLeavesItStraight
<1> DEFINE Ended == \A r \in alone : (req[r] # Idle /\ req'[r] = Idle /\ ~Stops(r)) => Straight'
<1>1. MCInit => Steady /\ Accounted
  BY Initially DEF MCInit, IInv, Shapes, Steady, Accounted
<1>2. Steady /\ Accounted /\ [BooksNext]_allVars => Steady' /\ Accounted' /\ [Ended]_allVars
  <2> SUFFICES ASSUME Steady, Accounted, [BooksNext]_allVars
               PROVE  Steady' /\ Accounted' /\ [Ended]_allVars
    OBVIOUS
  <2>0. [Next /\ RememberAlone]_allVars
    BY DEF BooksNext, Next
  <2>1. Steady'
    BY <2>0, SteadyKept DEF allVars
  <2>2. CASE Next /\ RememberAlone
    BY <2>1, <2>2, AccountsKept
  <2>3. CASE UNCHANGED allVars
    BY <2>1, <2>3, AccountsStutter
  <2> QED BY <2>0, <2>2, <2>3
<1> QED BY <1>1, <1>2, PTL DEF BooksSpec, AloneLeavesItStraight

-----------------------------------------------------------------------------
(* The camera that takes the photo *)

\* A camera that is on and nobody keeps is the one in use, and no other is
\* asked for.
CamerasKept ==
  /\ call \in [1 .. Calls -> {"none", "asking", "attached", "over"}]
  /\ \/ live \subseteq stray
     \/ done = "open" /\ Pending = {} /\ live \subseteq stray \cup {stream}

LEMMA CamerasBegin == MCCameraInit => CamerasKept
BY CameraAssumption DEF MCCameraInit, CameraInit, CamerasKept, Start

\* A camera that answers while no other is asked for is the one in use.
LEMMA AnswerKept ==
  ASSUME CamerasKept, NEW i \in 1 .. Calls, Answer(i), Recollect
  PROVE  CamerasKept'
<1>0. /\ call[i] = "asking" /\ i \in Pending
      /\ \E c \in {"attached", "over"} : call' = [call EXCEPT ![i] = c]
      /\ stream' = i /\ live' = live \cup {i} /\ done' = done
  BY DEF Answer, Pending
<1>1. call' \in [1 .. Calls -> {"none", "asking", "attached", "over"}] /\ Pending' = Pending \ {i}
  BY <1>0 DEF CamerasKept, Pending
<1>2. live \subseteq stray
  BY <1>0 DEF CamerasKept
<1>3. CASE i \in live
  <2>1. live' = live /\ stray' = stray
    BY <1>0, <1>3 DEF Recollect
  <2> QED BY <1>1, <1>2, <2>1 DEF CamerasKept
<1>4. CASE i \notin live
  <2>1. live' \ live = {i}
    BY <1>0, <1>4
  <2>2. CASE done # "open" \/ (\E a, b \in Pending : a # b)
    <3>1. stray' = stray \cup {i}
      BY <2>1, <2>2 DEF Recollect
    <3> QED BY <1>0, <1>1, <1>2, <3>1 DEF CamerasKept
  <2>3. CASE ~(done # "open" \/ (\E a, b \in Pending : a # b))
    <3>1. stray' = stray
      BY <2>3 DEF Recollect
    <3>2. Pending' = {}
      BY <1>0, <1>1, <2>3
    <3> QED BY <1>0, <1>1, <1>2, <2>3, <3>1, <3>2 DEF CamerasKept
  <2> QED BY <2>2, <2>3
<1> QED BY <1>3, <1>4

\* No other step turns a camera on.
LEMMA OthersKept ==
  ASSUME CamerasKept, Recollect,
         call' \in [1 .. Calls -> {"none", "asking", "attached", "over"}],
         \/ live' \subseteq live \ {stream}
         \/ live' = live /\ done' = done /\ stream' = stream /\ (Pending = {} => Pending' = {})
  PROVE  CamerasKept'
<1>1. stray' = stray
  BY DEF Recollect
<1> QED BY <1>1 DEF CamerasKept

LEMMA CamerasInductive == CamerasKept /\ [MCNext]_watchedVars => CamerasKept'
<1> SUFFICES ASSUME CamerasKept, [MCNext]_watchedVars PROVE CamerasKept'
  OBVIOUS
<1>1. CASE UNCHANGED watchedVars
  BY <1>1 DEF watchedVars, cameraVars, camera, CamerasKept, Pending
<1>2. CASE MCNext
  <2>0. CameraNext /\ Recollect
    BY <1>2 DEF MCNext
  <2>1. ASSUME NEW i \in 1 .. Calls, Answer(i) PROVE CamerasKept'
    BY <2>0, <2>1, AnswerKept
  <2>2. ASSUME NEW i \in 1 .. Calls, Refuse(i) PROVE CamerasKept'
    <3>1. call[i] = "asking" /\ call' = [call EXCEPT ![i] = "over"] /\ stream' = stream
      BY <2>2 DEF Refuse
    <3>2. /\ call' \in [1 .. Calls -> {"none", "asking", "attached", "over"}]
          /\ Pending = {} => Pending' = {}
      BY <3>1 DEF CamerasKept, Pending
    <3>3. \/ live' \subseteq live \ {stream}
          \/ live' = live /\ done' = done
      BY <2>2 DEF Refuse, Finish
    <3> QED BY <2>0, <3>1, <3>2, <3>3, OthersKept
  <2>3. CASE Flip
    <3>1. live' = live \ {stream} /\ call' = [call EXCEPT ![Made + 1] = "asking"]
      BY <2>3 DEF Flip
    <3>2. call' \in [1 .. Calls -> {"none", "asking", "attached", "over"}]
      BY <3>1 DEF CamerasKept
    <3> QED BY <2>0, <3>1, <3>2, OthersKept
  <2>4. CASE Begin
    <3>1. call' = [call EXCEPT ![Start] = "over"] /\ UNCHANGED <<live, done, stream>>
      BY <2>4 DEF Begin
    <3>2. /\ call' \in [1 .. Calls -> {"none", "asking", "attached", "over"}]
          /\ Pending = {} => Pending' = {}
      BY <3>1 DEF CamerasKept, Pending
    <3> QED BY <2>0, <3>1, <3>2, OthersKept
  <2>5. CASE Close \/ Encoded \/ Check \/ Frame \/ FramesArrive \/ DetectorLoads
    <3>1. UNCHANGED <<call, stream>>
      BY <2>5 DEF Close, Encoded, Check, Frame, FramesArrive, DetectorLoads, camera
    <3>2. live' \subseteq live \ {stream} \/ (live' = live /\ done' = done)
      BY <2>5 DEF Close, Encoded, Check, Frame, FramesArrive, DetectorLoads, camera, Finish
    <3> QED BY <2>0, <3>1, <3>2, OthersKept DEF CamerasKept, Pending
  <2> QED BY <2>0, <2>1, <2>2, <2>3, <2>4, <2>5 DEF CameraNext
<1> QED BY <1>1, <1>2

(* Once the caller has its answer no camera is on, but for one that was    *)
(* answered after the end or while another was asked for.                  *)
THEOREM CameraIsOffAfterwards == MCSpec => []CameraOffAfterwards
<1>1. CamerasKept => CameraOffAfterwards
  BY DEF CamerasKept, CameraOffAfterwards
<1> QED BY <1>1, CamerasBegin, CamerasInductive, PTL DEF MCSpec

---------------------------------------------------------------------------

\* A face that counts for the witness.
FaceIn(p) == p.faces = 1 /\ p.place # "off"

SeenTyped ==
  /\ wanted \in Proof /\ even \in BOOLEAN /\ latest \in Pictures /\ frozen \in Pictures
  /\ turn \in [stage : Stages, frontalAspect : Nat, prevFrontal : BOOLEAN,
               noise : Nat, deep : Nat, flat : Nat]
  /\ turnDone \in BOOLEAN /\ sawClosed \in BOOLEAN /\ challengeDone \in BOOLEAN
  /\ capturing \in BOOLEAN
  /\ proof \in [widest : Nat, turnedTo : Nat, back : BOOLEAN, closed : BOOLEAN, acted : BOOLEAN]

\* The challenge goes no further than the face has: it counts the widest
\* picture as frontal, a deep picture only of a face that turned, and asks to
\* look back only then.
TurnSeen ==
  wanted.turn =>
    \/ proof.back
    \/ /\ turn.stage # "done" /\ ~turnDone
       /\ turn.frontalAspect = proof.widest
       /\ turn.deep > 0 => proof.turnedTo > 0
       /\ turn.stage = "back" => proof.turnedTo > 0
       /\ proof.turnedTo > 0 => proof.turnedTo + 2 <= proof.widest

\* What the expression has come to so far the face has made, and what the last
\* picture adds to it too.
ActSeen ==
  /\ sawClosed => proof.closed
  /\ wanted.action # "no" /\ challengeDone => proof.acted
  /\ FaceIn(latest) /\ turnDone =>
       /\ wanted.action = "pose" /\ latest.act => proof.acted
       /\ wanted.action = "blink" /\ latest.act => proof.closed
       /\ wanted.action = "blink" /\ ~latest.act /\ proof.closed => proof.acted

ProofInv == SeenTyped /\ TurnSeen /\ ActSeen

LEMMA ProofBegins == MCCameraInit => ProofInv
<1> SUFFICES ASSUME MCCameraInit PROVE ProofInv
  OBVIOUS
<1>1. SeenTyped
  <2>1. NoFace \in Pictures
    BY DEF Pictures
  <2>2. wanted \in Proof /\ wanted.turn \in BOOLEAN
    BY DEF MCCameraInit, CameraInit, Proof
  <2>3. turnDone \in BOOLEAN /\ challengeDone \in BOOLEAN
    BY <2>2 DEF MCCameraInit, CameraInit
  <2>4. Fresh \in [stage : Stages, frontalAspect : Nat, prevFrontal : BOOLEAN,
                   noise : Nat, deep : Nat, flat : Nat]
    BY DEF Fresh, Stages
  <2>5. Unproven \in [widest : Nat, turnedTo : Nat, back : BOOLEAN, closed : BOOLEAN, acted : BOOLEAN]
    BY DEF Unproven
  <2> QED BY <2>1, <2>2, <2>3, <2>4, <2>5 DEF MCCameraInit, CameraInit, SeenTyped
<1>2. TurnSeen
  <2>1. turnDone = ~wanted.turn /\ turn = Fresh /\ proof = Unproven
    BY DEF MCCameraInit, CameraInit
  <2>2. wanted.turn => ~turnDone
    BY <2>1, Zenon
  <2> QED BY <2>1, <2>2 DEF TurnSeen, Fresh, Unproven
<1>3. ActSeen
  BY DEF MCCameraInit, CameraInit, ActSeen, Unproven, FaceIn, NoFace
<1> QED BY <1>1, <1>2, <1>3 DEF ProofInv

LEMMA PictureFields ==
  ASSUME NEW p \in Pictures
  PROVE  /\ p.act \in BOOLEAN /\ p.deep \in BOOLEAN /\ p.width \in Nat
         /\ FaceIn(p) => p.width > 0
         /\ FaceOk(p) => FaceIn(p)
         /\ wanted.turn /\ ~turnDone => (FaceIn(p) => FaceOk(p))
<1>1. /\ p.act \in BOOLEAN /\ p.deep \in BOOLEAN /\ p.width \in Nat
      /\ p.place \in {"off", "far", "near"}
      /\ p.place # "off" => p.width > 0
  <2>1. CASE p \in {NoFace, [NoFace EXCEPT !.faces = 1], [NoFace EXCEPT !.faces = 2]}
    <3>1. /\ NoFace.act = FALSE /\ NoFace.deep = FALSE /\ NoFace.width = 0 /\ NoFace.place = "off"
          /\ NoFace = [faces |-> 0, place |-> "off", width |-> 0, deep |-> FALSE, act |-> FALSE]
      BY DEF NoFace
    <3>2. p.act = FALSE /\ p.deep = FALSE /\ p.width = 0 /\ p.place = "off"
      BY <2>1, <3>1
    <3>3. p.act \in BOOLEAN /\ p.deep \in BOOLEAN
      BY <3>2, Zenon
    <3>4. p.width \in Nat /\ p.place \in {"off", "far", "near"}
      BY <3>2
    <3> QED BY <3>2, <3>3, <3>4, Zenon
  <2>2. CASE p \in [faces : {1}, place : {"far", "near"}, width : Widths, deep : BOOLEAN, act : BOOLEAN]
    <3>1. p.act \in BOOLEAN /\ p.deep \in BOOLEAN /\ p.width \in Widths /\ p.place \in {"far", "near"}
      BY <2>2
    <3>2. \A w \in Widths : w \in Nat /\ w > 0
      BY SamplesAssumption
    <3>3. p.width \in Nat /\ p.width > 0
      BY <3>1, <3>2, Zenon
    <3> QED BY <3>1, <3>3
  <2> QED BY <2>1, <2>2 DEF Pictures
<1> QED BY <1>1 DEF FaceIn, FaceOk

\* A challenge that passes, or that looks for the face to come back, after one
\* more picture of a face.
LEMMA UpdateOk ==
  ASSUME ProofInv, NEW p \in Pictures, FaceOk(p), NEW t \in Update(turn, p, FaceOk(p))
  PROVE  /\ t \in [stage : Stages, frontalAspect : Nat, prevFrontal : BOOLEAN,
                   noise : Nat, deep : Nat, flat : Nat]
         /\ turn.stage # "done" =>
              /\ t.frontalAspect = IF p.width > turn.frontalAspect THEN p.width ELSE turn.frontalAspect
              /\ t.deep > 0 \/ (t.stage = "back" /\ turn.stage # "back") =>
                   turn.deep > 0 \/ (p.deep /\ p.width + 2 <= t.frontalAspect)
              /\ t.stage = "done" => turn.stage = "back" /\ p.width = t.frontalAspect
<1>0. /\ turn \in [stage : Stages, frontalAspect : Nat, prevFrontal : BOOLEAN,
                   noise : Nat, deep : Nat, flat : Nat]
      /\ p.width \in Nat /\ p.deep \in BOOLEAN
  BY PictureFields DEF ProofInv, SeenTyped
<1>1. CASE turn.stage = "done"
  <2>1. t = turn
    BY <1>1 DEF Update
  <2> QED BY <1>0, <1>1, <2>1
<1>2. CASE turn.stage # "done"
  <2> DEFINE seen == [turn EXCEPT !.frontalAspect = IF p.width > @ THEN p.width ELSE @]
  <2>1. /\ seen \in [stage : Stages, frontalAspect : Nat, prevFrontal : BOOLEAN,
                     noise : Nat, deep : Nat, flat : Nat]
        /\ seen.stage = turn.stage /\ seen.deep = turn.deep /\ seen.flat = turn.flat
        /\ seen.frontalAspect = IF p.width > turn.frontalAspect THEN p.width ELSE turn.frontalAspect
    BY <1>0
  <2>2. /\ turn.stage = "frontal" => t = LearnJitter(seen, p.width)
        /\ turn.stage = "turn" => t \in MeasureTurn(seen, p)
        /\ turn.stage = "back" => t = LookBack(seen, p.width)
    BY <1>2 DEF Update
  <2> HIDE DEF seen
  <2>3. CASE turn.stage = "frontal"
    <3>1. /\ t \in [stage : Stages, frontalAspect : Nat, prevFrontal : BOOLEAN,
                    noise : Nat, deep : Nat, flat : Nat]
          /\ t.frontalAspect = seen.frontalAspect /\ t.deep = seen.deep
          /\ t.stage \in {"frontal", "turn"}
      <4>1. CASE ~Frontal(seen.frontalAspect, p.width)
        BY <2>1, <2>2, <2>3, <4>1 DEF LearnJitter, Stages
      <4>2. CASE Frontal(seen.frontalAspect, p.width)
        <5>1. PICK n : n = IF seen.prevFrontal THEN seen.noise + 1 ELSE seen.noise
          OBVIOUS
        <5>2. n \in Nat
          BY <2>1, <5>1
        <5>3. t = [seen EXCEPT !.prevFrontal = TRUE, !.noise = n,
                               !.stage = IF n = NoiseSamples THEN "turn" ELSE "frontal"]
          BY <2>2, <2>3, <4>2, <5>1 DEF LearnJitter
        <5> QED BY <2>1, <5>2, <5>3 DEF Stages
      <4> QED BY <4>1, <4>2
    <3> QED BY <2>1, <2>3, <3>1
  <2>4. CASE turn.stage = "back"
    <3>1. /\ t \in [stage : Stages, frontalAspect : Nat, prevFrontal : BOOLEAN,
                    noise : Nat, deep : Nat, flat : Nat]
          /\ t.frontalAspect = seen.frontalAspect /\ t.deep = seen.deep
          /\ t.stage = "done" => p.width = seen.frontalAspect
      BY <2>1, <2>2, <2>4 DEF LookBack, Frontal, Stages
    <3> QED BY <2>1, <2>4, <3>1
  <2>5. CASE turn.stage = "turn"
    <3>1. CASE ~Turned(seen.frontalAspect, p.width)
      <4>1. t = seen
        BY <2>2, <2>5, <3>1 DEF MeasureTurn
      <4> QED BY <2>1, <2>5, <4>1
    <3>2. CASE Turned(seen.frontalAspect, p.width)
      <4>1. PICK more : more = IF p.deep THEN [seen EXCEPT !.deep = seen.deep + 1]
                                         ELSE [seen EXCEPT !.flat = seen.flat + 1]
        OBVIOUS
      <4>2. PICK proven \in Proven(more) :
              t = IF proven THEN [more EXCEPT !.stage = "back"]
                  ELSE IF more.deep + more.flat = RetrySamples
                       THEN [more EXCEPT !.deep = 0, !.flat = 0]
                       ELSE more
        BY <2>2, <2>5, <3>2, <4>1 DEF MeasureTurn
      <4>3. /\ more \in [stage : Stages, frontalAspect : Nat, prevFrontal : BOOLEAN,
                         noise : Nat, deep : Nat, flat : Nat]
            /\ more.frontalAspect = seen.frontalAspect /\ more.stage = "turn"
            /\ more.deep > 0 => seen.deep > 0 \/ p.deep
        BY <1>0, <2>1, <2>5, <4>1
      <4>4. proven => more.deep > 0
        <5>1. CASE more.deep + more.flat < TurnSamples
          BY <4>2, <5>1 DEF Proven
        <5>2. CASE ~(more.deep + more.flat < TurnSamples)
          <6>1. CASE more.deep = more.flat
            BY <4>3, <5>2, <6>1, SamplesAssumption
          <6>2. CASE more.deep # more.flat
            <7>1. proven \in {more.deep > more.flat}
              BY <4>2, <5>2, <6>2 DEF Proven
            <7>2. proven => more.deep > more.flat
              BY <7>1, Zenon
            <7> QED BY <4>3, <7>2
          <6> QED BY <6>1, <6>2
        <5> QED BY <5>1, <5>2
      <4>5. p.width + 2 <= seen.frontalAspect
        BY <3>2 DEF Turned
      <4>6. /\ t \in [stage : Stages, frontalAspect : Nat, prevFrontal : BOOLEAN,
                      noise : Nat, deep : Nat, flat : Nat]
            /\ t.frontalAspect = seen.frontalAspect /\ t.stage \in {"turn", "back"}
            /\ t.deep > 0 \/ t.stage = "back" => more.deep > 0
        <5>1. CASE proven
          <6>1. t = [more EXCEPT !.stage = "back"]
            BY <4>2, <5>1
          <6> QED BY <4>3, <4>4, <5>1, <6>1 DEF Stages
        <5>2. CASE ~proven
          <6>1. t = [more EXCEPT !.deep = 0, !.flat = 0] \/ t = more
            BY <4>2, <5>2
          <6>2. CASE t = more
            BY <4>3, <6>2
          <6>3. CASE t = [more EXCEPT !.deep = 0, !.flat = 0]
            <7>1. /\ t.deep = 0 /\ t.stage = "turn" /\ t.frontalAspect = more.frontalAspect
                  /\ t \in [stage : Stages, frontalAspect : Nat, prevFrontal : BOOLEAN,
                            noise : Nat, deep : Nat, flat : Nat]
              BY <4>3, <6>3
            <7> QED BY <4>3, <7>1
          <6> QED BY <6>1, <6>2, <6>3
        <5> QED BY <5>1, <5>2
      <4> QED BY <2>1, <2>5, <4>3, <4>5, <4>6
    <3> QED BY <3>1, <3>2
  <2> QED BY <1>0, <1>2, <2>3, <2>4, <2>5 DEF Stages
<1> QED BY <1>1, <1>2

\* What one more detected picture of a face adds to what it has shown.
LEMMA Witnessed ==
  ASSUME SeenTyped, NEW p \in Pictures, NEW w, w = Witness(p)
  PROVE  /\ w \in [widest : Nat, turnedTo : Nat, back : BOOLEAN, closed : BOOLEAN, acted : BOOLEAN]
         /\ ~FaceIn(p) => w = Unproven
         /\ FaceIn(p) =>
              /\ w.widest = IF p.width > proof.widest THEN p.width ELSE proof.widest
              /\ w.turnedTo = IF p.deep /\ p.width + 2 <= w.widest THEN p.width ELSE proof.turnedTo
              /\ w.back <=> proof.back \/ (w.turnedTo > 0 /\ p.width >= w.turnedTo + 2)
              /\ w.closed <=> proof.closed \/ ((wanted.turn => w.back) /\ p.act)
              /\ proof.acted => w.acted
              /\ (wanted.turn => w.back) /\ (IF wanted.action = "blink" THEN w.closed /\ ~p.act ELSE p.act)
                   => w.acted
<1>0. /\ proof \in [widest : Nat, turnedTo : Nat, back : BOOLEAN, closed : BOOLEAN, acted : BOOLEAN]
      /\ p.width \in Nat
  BY PictureFields DEF SeenTyped
<1>1. CASE ~FaceIn(p)
  <2>1. w = Unproven
    BY <1>1 DEF Witness, FaceIn
  <2> QED BY <1>1, <2>1 DEF Unproven
<1>2. CASE FaceIn(p)
  <2>1. PICK widest \in Nat : widest = IF p.width > proof.widest THEN p.width ELSE proof.widest
    BY <1>0
  <2>2. PICK narrow \in Nat : narrow = IF p.deep /\ p.width + 2 <= widest THEN p.width ELSE proof.turnedTo
    BY <1>0, <2>1
  <2>3. PICK back \in BOOLEAN : back <=> proof.back \/ (narrow > 0 /\ p.width >= narrow + 2)
    OBVIOUS
  <2>4. PICK closed \in BOOLEAN : closed <=> proof.closed \/ ((wanted.turn => back) /\ p.act)
    OBVIOUS
  <2>5. PICK acted \in BOOLEAN :
          acted <=> \/ proof.acted
                    \/ /\ wanted.turn => back
                       /\ IF wanted.action = "blink" THEN closed /\ ~p.act ELSE p.act
    OBVIOUS
  <2>6. /\ back = (proof.back \/ (narrow > 0 /\ p.width >= narrow + 2))
        /\ closed = (proof.closed \/ ((wanted.turn => back) /\ p.act))
        /\ acted = (\/ proof.acted
                    \/ /\ wanted.turn => back
                       /\ IF wanted.action = "blink" THEN closed /\ ~p.act ELSE p.act)
    <3>1. back = (proof.back \/ (narrow > 0 /\ p.width >= narrow + 2))
      BY <2>3, Zenon
    <3>2. closed = (proof.closed \/ ((wanted.turn => back) /\ p.act))
      BY <2>4, Zenon
    <3>3. acted = (\/ proof.acted
                    \/ /\ wanted.turn => back
                       /\ IF wanted.action = "blink" THEN closed /\ ~p.act ELSE p.act)
      BY <2>5, Zenon
    <3> QED BY <3>1, <3>2, <3>3
  <2>7. w = [widest |-> widest, turnedTo |-> narrow, back |-> back, closed |-> closed, acted |-> acted]
    BY <1>2, <2>1, <2>2, <2>6, Zenon DEF Witness, FaceIn
  <2>8. /\ w.widest = widest /\ w.turnedTo = narrow /\ w.back = back /\ w.closed = closed
        /\ w.acted = acted
    BY <2>7
  <2>9. w \in [widest : Nat, turnedTo : Nat, back : BOOLEAN, closed : BOOLEAN, acted : BOOLEAN]
    BY <2>7
  <2>10. w.back <=> proof.back \/ (w.turnedTo > 0 /\ p.width >= w.turnedTo + 2)
    BY <2>3, <2>8, Zenon
  <2>11. w.closed <=> proof.closed \/ ((wanted.turn => w.back) /\ p.act)
    BY <2>4, <2>8, Zenon
  <2>12. /\ proof.acted => w.acted
         /\ (wanted.turn => w.back) /\ (IF wanted.action = "blink" THEN w.closed /\ ~p.act ELSE p.act)
              => w.acted
    BY <2>5, <2>8, Zenon
  <2>13. /\ w.widest = IF p.width > proof.widest THEN p.width ELSE proof.widest
         /\ w.turnedTo = IF p.deep /\ p.width + 2 <= w.widest THEN p.width ELSE proof.turnedTo
    BY <2>1, <2>2, <2>8, Zenon
  <2> QED BY <1>2, <2>9, <2>10, <2>11, <2>12, <2>13, Zenon
<1> QED BY <1>1, <1>2

\* Whether the turn counts as done when a picture is judged.
TurnedBy(t) == IF wanted.turn /\ Detects THEN t.stage = "done" ELSE turnDone

\* What a judgement takes, and what the photo takes.
LEMMA Judged ==
  ASSUME SeenTyped, NEW p, NEW t, Judge(p, t)
  PROVE  /\ turn' = t
         /\ turnDone' \in BOOLEAN /\ sawClosed' \in BOOLEAN /\ challengeDone' \in BOOLEAN
         /\ capturing' \in BOOLEAN
         /\ turnDone' => TurnedBy(t) /\ (wanted.turn => FaceOk(p))
         /\ sawClosed' => FaceOk(p) /\ (sawClosed \/ (TurnedBy(t) /\ wanted.action = "blink" /\ p.act))
         /\ challengeDone' /\ wanted.action # "no" =>
              /\ FaceOk(p)
              /\ \/ challengeDone
                 \/ TurnedBy(t) /\ (IF wanted.action = "blink" THEN sawClosed' /\ ~p.act ELSE p.act)
         /\ capturing' /\ ~capturing => FaceOk(p) /\ TurnedBy(t) /\ challengeDone'
<1>1. turn' = t /\ turnDone' = (TurnedBy(t) /\ (FaceOk(p) \/ ~wanted.turn))
  BY Zenon DEF Judge, TurnedBy
<1>2. sawClosed' = (FaceOk(p) /\ (sawClosed \/ (TurnedBy(t) /\ wanted.action = "blink" /\ p.act)))
  BY Zenon DEF Judge, TurnedBy
<1>3. challengeDone' = (\/ wanted.action = "no"
                        \/ /\ FaceOk(p)
                           /\ challengeDone \/ (TurnedBy(t) /\ IF wanted.action = "blink" THEN sawClosed' /\ ~p.act
                                                                                         ELSE p.act))
  BY <1>2, Zenon DEF Judge, TurnedBy
<1>4. /\ capturing' = (capturing \/ held' > Hold)
      /\ ~(FaceOk(p) /\ TurnedBy(t) /\ challengeDone') => held' = 0
  BY <1>2, <1>3, Zenon DEF Judge, TurnedBy
<1>5. held' = 0 => ~(held' > Hold)
  BY CameraAssumption
<1> QED BY <1>1, <1>2, <1>3, <1>4, <1>5, Zenon

\* A picture that was detected is judged and witnessed in one step.
LEMMA DetectedKeeps ==
  ASSUME ProofInv, NEW p \in Pictures, Detects,
         NEW t \in IF wanted.turn THEN Update(turn, p, FaceOk(p)) ELSE {turn},
         Judge(p, t), latest' = p, proof' = Witness(p),
         wanted' = wanted, even' \in BOOLEAN, frozen' = frozen
  PROVE  ProofInv' /\ (capturing' /\ ~capturing => Shown(proof'))
<1>0. PICK w : w = Witness(p) /\ proof' = w
  OBVIOUS
<1>1. /\ SeenTyped /\ p.width \in Nat
      /\ turn \in [stage : Stages, frontalAspect : Nat, prevFrontal : BOOLEAN,
                   noise : Nat, deep : Nat, flat : Nat]
      /\ proof \in [widest : Nat, turnedTo : Nat, back : BOOLEAN, closed : BOOLEAN, acted : BOOLEAN]
  BY PictureFields DEF ProofInv, SeenTyped
<1>2. /\ w \in [widest : Nat, turnedTo : Nat, back : BOOLEAN, closed : BOOLEAN, acted : BOOLEAN]
      /\ ~FaceIn(p) => w = Unproven
  BY <1>0, <1>1, Witnessed
<1>3. t \in [stage : Stages, frontalAspect : Nat, prevFrontal : BOOLEAN,
             noise : Nat, deep : Nat, flat : Nat]
  <2>1. CASE ~wanted.turn
    BY <1>1, <2>1
  <2>2. CASE wanted.turn /\ FaceOk(p)
    BY <2>2, UpdateOk
  <2>3. CASE wanted.turn /\ ~FaceOk(p)
    <3>1. t = Fresh
      BY <2>3 DEF Update
    <3> QED BY <3>1 DEF Fresh, Stages
  <2> QED BY <2>1, <2>2, <2>3
<1>4. wanted.turn => TurnedBy(t) = (t.stage = "done")
  BY DEF TurnedBy
<1>5. wanted.turn =>
        \/ w.back
        \/ /\ t.stage # "done"
           /\ t.frontalAspect = w.widest
           /\ t.deep > 0 => w.turnedTo > 0
           /\ t.stage = "back" => w.turnedTo > 0
           /\ w.turnedTo > 0 => w.turnedTo + 2 <= w.widest
  <2> SUFFICES ASSUME wanted.turn, ~w.back
               PROVE  /\ t.stage # "done"
                      /\ t.frontalAspect = w.widest
                      /\ t.deep > 0 => w.turnedTo > 0
                      /\ t.stage = "back" => w.turnedTo > 0
                      /\ w.turnedTo > 0 => w.turnedTo + 2 <= w.widest
    OBVIOUS
  <2>1. CASE ~FaceIn(p)
    <3>1. w = Unproven
      BY <1>2, <2>1
    <3>2. ~FaceOk(p)
      BY <2>1, PictureFields
    <3>3. t = Fresh
      BY <3>2 DEF Update
    <3> QED BY <3>1, <3>3 DEF Unproven, Fresh
  <2>2. CASE FaceIn(p)
    <3>1. /\ w.widest = IF p.width > proof.widest THEN p.width ELSE proof.widest
          /\ w.turnedTo = IF p.deep /\ p.width + 2 <= w.widest THEN p.width ELSE proof.turnedTo
          /\ w.back <=> proof.back \/ (w.turnedTo > 0 /\ p.width >= w.turnedTo + 2)
      BY <1>0, <1>1, <2>2, Witnessed
    <3>2. ~proof.back
      BY <3>1
    <3>3. /\ turn.stage # "done" /\ ~turnDone
          /\ turn.frontalAspect = proof.widest
          /\ turn.deep > 0 => proof.turnedTo > 0
          /\ turn.stage = "back" => proof.turnedTo > 0
          /\ proof.turnedTo > 0 => proof.turnedTo + 2 <= proof.widest
      BY <3>2 DEF ProofInv, TurnSeen
    <3>4. FaceOk(p) /\ p.width > 0
      BY <2>2, <3>3, PictureFields
    <3>5. /\ t.frontalAspect = IF p.width > turn.frontalAspect THEN p.width ELSE turn.frontalAspect
          /\ t.deep > 0 \/ (t.stage = "back" /\ turn.stage # "back") =>
               turn.deep > 0 \/ (p.deep /\ p.width + 2 <= t.frontalAspect)
          /\ t.stage = "done" => turn.stage = "back" /\ p.width = t.frontalAspect
      BY <3>3, <3>4, UpdateOk
    <3>6. t.frontalAspect = w.widest
      BY <1>1, <3>1, <3>3, <3>5
    <3>7. proof.turnedTo > 0 \/ (p.deep /\ p.width + 2 <= w.widest) => w.turnedTo > 0
      BY <1>1, <3>1, <3>4
    <3>8. /\ t.deep > 0 => w.turnedTo > 0
          /\ t.stage = "back" => w.turnedTo > 0
      BY <3>3, <3>5, <3>6, <3>7
    <3>9. w.turnedTo > 0 => w.turnedTo + 2 <= w.widest
      BY <1>1, <1>2, <3>1, <3>3
    <3>10. t.stage # "done"
      <4>1. SUFFICES ASSUME t.stage = "done" PROVE FALSE
        OBVIOUS
      <4>2. turn.stage = "back" /\ p.width = w.widest
        BY <3>5, <3>6, <4>1
      <4>3. w.turnedTo > 0 /\ p.width >= w.turnedTo + 2
        BY <1>1, <1>2, <3>3, <3>7, <3>9, <4>2
      <4> QED BY <3>1, <4>3
    <3> QED BY <3>6, <3>8, <3>9, <3>10
  <2> QED BY <2>1, <2>2
<1>6. /\ turn' = t
      /\ turnDone' \in BOOLEAN /\ sawClosed' \in BOOLEAN /\ challengeDone' \in BOOLEAN
      /\ capturing' \in BOOLEAN
      /\ turnDone' => TurnedBy(t) /\ (wanted.turn => FaceOk(p))
      /\ sawClosed' => FaceOk(p) /\ (sawClosed \/ (TurnedBy(t) /\ wanted.action = "blink" /\ p.act))
      /\ challengeDone' /\ wanted.action # "no" =>
           /\ FaceOk(p)
           /\ \/ challengeDone
              \/ TurnedBy(t) /\ (IF wanted.action = "blink" THEN sawClosed' /\ ~p.act ELSE p.act)
      /\ capturing' /\ ~capturing => FaceOk(p) /\ TurnedBy(t) /\ challengeDone'
  BY <1>1, Judged
<1>7. TurnedBy(t) /\ wanted.turn => w.back
  BY <1>4, <1>5
<1>8. FaceOk(p) => FaceIn(p)
  BY PictureFields
<1>9. FaceIn(p) =>
        /\ w.closed <=> proof.closed \/ ((wanted.turn => w.back) /\ p.act)
        /\ proof.acted => w.acted
        /\ (wanted.turn => w.back) /\ (IF wanted.action = "blink" THEN w.closed /\ ~p.act ELSE p.act)
             => w.acted
  BY <1>0, <1>1, Witnessed
<1>10. sawClosed' => w.closed
  <2>1. sawClosed => proof.closed
    BY DEF ProofInv, ActSeen
  <2> QED BY <1>6, <1>7, <1>8, <1>9, <2>1, Zenon
<1>11. challengeDone' /\ wanted.action # "no" => w.acted
  <2>1. challengeDone /\ wanted.action # "no" => proof.acted
    BY DEF ProofInv, ActSeen
  <2> QED BY <1>6, <1>7, <1>8, <1>9, <1>10, <2>1, Zenon
<1>12. FaceIn(p) /\ turnDone' =>
         /\ wanted.action = "pose" /\ p.act => w.acted
         /\ wanted.action = "blink" /\ p.act => w.closed
         /\ wanted.action = "blink" /\ ~p.act /\ w.closed => w.acted
  <2>1. wanted.action = "pose" => wanted.action # "blink"
    OBVIOUS
  <2> QED BY <1>6, <1>7, <1>9, <2>1, Zenon
<1>13. SeenTyped'
  BY <1>0, <1>1, <1>2, <1>3, <1>6 DEF SeenTyped
<1>14. TurnSeen'
  <2>1. wanted.turn /\ ~w.back => ~turnDone'
    BY <1>6, <1>7
  <2> QED BY <1>0, <1>5, <1>6, <2>1 DEF TurnSeen
<1>15. ActSeen'
  BY <1>0, <1>10, <1>11, <1>12 DEF ActSeen, FaceIn
<1>16. capturing' /\ ~capturing => Shown(proof')
  BY <1>0, <1>6, <1>7, <1>11 DEF Shown
<1> QED BY <1>13, <1>14, <1>15, <1>16 DEF ProofInv

\* A picture that was detected before is judged again.
LEMMA AgainKeeps ==
  ASSUME ProofInv, ~Detects, Judge(latest, turn), latest' = latest, proof' = proof,
         wanted' = wanted, even' \in BOOLEAN, frozen' = frozen
  PROVE  ProofInv' /\ (capturing' /\ ~capturing => Shown(proof'))
<1>1. SeenTyped /\ latest \in Pictures
  BY DEF ProofInv, SeenTyped
<1>2. TurnedBy(turn) <=> turnDone
  BY DEF TurnedBy
<1>3. /\ turn' = turn
      /\ turnDone' \in BOOLEAN /\ sawClosed' \in BOOLEAN /\ challengeDone' \in BOOLEAN
      /\ capturing' \in BOOLEAN
      /\ turnDone' => turnDone
      /\ sawClosed' => FaceOk(latest) /\ (sawClosed \/ (turnDone /\ wanted.action = "blink" /\ latest.act))
      /\ challengeDone' /\ wanted.action # "no" =>
           /\ FaceOk(latest)
           /\ \/ challengeDone
              \/ turnDone /\ (IF wanted.action = "blink" THEN sawClosed' /\ ~latest.act ELSE latest.act)
      /\ capturing' /\ ~capturing => turnDone /\ challengeDone'
  BY <1>1, <1>2, Judged
<1>4. FaceOk(latest) => FaceIn(latest)
  BY <1>1, PictureFields
<1>5. wanted.turn /\ turnDone => proof.back
  BY DEF ProofInv, TurnSeen
<1>6. /\ sawClosed => proof.closed
      /\ wanted.action # "no" /\ challengeDone => proof.acted
      /\ FaceIn(latest) /\ turnDone =>
           /\ wanted.action = "pose" /\ latest.act => proof.acted
           /\ wanted.action = "blink" /\ latest.act => proof.closed
           /\ wanted.action = "blink" /\ ~latest.act /\ proof.closed => proof.acted
  BY DEF ProofInv, ActSeen
<1>7. sawClosed' => proof.closed
  BY <1>3, <1>4, <1>6, Zenon
<1>8. wanted.action \in {"no", "blink", "pose"}
  BY <1>1 DEF SeenTyped, Proof
<1>9. challengeDone' /\ wanted.action # "no" => proof.acted
  BY <1>3, <1>4, <1>6, <1>7, <1>8
<1>10. SeenTyped'
  BY <1>1, <1>3 DEF SeenTyped
<1>11. TurnSeen'
  BY <1>3 DEF ProofInv, TurnSeen
<1>12. ActSeen'
  BY <1>3, <1>6, <1>7, <1>9 DEF ActSeen, FaceIn
<1>13. capturing' /\ ~capturing => Shown(proof')
  BY <1>3, <1>5, <1>9 DEF Shown
<1> QED BY <1>10, <1>11, <1>12, <1>13 DEF ProofInv

\* Any other step leaves the proofs alone, or forgets the last picture.
LEMMA StillShown ==
  ASSUME ProofInv, UNCHANGED <<wanted, proofs, capturing, proof>>, even' \in BOOLEAN,
         latest' \in {latest, NoFace}, frozen' \in Pictures
  PROVE  ProofInv' /\ ~(capturing' /\ ~capturing)
<1>1. UNCHANGED <<wanted, turn, turnDone, sawClosed, challengeDone, capturing, proof>>
  BY DEF proofs
<1>2. NoFace \in Pictures /\ ~FaceIn(NoFace)
  BY DEF Pictures, NoFace, FaceIn
<1>3. SeenTyped'
  BY <1>1, <1>2 DEF ProofInv, SeenTyped
<1>4. TurnSeen'
  BY <1>1 DEF ProofInv, TurnSeen
<1>5. ActSeen'
  <2>1. CASE latest' = latest
    BY <1>1, <2>1 DEF ProofInv, ActSeen, FaceIn
  <2>2. CASE latest' = NoFace
    BY <1>1, <1>2, <2>2 DEF ProofInv, ActSeen, FaceIn
  <2> QED BY <2>1, <2>2
<1> QED BY <1>1, <1>3, <1>4, <1>5 DEF ProofInv

LEMMA FrameKeeps ==
  ASSUME ProofInv, Frame, Recollect, AcrossFlips
  PROVE  ProofInv' /\ (capturing' /\ ~capturing => Shown(proof'))
<1>0. /\ even' = ~even /\ wanted' = wanted /\ frozen' = frozen /\ stream' = stream
      /\ even \in BOOLEAN
  BY DEF Frame, camera, ProofInv, SeenTyped
<1>1. even' \in BOOLEAN /\ even' # even
  BY <1>0, Zenon
<1>2. proof' = IF shown /\ Detects THEN Witness(latest') ELSE proof
  <2>1. CASE shown /\ Detects
    BY <1>0, <1>1, <2>1 DEF Recollect
  <2>2. CASE ~(shown /\ Detects)
    BY <1>0, <2>2 DEF Recollect
  <2> QED BY <2>1, <2>2
<1>3. CASE ~shown
  <2>1. UNCHANGED <<latest, turn, turnDone, sawClosed, challengeDone, capturing, proof>>
    BY <1>2, <1>3 DEF Frame
  <2>2. SeenTyped'
    BY <1>0, <1>1, <2>1 DEF ProofInv, SeenTyped
  <2>3. TurnSeen' /\ ActSeen'
    BY <1>0, <2>1 DEF ProofInv, TurnSeen, ActSeen, FaceIn
  <2> QED BY <2>1, <2>2, <2>3 DEF ProofInv
<1>4. CASE shown
  <2>1. PICK p \in IF ~Detects THEN {latest} ELSE IF stream \in live THEN Pictures ELSE {frozen} :
          /\ latest' = p
          /\ \E t \in IF wanted.turn /\ Detects THEN Update(turn, p, FaceOk(p)) ELSE {turn} : Judge(p, t)
    BY <1>4 DEF Frame
  <2>2. PICK t \in IF wanted.turn /\ Detects THEN Update(turn, p, FaceOk(p)) ELSE {turn} : Judge(p, t)
    BY <2>1
  <2>3. CASE Detects
    <3>1. p \in Pictures
      BY <2>1, <2>3 DEF ProofInv, SeenTyped
    <3>2. t \in IF wanted.turn THEN Update(turn, p, FaceOk(p)) ELSE {turn}
      BY <2>2, <2>3
    <3>3. proof' = Witness(p)
      BY <1>2, <1>4, <2>1, <2>3
    <3> QED BY <1>0, <1>1, <2>1, <2>2, <2>3, <3>1, <3>2, <3>3, DetectedKeeps
  <2>4. CASE ~Detects
    <3>1. p = latest /\ t = turn /\ proof' = proof
      BY <1>2, <2>1, <2>2, <2>4
    <3> QED BY <1>0, <1>1, <2>1, <2>2, <2>4, <3>1, AgainKeeps
  <2> QED BY <2>3, <2>4
<1> QED BY <1>3, <1>4

LEMMA ProofStep ==
  ASSUME AcrossFlips, ProofInv, [MCNext]_watchedVars
  PROVE  ProofInv' /\ (capturing' /\ ~capturing => Shown(proof'))
<1>1. CASE UNCHANGED watchedVars
  <2>1. /\ UNCHANGED <<wanted, proofs, capturing, proof, even, latest, frozen>>
    BY <1>1 DEF watchedVars, cameraVars, detection, camera
  <2> QED BY <2>1, StillShown DEF ProofInv, SeenTyped
<1>2. CASE MCNext
  <2>0. CameraNext /\ Recollect
    BY <1>2 DEF MCNext
  <2>1. CASE Frame
    BY <2>0, <2>1, FrameKeeps
  <2>2. CASE \/ Flip \/ Close \/ Encoded \/ Begin \/ Check \/ FramesArrive \/ DetectorLoads
             \/ \E i \in 1 .. Calls : Answer(i) \/ Refuse(i)
    <3>1. UNCHANGED <<wanted, proofs, capturing, even>>
      BY <2>2 DEF Flip, Close, Encoded, Begin, Check, FramesArrive, DetectorLoads, Answer, Refuse, detection
    <3>2. latest' \in {latest, NoFace}
      BY <2>2 DEF Flip, Close, Encoded, Begin, Check, FramesArrive, DetectorLoads, Answer, Refuse, detection
    <3>3. frozen' \in Pictures
      <4>1. frozen \in Pictures /\ NoFace \in Pictures
        BY DEF ProofInv, SeenTyped, Pictures
      <4> QED BY <2>2, <4>1 DEF Flip, Close, Encoded, Begin, Check, FramesArrive, DetectorLoads, Answer, Refuse,
                               camera
    <3>4. proof' = proof
      BY <2>0, <3>1 DEF Recollect
    <3>5. even' \in BOOLEAN
      BY <3>1 DEF ProofInv, SeenTyped
    <3> QED BY <3>1, <3>2, <3>3, <3>4, <3>5, StillShown
  <2> QED BY <2>0, <2>1, <2>2 DEF CameraNext
<1> QED BY <1>1, <1>2

(* The photo is taken of a face that has turned and come back, and then    *)
(* made the expression, as far as each was asked for, since it was last    *)
(* out of the frame; what one camera saw counts for the other.             *)
THEOREM PhotoIsOfAProvenFace ==
  ASSUME AcrossFlips
  PROVE  MCSpec => ProvenBeforePhoto
<1>1. ProofInv /\ [MCNext]_watchedVars => ProofInv' /\ [capturing' /\ ~capturing => Shown(proof')]_watchedVars
  BY ProofStep
<1> QED BY <1>1, ProofBegins, PTL DEF MCSpec, ProvenBeforePhoto
=============================================================================
