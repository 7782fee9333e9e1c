--------------------------- MODULE MCStoredFiles ---------------------------
(***************************************************************************)
(* StoredFiles for TLC: three requests at a time, two places a face photo  *)
(* may go, one capture.  `alone' remembers which requests began with the   *)
(* books straight and have met nothing since: no other request, no         *)
(* failure, no change of the place or of the setting.  `lost' remembers    *)
(* which paths were left in use without a row, in the ways listed below.   *)
(***************************************************************************)
EXTENDS StoredFiles, TLC

VARIABLES alone, lost

allVars == <<vars, alone, lost>>

Interchangeable == Permutations(Requests) \cup Permutations(FacePaths)

Busy == {r \in Requests : req[r] # Idle}

\* Bound: three at once are an enrolment, a deletion of its photo and resets.  Captures
\* have rows and columns of their own, and meet two at a time.
Focus == Busy = Requests =>
  /\ \A r \in Requests : req[r].op # "check" /\ req[r].path \notin ProbePaths
  /\ \A q, r \in Requests : q # r /\ req[q].op = req[r].op => req[q].op = "reset"

(* The rows, the files and the columns that point at them say the same,    *)
(* and who has a photo or is called enrolled has a template.               *)
Straight == /\ rows = disk
            /\ rows = Pointers
            /\ enrolled => template.there
            /\ template.photo # NoPath => enrolled

\* A check stores a path its request named.
Names(r, p) == p # NoPath /\ CommitBareCheck(r, p)

Stops(r) == GiveUp(r) \/ Abort(r) \/ ProbeFileFails(r) \/ \E p \in SentPaths : Names(r, p)

\* A deletion that is lost now is lost between its two transactions.
TornBy(r) == IF At(r, "delete", "clear") THEN {req[r].path} ELSE {}

\* A reset removes the row of the photo it read, and found no template: another reset had
\* removed that one, and an enrolment has put the next.
ResetOvertaken(r) == CommitReset(r) /\ req[r].onRow /\ ~req[r].onTemplate

MCInit == Init /\ alone = {} /\ lost = {}

\* Only one request is under way after the step, it has just begun or was
\* already alone, and the step is none of the above.
RememberAlone ==
  alone' = {r \in Requests : /\ req'[r] # Idle
                             /\ \A o \in Requests \ {r} : req'[o] = Idle
                             /\ r \in alone \/ (req[r] = Idle /\ Straight)
                             /\ ~Stops(r)
                             /\ UNCHANGED <<directory, storing>>}

RememberLost(torn) ==
  lost' = {p \in Pointers' \ rows' :
             \/ p \in lost \cup torn
             \/ \E r \in Requests : (req[r].path = p /\ ResetOvertaken(r)) \/ Names(r, p)}

BooksNext ==
  /\ \/ Work /\ RememberLost({})
     \/ \E r \in Requests : Abort(r) /\ RememberLost(TornBy(r))
  /\ RememberAlone

BooksSpec == MCInit /\ [][BooksNext]_allVars

(* A path kept in a template or in an attendance row has its attachments   *)
(* row, without which no link to the picture can be signed, or the request *)
(* that deleted the row is about to clear the path.  There are only three  *)
(* ways out of this: a deletion that stops between its two transactions    *)
(* (storage.service.ts:30), a reset that another overtook (face.service.   *)
(* ts:29), and a path that a client names (attendance.service.ts:99).      *)
PointsAtARow == \A p \in Pointers : p \in rows \/ BeingDeleted(p) \/ p \in lost

(* A request that began with the books straight, ran alone and was not     *)
(* stopped leaves them straight: what can be left over or go missing comes *)
(* only from requests that meet or from one that fails.                    *)
AloneLeavesItStraight ==
  [][\A r \in alone : (req[r] # Idle /\ req'[r] = Idle /\ ~Stops(r)) => Straight']_allVars

---------------------------------------------------------------------------
(* What the code does not keep.                                            *)

Quiet == Busy = {}

(* face.service.ts:72, paths.ts:96: a fixed name, so enrolling again       *)
(* replaces the photo and leaves no second file that nothing points at.    *)
NoFileNothingPointsAt == Quiet => disk \subseteq Pointers

(* A row whose file is gone is never made by a request that ends well.     *)
RowHasItsFile == Quiet => rows \subseteq disk

(* FaceEnrollmentPage.tsx:290: after a reset the page offers enrolment     *)
(* again, so whoever has no template is not called enrolled.               *)
EnrolledHasATemplate == Quiet /\ enrolled => template.there
=============================================================================
