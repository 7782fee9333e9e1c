---------------------------- MODULE MCPhotoCamera ----------------------------
(***************************************************************************)
(* PhotoCamera for TLC, with what the face in view has shown since it was  *)
(* last out of the frame (`proof'), and the cameras that were answered     *)
(* after the end or while another was asked for (`stray').                 *)
(***************************************************************************)
EXTENDS PhotoCamera

CONSTANT AcrossFlips  \* what a face showed to one camera counts for the next

VARIABLES proof, stray

watchedVars == <<cameraVars, proof, stray>>

Unproven == [widest |-> 0, turnedTo |-> 0, back |-> FALSE, closed |-> FALSE, acted |-> FALSE]

\* What a face has shown, one detected picture later: it turned when it was
\* deep and two narrower than before, came back when it was two wider again, and
\* acted, after that where a turn is asked for.
Witness(p) ==
    IF p.faces # 1 \/ p.place = "off" THEN Unproven
    ELSE LET widest == IF p.width > proof.widest THEN p.width ELSE proof.widest
             narrow == IF p.deep /\ p.width + 2 <= widest THEN p.width ELSE proof.turnedTo
             back   == proof.back \/ (narrow > 0 /\ p.width >= narrow + 2)
             may    == wanted.turn => back
             closed == proof.closed \/ (may /\ p.act)
         IN  [widest |-> widest, turnedTo |-> narrow, back |-> back, closed |-> closed,
              acted |-> \/ proof.acted
                        \/ may /\ IF wanted.action = "blink" THEN closed /\ ~p.act ELSE p.act]

Pending == {i \in 1 .. Calls : call[i] = "asking"}

MCCameraInit == CameraInit /\ proof = Unproven /\ stray = {}

\* even changes with every animation frame and with nothing else.
Recollect ==
    /\ proof' = CASE even' # even /\ shown /\ Detects       -> Witness(latest')
                  [] stream' # stream /\ ~AcrossFlips        -> Unproven
                  [] OTHER                                   -> proof
    /\ stray' = IF live' \ live # {} /\ (done # "open" \/ (\E i, j \in Pending : i # j))
                THEN stray \cup (live' \ live) ELSE stray

MCNext == CameraNext /\ Recollect

MCSpec == MCCameraInit /\ [][MCNext]_watchedVars /\ WF_cameraVars(Begin) /\ WF_cameraVars(Check)

Shown(seen) ==
    /\ wanted.turn => seen.back
    /\ wanted.action # "no" => seen.acted

(* turnChallenge.ts:65: whatever was lost on the way, the photo is taken   *)
(* of a face that has, since it was last seen out of the frame, turned and *)
(* come back, and then made the expression, as far as each was asked for.  *)
ProvenBeforePhoto == [][capturing' /\ ~capturing => Shown(proof')]_watchedVars

(* Once the caller has its answer no camera is on, except one that was     *)
(* answered after the end or while another was asked for.                  *)
CameraOffAfterwards == done # "open" => live \subseteq stray

(* A capture whose watchdog has begun ends when its video never plays.     *)
GivesUpWhenPaused == ([]~Healthy /\ <>(checks > 0)) => <>(done # "open")

---------------------------------------------------------------------------
(* What the code does not keep.                                            *)

(* photoCapture.ts:480: if the camera never delivers frames, do not leave  *)
(* the member staring at black.                                            *)
BlackFeedEnds == ([]~shown /\ <>(stream # 0)) => <>(done # "open")

(* photoCapture.ts:470: a flip that is refused keeps the current camera.   *)
RefusedFlipKeepsCurrent ==
    (done = "open" /\ stream # 0 /\ Pending = {}) => stream \in live

(* photoCapture.ts:228: the front camera is un-mirrored, the other is not. *)
\* Each flip asks for the other camera, and facing follows the last that was asked for.
MirroredLikeItsCamera == [][capturing' /\ ~capturing => stream % 2 = Made % 2]_watchedVars

=============================================================================
