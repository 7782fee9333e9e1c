----------------------------- MODULE PhotoCamera -----------------------------
(***************************************************************************)
(* The photo camera of the app                                             *)
(* (src/ClientApp/src/lib/camera/photoCapture.ts): one call of             *)
(* capturePhoto, from the first request for a camera to its answer.        *)
(*                                                                         *)
(* Everything runs on one thread, split where the code awaits: a request   *)
(* for a camera is answered late or refused, the detector loads, the       *)
(* picture is encoded, timers and animation frames fire in between, and    *)
(* the user flips or closes at any moment.                                 *)
(***************************************************************************)
EXTENDS TurnChallenge, FiniteSets

CONSTANTS Calls,     \* bound: requests for a camera, the first and one for each flip
          Hold,      \* holdMs: how long the face is held after its proof, in frames
          Patience   \* how often the watchdog looks before it gives up

ASSUME CameraAssumption == Calls \in Nat \ {0} /\ Hold \in Nat /\ Patience \in Nat \ {0}

VARIABLES wanted,         \* the proof the caller asked for, and the expression drawn
          allowed,        \* the browser lets the video play
          detector,       \* "loading", "ready" or "missing"
          call,           \* startStream: "none", "asking", "attached" or "over"
          stream,         \* the camera the variable holds, 0 for none
          live,           \* the cameras that are on
          shown,          \* the video has a picture of its stream
          frozen,         \* the last picture of a stream that was stopped
          looping,        \* an animation frame is scheduled
          checks,         \* looks the watchdog has left, 0 when it is off
          even, ever,     \* the parity of frame; everDetected
          latest,         \* the last detection
          turn, turnDone, sawClosed, challengeDone,
          held,           \* frames since okSince, counting from 1; 0 for none
          capturing,
          done            \* "open", then what the caller was given

camera    == <<call, stream, live, shown, frozen>>
proofs    == <<turn, turnDone, sawClosed, challengeDone, held>>
detection == <<even, ever, latest>>
cameraVars == <<wanted, allowed, detector, camera, looping, checks, detection, proofs, capturing, done>>

\* What the detector can tell of a picture: how many faces, whether one face is
\* out of place, in place for the turn only ("far") or for the photo ("near"),
\* and whether it makes the expression asked for (closed eyes, for a blink).
NoFace == [faces |-> 0, place |-> "off", width |-> 0, deep |-> FALSE, act |-> FALSE]
Pictures ==
    {NoFace, [NoFace EXCEPT !.faces = 1], [NoFace EXCEPT !.faces = 2]}
    \cup [faces : {1}, place : {"far", "near"}, width : Widths, deep : BOOLEAN, act : BOOLEAN]

Proof == [turn : BOOLEAN, action : {"no", "blink", "pose"}]

Start == 1
Made == Cardinality({i \in 1 .. Calls : call[i] # "none"})
Healthy == shown /\ allowed

CameraInit ==
    /\ wanted \in Proof /\ allowed \in BOOLEAN /\ detector = "loading"
    /\ call = [i \in 1 .. Calls |-> IF i = Start THEN "asking" ELSE "none"]
    /\ stream = 0 /\ live = {} /\ shown = FALSE /\ frozen = NoFace
    /\ looping = FALSE /\ checks = 0
    /\ even = TRUE /\ ever = FALSE /\ latest = NoFace
    /\ turn = Fresh /\ turnDone = ~wanted.turn
    /\ sawClosed = FALSE /\ challengeDone = (wanted.action = "no") /\ held = 0
    /\ capturing = FALSE /\ done = "open"

-----------------------------------------------------------------------------
\* finish: only the first one counts.  It stops the camera the variable holds.
Finish(answer) ==
    IF done # "open" THEN UNCHANGED <<done, live, looping>>
    ELSE done' = answer /\ live' = live \ {stream} /\ looping' = FALSE

\* Mutant: the camera in use stays on.
FlipLeavesCameraOn ==
    /\ done = "open" /\ Made < Calls
    /\ call' = [call EXCEPT ![Made + 1] = "asking"]
    /\ latest' = NoFace
    /\ UNCHANGED <<wanted, allowed, detector, stream, live, shown, frozen, looping, checks,
                   even, ever, proofs, capturing, done>>

\* The other camera is asked for, and the one in use is stopped first: the video
\* keeps its last picture.
Flip ==
    /\ done = "open" /\ Made < Calls
    /\ call' = [call EXCEPT ![Made + 1] = "asking"]
    /\ live' = live \ {stream}
    /\ frozen' \in IF shown /\ stream \in live THEN Pictures ELSE {frozen}
    /\ latest' = NoFace
    /\ UNCHANGED <<wanted, allowed, detector, stream, shown, looping, checks, even, ever,
                   proofs, capturing, done>>

\* getUserMedia answers, whether or not anybody still waits.  A new source has
\* no picture yet.
Answer(i) ==
    /\ call[i] = "asking"
    /\ call' = [call EXCEPT ![i] = IF i = Start THEN "attached" ELSE "over"]
    /\ stream' = i
    /\ live' = live \cup {i}
    /\ shown' = FALSE
    /\ frozen' = NoFace
    /\ UNCHANGED <<wanted, allowed, detector, looping, checks, detection, proofs, capturing, done>>

\* getUserMedia refuses.  A refused flip is ignored.
Refuse(i) ==
    /\ call[i] = "asking"
    /\ call' = [call EXCEPT ![i] = "over"]
    /\ IF i = Start THEN Finish("nothing") ELSE UNCHANGED <<done, live, looping>>
    /\ UNCHANGED <<wanted, allowed, detector, stream, shown, frozen, checks, detection, proofs,
                   capturing>>

\* The camera delivers its first picture.
FramesArrive ==
    /\ done = "open" /\ stream \in live /\ ~shown
    /\ shown' = TRUE
    /\ UNCHANGED <<wanted, allowed, detector, call, stream, live, frozen, looping, checks,
                   detection, proofs, capturing, done>>

DetectorLoads ==
    /\ done = "open" /\ detector = "loading"
    /\ detector' \in {"ready", "missing"}
    /\ UNCHANGED <<wanted, allowed, camera, looping, checks, detection, proofs, capturing, done>>

\* play() settles when there is a picture to show, or at once when it is not
\* allowed; only then does the first startStream end, and the loop and the
\* watchdog begin.
Begin ==
    /\ call[Start] = "attached"
    /\ shown \/ ~allowed
    /\ call' = [call EXCEPT ![Start] = "over"]
    /\ looping' = TRUE
    /\ checks' = Patience
    /\ UNCHANGED <<wanted, allowed, detector, stream, live, shown, frozen, detection, proofs,
                   capturing, done>>

\* Mutant: a look that finds no picture does not look again.
CheckOnce ==
    /\ checks > 0
    /\ checks' = 0
    /\ IF done = "open" /\ ~Healthy /\ checks = 1 THEN Finish("nothing")
                                                  ELSE UNCHANGED <<done, live, looping>>
    /\ UNCHANGED <<wanted, allowed, detector, call, stream, shown, frozen, detection, proofs,
                   capturing>>

\* The watchdog looks; a healthy picture ends its watch.
Check ==
    /\ checks > 0
    /\ IF done # "open" \/ Healthy
       THEN checks' = 0 /\ UNCHANGED <<done, live, looping>>
       ELSE /\ checks' = checks - 1
            /\ IF checks = 1 THEN Finish("nothing") ELSE UNCHANGED <<done, live, looping>>
    /\ UNCHANGED <<wanted, allowed, detector, call, stream, shown, frozen, detection, proofs,
                   capturing>>

-----------------------------------------------------------------------------
\* Every frame is looked at until there was a face, then every other one.
Detects == detector = "ready" /\ (~ever \/ ~even)

\* The size asked of a face is smaller while the turn is under way.
FaceOk(p) == p.faces = 1 /\ p.place \in IF wanted.turn /\ ~turnDone THEN {"far", "near"} ELSE {"near"}

\* okSince is a moment: the time runs on while there is no picture.
Longer == IF held \in 1 .. Hold THEN held + 1 ELSE held

\* The face in picture p, challenge t behind it: the expression counts once the
\* turn is done, and whatever was shown is forgotten when the face is lost.
Judge(p, t) ==
    LET ok      == FaceOk(p)
        turned  == IF wanted.turn /\ Detects THEN t.stage = "done" ELSE turnDone
        closed  == ok /\ (sawClosed \/ (turned /\ wanted.action = "blink" /\ p.act))
        acted   == IF wanted.action = "blink" THEN closed /\ ~p.act ELSE p.act
        settled == \/ wanted.action = "no"
                   \/ ok /\ (challengeDone \/ (turned /\ acted))
        ready   == ok /\ turned /\ settled
    IN  /\ turn' = t
        /\ turnDone' = (turned /\ (ok \/ ~wanted.turn))
        /\ sawClosed' = closed
        /\ challengeDone' = settled
        /\ held' = IF ~ready THEN 0 ELSE IF held = 0 THEN 1 ELSE Longer
        /\ capturing' = (capturing \/ held' > Hold)

\* One animation frame: detect, judge, and take the photo once the face was
\* held long enough.
Frame ==
    /\ looping /\ done = "open"
    /\ even' = ~even
    /\ IF ~shown THEN held' = Longer /\ UNCHANGED <<ever, latest, turn, turnDone, sawClosed,
                                                    challengeDone, capturing>>
       ELSE \E p \in IF ~Detects THEN {latest}
                     ELSE IF stream \in live THEN Pictures ELSE {frozen} :
              /\ latest' = p
              /\ ever' = (ever \/ p.faces > 0)
              /\ \E t \in IF wanted.turn /\ Detects THEN Update(turn, p, FaceOk(p)) ELSE {turn} :
                   Judge(p, t)
    /\ UNCHANGED <<wanted, allowed, detector, camera, looping, checks, done>>

\* toBlob calls back, with the photo or without.
Encoded ==
    /\ done = "open" /\ capturing
    /\ \E answer \in {"photo", "nothing"} : Finish(answer)
    /\ UNCHANGED <<wanted, allowed, detector, call, stream, shown, frozen, checks, detection,
                   proofs, capturing>>

Close ==
    /\ done = "open"
    /\ Finish("nothing")
    /\ UNCHANGED <<wanted, allowed, detector, call, stream, shown, frozen, checks, detection,
                   proofs, capturing>>

CameraNext == \/ Flip \/ Close \/ Frame \/ Encoded
              \/ Begin \/ Check \/ FramesArrive \/ DetectorLoads
              \/ \E i \in 1 .. Calls : Answer(i) \/ Refuse(i)

CameraSpec == CameraInit /\ [][CameraNext]_cameraVars

\* Promises settle and timers fire; nobody has to press a button, and no camera
\* has to answer or to deliver a picture.
LiveSpec == CameraSpec /\ WF_cameraVars(Begin) /\ WF_cameraVars(Check)

CameraTypeOK ==
    /\ wanted \in Proof /\ allowed \in BOOLEAN /\ detector \in {"loading", "ready", "missing"}
    /\ call \in [1 .. Calls -> {"none", "asking", "attached", "over"}]
    /\ stream \in 0 .. Calls /\ live \subseteq 1 .. Calls /\ shown \in BOOLEAN /\ frozen \in Pictures
    /\ looping \in BOOLEAN /\ checks \in 0 .. Patience
    /\ even \in BOOLEAN /\ ever \in BOOLEAN /\ latest \in Pictures
    /\ turn \in Challenge /\ turnDone \in BOOLEAN /\ sawClosed \in BOOLEAN
    /\ challengeDone \in BOOLEAN /\ held \in 0 .. Hold + 1
    /\ capturing \in BOOLEAN /\ done \in {"open", "photo", "nothing"}

=============================================================================
