---------------------------- MODULE TurnChallenge ----------------------------
(***************************************************************************)
(* The head-turn challenge of the app's camera                             *)
(* (src/ClientApp/src/lib/camera/turnChallenge.ts): hold still, turn, look *)
(* back.  It is fed one detected picture at a time.                        *)
(*                                                                         *)
(* A picture is a record.  Its width stands for the aspect ratio of the    *)
(* face, from which the angle of the head is computed: a head that is as   *)
(* wide as the widest picture so far faces the camera, one that is two     *)
(* narrower has turned.  deep says whether the motion against the frontal  *)
(* picture clears both bars of proven(), which no plane does.              *)
(***************************************************************************)
EXTENDS Naturals

CONSTANTS NoiseSamples,  \* LIVENESS.noiseSamples: still pairs to learn the jitter from
          TurnSamples,   \* LIVENESS.turnSamples: turned pictures before a decision
          RetrySamples,  \* LIVENESS.turnRetrySamples: then the turn starts over
          Widths         \* the aspect ratios a face may have

ASSUME SamplesAssumption ==
    /\ NoiseSamples \in Nat \ {0}
    /\ TurnSamples \in Nat \ {0}
    /\ RetrySamples \in Nat \ {0}
    /\ Widths \subseteq Nat \ {0}

Stages == {"frontal", "turn", "back", "done"}

Challenge == [stage : Stages, frontalAspect : Widths \cup {0}, prevFrontal : BOOLEAN,
              noise : 0 .. NoiseSamples, deep : 0 .. RetrySamples, flat : 0 .. RetrySamples]

\* createTurnChallenge, and what reset leaves.
Fresh == [stage |-> "frontal", frontalAspect |-> 0, prevFrontal |-> FALSE,
          noise |-> 0, deep |-> 0, flat |-> 0]

Frontal(widest, width) == width = widest       \* turnDegrees <= frontalDeg
Turned(widest, width)  == width + 2 <= widest  \* turnDegrees >= turnDeg

\* What proven() may answer: the median of as many deep as flat pictures lies
\* between the two and may be either.
Proven(t) ==
    IF t.deep + t.flat < TurnSamples THEN {FALSE}
    ELSE IF t.deep = t.flat THEN BOOLEAN ELSE {t.deep > t.flat}

LearnJitter(t, width) ==
    IF ~Frontal(t.frontalAspect, width) THEN [t EXCEPT !.prevFrontal = FALSE]
    ELSE LET n == IF t.prevFrontal THEN t.noise + 1 ELSE t.noise
         IN  [t EXCEPT !.prevFrontal = TRUE, !.noise = n,
                       !.stage = IF n = NoiseSamples THEN "turn" ELSE "frontal"]

\* The challenges one more picture of the turn may lead to.
MeasureTurn(t, picture) ==
    IF ~Turned(t.frontalAspect, picture.width) THEN {t}
    ELSE LET more == IF picture.deep THEN [t EXCEPT !.deep = @ + 1] ELSE [t EXCEPT !.flat = @ + 1]
         IN  {IF proven THEN [more EXCEPT !.stage = "back"]
              ELSE IF more.deep + more.flat = RetrySamples
                   THEN [more EXCEPT !.deep = 0, !.flat = 0]
                   ELSE more : proven \in Proven(more)}

LookBack(t, width) ==
    IF Frontal(t.frontalAspect, width) THEN [t EXCEPT !.stage = "done"] ELSE t

\* Mutant: a face that was lost keeps a challenge it had passed.
UpdateKeepsDone(t, picture, faceOk) ==
    LET seen == [t EXCEPT !.frontalAspect = IF picture.width > @ THEN picture.width ELSE @]
    IN  IF ~faceOk /\ t.stage # "done" THEN {Fresh}
        ELSE CASE t.stage = "done"    -> {t}
               [] t.stage = "frontal" -> {LearnJitter(seen, picture.width)}
               [] t.stage = "turn"    -> MeasureTurn(seen, picture)
               [] t.stage = "back"    -> {LookBack(seen, picture.width)}

\* update: what the challenge may be after a picture.  A face that is lost
\* starts it over, even one that had passed; the widest picture counts as frontal.
Update(t, picture, faceOk) ==
    LET seen == [t EXCEPT !.frontalAspect = IF picture.width > @ THEN picture.width ELSE @]
    IN  IF ~faceOk THEN {Fresh}
        ELSE CASE t.stage = "done"    -> {t}
               [] t.stage = "frontal" -> {LearnJitter(seen, picture.width)}
               [] t.stage = "turn"    -> MeasureTurn(seen, picture)
               [] t.stage = "back"    -> {LookBack(seen, picture.width)}

=============================================================================
