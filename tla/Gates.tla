-------------------------------- MODULE Gates --------------------------------
(***************************************************************************)
(* The gates of a check-in or check-out: resolveBypass decides which are   *)
(* off for a member right now, checkGates asks the others in order.        *)
(***************************************************************************)
EXTENDS Geofence

Gate == {"face", "location"}

\* Who can grant a concession, the settings for everybody.
Level == {"global", "member", "branch", "group"}

\* app_settings, as far as the gates read it.
Settings == [method : {"both", "location", "qr", "none"}, off : SUBSET Gate,
             liveness : BOOLEAN, integrity : BOOLEAN]

\* What the rows of the member, the branch and the group say.
Unit == [off : [Level \ {"global"} -> SUBSET Gate],
         block : BOOLEAN, requireQr : BOOLEAN, qrEnabled : BOOLEAN]

\* What a request brings: where its fix says it is and how good it is, whether the
\* device was caught faking it, whether the face passed the challenge and what the
\* server makes of its embedding, and the marker of the installed app.
Evidence(Position) ==
  [at : Position, accurate : BOOLEAN, mock : BOOLEAN, liveness : BOOLEAN,
   face : {"match", "mismatch", "none"}, marked : BOOLEAN]

\* Mutant: a branch that says no outranks a member who was granted a concession.
OffEverywhere(gate, s, u) == gate \in s.off \/ \A l \in DOMAIN u.off : gate \in u.off[l]

\* anyOn: one level that grants it is enough.
AnyOn(gate, s, u) == gate \in s.off \/ \E l \in DOMAIN u.off : gate \in u.off[l]

\* resolveBypass: the method is the strictest of settings and branch, a concession
\* the kindest of the four levels; then a window opened by an earlier code counts,
\* and a code that came with the request.
ResolveBypass(s, u, windowOpen, qrAccepted) ==
  [face |-> AnyOn("face", s, u),
   location |-> AnyOn("location", s, u) \/ windowOpen \/ qrAccepted,
   source |-> IF AnyOn("location", s, u) THEN "flag" ELSE IF windowOpen THEN "window"
              ELSE IF qrAccepted THEN "qr" ELSE "none",
   blocked |-> s.method = "none" \/ u.block,
   requireQr |-> s.method = "qr" \/ u.requireQr,
   qrEnabled |-> s.method \in {"qr", "both"} /\ u.qrEnabled]

\* Mutant: nobody asks whether the branch takes a place at all.
CheckGatesAnyMethod(e, s, b, enrolled, within) ==
  CASE b.blocked                                   -> "branch_blocked"
    [] ~b.face /\ ~enrolled                        -> "not_enrolled"
    [] s.integrity /\ ~e.marked                    -> "integrity_failed"
    [] ~b.location /\ e.mock                       -> "mock"
    [] ~b.location /\ ~e.accurate                  -> "low_accuracy"
    [] ~b.location /\ ~within                      -> "out_of_range"
    [] ~b.face /\ s.liveness /\ ~e.liveness        -> "liveness"
    [] ~b.face /\ e.face = "none"                  -> "face_required"
    [] ~b.face /\ e.face = "mismatch"              -> "face_mismatch"
    [] OTHER                                       -> "none"

\* checkGates, first refusal first: what is asked for has not been refused earlier.
CheckGates(e, s, b, enrolled, within) ==
  LET asked == <<
    <<b.blocked, "branch_blocked">>,
    <<b.requireQr /\ ~b.location, "qr_required">>,
    <<~b.face /\ ~enrolled, "not_enrolled">>,
    <<s.integrity /\ ~e.marked, "integrity_failed">>,
    <<~b.location /\ e.mock, "mock">>,
    <<~b.location /\ ~e.accurate, "low_accuracy">>,
    <<~b.location /\ ~within, "out_of_range">>,
    <<~b.face /\ s.liveness /\ ~e.liveness, "liveness">>,
    <<~b.face /\ e.face = "none", "face_required">>,
    <<~b.face /\ e.face = "mismatch", "face_mismatch">> >>
      refusing == {i \in DOMAIN asked : asked[i][1]}
  IN IF refusing = {} THEN "none"
     ELSE asked[CHOOSE i \in refusing : \A j \in refusing : i <= j][2]

\* recordAttendance before checkGates: the score is the server's own, from the
\* embedding and the template; a face that is asked for and not sent is refused first.
Decide(e, s, u, windowOpen, qrAccepted, enrolled, branch) ==
  LET b == ResolveBypass(s, u, windowOpen, qrAccepted)
  IN IF ~b.face /\ (e.face = "none" \/ ~enrolled) THEN "face_required"
     ELSE CheckGates(e, s, b, enrolled, Within(branch, e.at))

=============================================================================
