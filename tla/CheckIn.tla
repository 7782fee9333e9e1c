------------------------------- MODULE CheckIn -------------------------------
(***************************************************************************)
(* The check-in page of the app and the gates of the server it mirrors.    *)
(* The page works from copies of the rules and of the member's day that    *)
(* may be old; it takes the fix, the face and the code one await after     *)
(* another; the server decides from what it knows when the request comes.  *)
(***************************************************************************)
EXTENDS Gates

CONSTANTS
  Runs,        \* bound: activations of run() under way at once
  Rulebook,    \* the rules an admin may have in force
  Branches,    \* the shapes a branch may have
  Positions,   \* where the member may stand
  NullIsland,  \* the fix <<0, 0>> the page sends when it took none
  Edits,       \* bound: how often staff change the rules or the day
  Slack,       \* bound: how far the page's measure of a distance is from the server's
  Far,         \* how flat the ray is that tells what an area covers
  Idle

\* The settings, the rows of member, branch and group, and whether a template is enrolled.
Rules == [settings : Settings, unit : Unit, enrolled : BOOLEAN]

\* The grid, and that an area is read whole.
Fixes == Positions \cup {NullIsland}
Shape == [at : Int \X Int, radius : Nat, area : Seq(Int \X Int)]

ASSUME CheckInAssumption ==
  /\ Rulebook \subseteq Rules /\ Edits \in Nat /\ Slack \in Nat
  /\ Fixes \subseteq Int \X Int /\ Branches \subseteq Shape
  /\ \A b \in Branches : ~Within(b, NullIsland)

\* The ray of the reference passes every corner of every area on its way.
ASSUME FarAssumption ==
  /\ Far \in Nat \ {0}
  /\ \A b \in Branches, p \in Fixes : \A i \in 1..Len(b.area) :
       X(b.area[i]) - X(p) \in -Far + 1 .. Far - 1

VARIABLES
  branch,  \* its shape
  rules,   \* what is in force
  day,     \* the slot the server would pick: to come, entered, left
  window,  \* location_bypass_until, against the real time
  pinned,  \* the member's frozen clock: none, or before or after any window
  place,   \* where the member stands
  native,  \* the installed app, or a browser
  seen,    \* the page's copies of rules and day
  phase,   \* what the page shows
  knows,   \* the page holds the end of the latest window
  lit,     \* the page as last rendered shows a window open
  run,     \* where each activation stands
  edits

server == <<rules, day, window, edits>>
page == <<seen, phase, knows, lit, run>>
fixed == <<branch, pinned, native>>
pageVars == <<server, page, fixed, place>>

\* "scanning" is the open scanner, "decided" an answer on its way to the page.
Run == [pc : {"scanning", "redeeming", "opened", "locating", "capturing", "submitting", "decided"},
        rules : Rulebook, type : {"check_in", "check_out"}, fresh : BOOLEAN,
        at : Fixes, face : {"match", "none"}, ok : BOOLEAN]

ASSUME NoRunAssumption == Idle \notin Run

PageInit ==
  /\ branch \in Branches /\ rules \in Rulebook /\ day = "due" /\ window = "never"
  /\ pinned \in {"no", "before", "after"} /\ place \in Positions /\ native \in BOOLEAN
  /\ seen = [rules |-> rules, day |-> day]
  /\ phase = "ready" /\ knows = FALSE /\ lit = FALSE
  /\ run = [r \in Runs |-> Idle]
  /\ edits = 0

At(r, pc) == run[r] # Idle /\ run[r].pc = pc
Scanning == \E r \in Runs : At(r, "scanning")

-----------------------------------------------------------------------------
(* What the page works out while it renders *)

PageBypass(ru, windowOpen) == ResolveBypass(ru.settings, ru.unit, windowOpen, FALSE)

\* The end of the window is compared with the real time, the clock frozen or not.
WindowActive == knows /\ window = "open"

\* It is compared while the page renders, which it does when its state or its data change:
\* that a window ends changes neither.
Rendered ==
  lit' = IF <<seen, phase, Scanning>>' = <<seen, phase, Scanning>> THEN lit ELSE WindowActive'

TypeOf == [due |-> "check_in", in |-> "check_out"]
Actionable == seen.day \in {"due", "in"} /\ seen.rules.enrolled /\ phase \in {"ready", "failed"}
              /\ ~PageBypass(seen.rules, FALSE).blocked /\ ~Scanning

\* Mutant: a branch that requires a code leaves the button enabled.
TapEnabledAlways == Actionable

\* A branch that requires a code leaves the button disabled until a window shows,
\* whatever concession the member has.
TapEnabled == Actionable /\ (PageBypass(seen.rules, FALSE).requireQr => lit)
ScanEnabled == Actionable /\ PageBypass(seen.rules, FALSE).qrEnabled /\ ~lit

\* A rendering is handed to the run it starts.
Snapshot(pc) ==
  [pc |-> pc, rules |-> seen.rules, type |-> TypeOf[seen.day],
   fresh |-> seen = [rules |-> rules, day |-> day] /\ lit = WindowActive,
   at |-> NullIsland, face |-> "none", ok |-> FALSE]

\* Something the server goes by changed under every run but r's own.
Stale(r) == [q \in Runs |-> IF run[q] = Idle \/ q = r THEN run[q] ELSE [run[q] EXCEPT !.fresh = FALSE]]
AllStale == [q \in Runs |-> IF run[q] = Idle THEN Idle ELSE [run[q] EXCEPT !.fresh = FALSE]]

-----------------------------------------------------------------------------
(* run() *)

Finish(r, shown) == phase' = shown /\ run' = [run EXCEPT ![r] = Idle]

\* Past the location: the camera, or straight on when the face is excused.
Onward(r, job) ==
  IF PageBypass(job.rules, FALSE).face
  THEN phase' = "submitting" /\ run' = [run EXCEPT ![r] = [job EXCEPT !.pc = "submitting"]]
  ELSE phase' = "capturing" /\ run' = [run EXCEPT ![r] = [job EXCEPT !.pc = "capturing"]]

\* The first stretch of run(), up to its first await; the window is read from its ref.
Start(r, job) ==
  IF job.rules.unit.block THEN Finish(r, "failed")
  ELSE IF PageBypass(job.rules, WindowActive).location THEN Onward(r, job)
  ELSE phase' = "locating" /\ run' = [run EXCEPT ![r] = [job EXCEPT !.pc = "locating"]]

Tap(r) ==
  /\ run[r] = Idle /\ TapEnabled
  /\ Start(r, Snapshot("locating"))
  /\ UNCHANGED <<server, fixed, place, seen, knows>> /\ Rendered

\* No permission, no fix, a fake one, developer options, or one too coarse.
LocateFails(r) ==
  /\ At(r, "locating") /\ Finish(r, "failed")
  /\ UNCHANGED <<server, fixed, place, seen, knows>> /\ Rendered

\* The page measures a distance of its own to the centre of the branch, on a sphere and to
\* the metre: near the edge it may fall on the other side than the server's.
FoundIn(p) == NoFurther(branch, p, branch.radius + Slack)
FoundOut(p) == ~NoFurther(branch, p, branch.radius - Slack)

LocateOutOfRange(r) ==
  /\ At(r, "locating") /\ FoundOut(place) /\ Finish(r, "failed")
  /\ UNCHANGED <<server, fixed, place, seen, knows>> /\ Rendered

Locate(r) ==
  /\ At(r, "locating") /\ FoundIn(place)
  /\ Onward(r, [run[r] EXCEPT !.at = place])
  /\ UNCHANGED <<server, fixed, place, seen, knows>> /\ Rendered

\* The camera is closed, fails, or shows no match; or no template is found.
Cancel(r) ==
  /\ At(r, "capturing") /\ Finish(r, "ready")
  /\ UNCHANGED <<server, fixed, place, seen, knows>> /\ Rendered
CaptureFails(r) ==
  /\ At(r, "capturing") /\ Finish(r, "failed")
  /\ UNCHANGED <<server, fixed, place, seen, knows>> /\ Rendered
Capture(r) ==
  /\ At(r, "capturing") /\ rules.enrolled
  /\ phase' = "submitting"
  /\ run' = [run EXCEPT ![r].pc = "submitting", ![r].face = "match"]
  /\ UNCHANGED <<server, fixed, place, seen, knows>> /\ Rendered

-----------------------------------------------------------------------------
(* The server: recordAttendance *)

\* location_bypass_until is compared with the member's own clock, frozen or not.
WindowCounts ==
  CASE pinned = "no"     -> window = "open"
    [] pinned = "before" -> window # "never"
    [] pinned = "after"  -> FALSE

\* What the page sends: it has refused a fake or coarse fix itself.
Sent(r) == [at |-> run[r].at, accurate |-> TRUE, mock |-> FALSE, liveness |-> TRUE,
            face |-> run[r].face, marked |-> native]

Answer(r) ==
  Decide(Sent(r), rules.settings, rules.unit, WindowCounts, FALSE, rules.enrolled, branch)

\* The slot is still to be entered, or still to be left.
SlotTakes(r) == run[r].type = TypeOf[IF day = "out" THEN "in" ELSE day] /\ day # "out"

ServerDecides(r) ==
  LET ok == Answer(r) = "none" /\ SlotTakes(r)
  IN /\ At(r, "submitting")
     /\ run' = [(IF ok THEN Stale(r) ELSE run) EXCEPT ![r] = [@ EXCEPT !.pc = "decided", !.ok = ok]]
     /\ day' = IF ~ok THEN day ELSE IF day = "due" THEN "in" ELSE "out"
     /\ UNCHANGED <<rules, window, edits, fixed, place, seen, phase, knows, lit>>

\* The page is told, and asks for the day again.
Answered(r) ==
  /\ At(r, "decided")
  /\ Finish(r, IF run[r].ok THEN "done" ELSE "failed")
  /\ \/ run[r].ok /\ seen' = [seen EXCEPT !.day = day]
     \/ UNCHANGED seen
  /\ UNCHANGED <<server, fixed, place, knows>> /\ Rendered

\* No answer comes: the request was not heard, or what it did stands.
Unanswered(r) ==
  /\ At(r, "submitting") \/ At(r, "decided")
  /\ Finish(r, "failed")
  /\ UNCHANGED <<server, fixed, place, seen, knows>> /\ Rendered

-----------------------------------------------------------------------------
(* activateBypass *)

\* The scanner keeps the callback of the rendering that opened it.
OpenScanner(r) ==
  /\ run[r] = Idle /\ ScanEnabled
  /\ run' = [run EXCEPT ![r] = Snapshot("scanning")]
  /\ UNCHANGED <<server, fixed, place, seen, phase, knows>> /\ Rendered

CloseScanner(r) ==
  /\ At(r, "scanning") /\ run' = [run EXCEPT ![r] = Idle]
  /\ UNCHANGED <<server, fixed, place, seen, phase, knows>> /\ Rendered

\* The page shows nothing while the code is on its way.
Scan(r) ==
  /\ At(r, "scanning") /\ run' = [run EXCEPT ![r].pc = "redeeming"]
  /\ UNCHANGED <<server, fixed, place, seen, phase, knows>> /\ Rendered

\* redeemQr, for a code that is good: the window is counted from the real time.
Redeem(r) ==
  /\ At(r, "redeeming")
  /\ ~PageBypass(rules, FALSE).blocked /\ PageBypass(rules, FALSE).qrEnabled
  /\ window' = "open"
  /\ UNCHANGED <<rules, day, edits, fixed, place, seen>>
  /\ \/ knows' = TRUE /\ lit' = TRUE /\ run' = [run EXCEPT ![r].pc = "opened"] /\ UNCHANGED phase
     \/ Finish(r, "failed") /\ knows' = WindowActive /\ Rendered

RedeemRefused(r) ==
  /\ At(r, "redeeming") /\ Finish(r, "failed")
  /\ UNCHANGED <<server, fixed, place, seen, knows>> /\ Rendered

\* The callback goes on to run() with what it was handed when the scanner opened.
RunAfterScan(r) ==
  /\ At(r, "opened") /\ Start(r, run[r])
  /\ UNCHANGED <<server, fixed, place, seen, knows>> /\ Rendered

-----------------------------------------------------------------------------
(* The world around *)

\* Something else on the page changes.
Render ==
  /\ lit' = WindowActive
  /\ UNCHANGED <<server, fixed, place, seen, phase, knows, run>>

Refetch ==
  /\ \/ seen' = [seen EXCEPT !.rules = rules]
     \/ seen' = [seen EXCEPT !.day = day]
  /\ UNCHANGED <<server, fixed, place, phase, knows, run>> /\ Rendered

EditRules ==
  /\ edits < Edits /\ edits' = edits + 1
  /\ rules' \in Rulebook \ {rules} /\ run' = AllStale
  /\ UNCHANGED <<day, window, fixed, place, seen, phase, knows, lit>>

\* The next slot is due, or staff set the record by hand.
DayMoves ==
  /\ edits < Edits /\ edits' = edits + 1
  /\ day' \in {"due", "in", "out"} \ {day} /\ run' = AllStale
  /\ UNCHANGED <<rules, window, fixed, place, seen, phase, knows, lit>>

WindowEnds ==
  /\ window = "open" /\ window' = "over" /\ run' = AllStale
  /\ UNCHANGED <<rules, day, edits, fixed, place, seen, phase, knows, lit>>

Walk ==
  /\ place' \in Positions \ {place}
  /\ UNCHANGED <<server, fixed, page>>

\* The app is killed and opened again; the end of the window is in its storage.
Reopen ==
  /\ run' = [r \in Runs |-> Idle] /\ phase' = "ready" /\ seen' = [rules |-> rules, day |-> day]
  /\ lit' = WindowActive
  /\ UNCHANGED <<server, fixed, place, knows>>

PageNext ==
  \/ \E r \in Runs :
       \/ Tap(r) \/ LocateFails(r) \/ LocateOutOfRange(r) \/ Locate(r)
       \/ Cancel(r) \/ CaptureFails(r) \/ Capture(r)
       \/ ServerDecides(r) \/ Answered(r) \/ Unanswered(r)
       \/ OpenScanner(r) \/ CloseScanner(r) \/ Scan(r)
       \/ Redeem(r) \/ RedeemRefused(r) \/ RunAfterScan(r)
  \/ Render \/ Refetch \/ EditRules \/ DayMoves \/ WindowEnds \/ Walk \/ Reopen

PageSpec == PageInit /\ [][PageNext]_pageVars

-----------------------------------------------------------------------------
(* Properties *)

PageTypeOK ==
  /\ branch \in Branches /\ rules \in Rulebook /\ day \in {"due", "in", "out"}
  /\ window \in {"never", "open", "over"} /\ pinned \in {"no", "before", "after"}
  /\ place \in Positions /\ native \in BOOLEAN /\ {knows, lit} \subseteq BOOLEAN /\ edits \in 0..Edits
  /\ seen \in [rules : Rulebook, day : {"due", "in", "out"}]
  /\ phase \in {"ready", "locating", "capturing", "submitting", "done", "failed"}
  /\ run \in [Runs -> Run \cup {Idle}]

Decides(r) == At(r, "submitting") /\ run'[r] # Idle /\ run'[r].pc = "decided"

\* What a member must bring under these rules, said without an order of questions: the
\* branch is open, the device is marked where that is asked, the place was granted or is
\* covered and not replaced by a code, and the face was granted or matched.
Entitled(e, ru) ==
  LET off(g) == g \in ru.settings.off \/ \E l \in DOMAIN ru.unit.off : g \in ru.unit.off[l]
  IN /\ ru.settings.method # "none" /\ ~ru.unit.block
     /\ ru.settings.integrity => e.marked
     /\ \/ off("location") \/ WindowCounts
        \/ /\ ru.settings.method # "qr" /\ ~ru.unit.requireQr
           /\ e.accurate /\ ~e.mock /\ Covered(branch, e.at, Far)
     /\ off("face") \/ (ru.enrolled /\ e.face = "match" /\ (ru.settings.liveness => e.liveness))

\* However old the page's copy is, the server lets in exactly who is entitled by the rules
\* in force when it decides, from the evidence that was taken, wherever the member is by now.
LetInAsEntitled ==
  [][\A r \in Runs : Decides(r) =>
       (run'[r].ok <=> Entitled(Sent(r), rules) /\ SlotTakes(r))]_pageVars

NearEdge(p) == FoundIn(p) /\ FoundOut(p)

\* "mirrors the server enforcement in record-attendance": a request the page made from
\* copies that were true, and stayed so, rendered since the last window ended, is not
\* refused.  Not for an area, a fix near the edge of a circle, a frozen clock or a browser
\* where the installed app is required: there the page and the server look differently.
FreshPageIsNotRefused ==
  [][\A r \in Runs : Decides(r) /\ run[r].fresh /\ pinned = "no"
       /\ ~HasRing(branch) /\ ~NearEdge(run[r].at)
       /\ (rules.settings.integrity => native) => run'[r].ok]_pageVars

\* "A polygon wins over the circle when one is set": whom the page sends away as out of
\* range is not in the area.
OutOfRangeIsOutside ==
  [][\A r \in Runs : LocateOutOfRange(r) /\ HasRing(branch) => ~Within(branch, place)]_pageVars

\* The button is disabled while a run is busy: nobody has two under way.
OneRunAtATime ==
  \A q, r \in Runs : At(q, "submitting") /\ At(r, "submitting") => q = r

\* "record-attendance enforces it against real server time": a window lets nobody in
\* once its minutes are over.
WindowIsRealTime ==
  [][\A r \in Runs : Decides(r) /\ run'[r].ok /\ run[r].at = NullIsland
       /\ ~ResolveBypass(rules.settings, rules.unit, FALSE, FALSE).location => window = "open"]_pageVars

=============================================================================
