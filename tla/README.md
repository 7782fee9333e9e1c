# Verification of the intern attendance system

TLA+ models of the attendance server (`src/server`, NestJS over Postgres) and of the parts of
its app (`src/ClientApp`, Ionic React) whose correctness depends on order, interleaving, clock
arithmetic or failure. TLC checks every model on small instances. Every safety and action property
that a passing run checks is also proved with TLAPS, for every value of the constants; liveness is
left to TLC.

Paths are given from `src/`. `attendance.service.ts:230` is a line of the file of that name.

## 1. The system

### How it runs

Nearly every request is **one Postgres transaction at READ COMMITTED**
(`server/src/infrastructure/database/context.ts:78`). A service called by a service joins the
open transaction, a thrown error rolls it back, and each statement sees what was committed when
it began. Most handlers read, decide in `server/src/domain/`, and write. Nothing locks the rows
read, apart from one `FOR UPDATE SKIP LOCKED`. So in nearly every handler the decision can be
older than the write, and only the `WHERE` and `ON CONFLICT` clauses of the write and the unique
keys of the schema stand between two requests. Several replicas may run; scheduled jobs are
claimed by advisory locks. The pool has twenty connections.

The app is single-threaded and can be suspended or killed at any `await`.

### Inventory

| Component | State it keeps | Operations | Talks to | What makes it correct |
|---|---|---|---|---|
| Attendance (`modules/attendance`, `domain/attendance`) | `attendance` rows | check-in/out, manual set/clear, import | roster, shifts, settings, QR, face, audit | the first arrival and the first departure stand; status agrees with the times; an answer "ok" is in the row |
| Shift windows and day (`domain/attendance`) | none (pure), over rows and clock | place windows, decide check-in/out, conclude, outcome, import | settings, shifts, scheduler, reports, app | the clock-face arithmetic agrees with the calendar; outcomes move forward |
| Roster (`modules/roster`) | `roster_days` | add, delete, bulk | attendance (deletes its rows) | no attendance outlives its slot |
| Presence (`modules/presence`, live-presence page, confirm modal) | checks, confirmations, what a page last polled | create, list, poll, confirm, resolve, delete | attendance (`left_work`) | nothing is decided before its deadline; a confirmed member is not marked as gone |
| Scheduler (`infrastructure/scheduler`) | timers, running set | six jobs | every table, advisory locks | a job marks only what is overdue, and everything overdue in the end |
| Sessions, server (`modules/auth`) | `refresh_tokens`, `profiles` | login, refresh, logout, logout-all, change/reset password, delete | members, audit | one live token per family; endings end |
| Sessions, app (`ClientApp/src/lib/api`) | token pair, in-flight renewal | boot, request, renew, login, logout, logout-all, change password | server sessions | a token is presented twice only after a lost answer; what was ended stays so; nobody is left waiting |
| Members and codes (`modules/members`) | `members`, `member_code` | create, import, bulk, patch, delete | groups, profiles | codes distinct, of the right cohort, stable |
| QR codes (`modules/qr`) | `qr_tokens`, bypass window | mint, redeem, claim, sweep | attendance gates, settings, branches | a personal code counts once, for its member |
| Gates (`domain/attendance/gates.ts`, `geofence.ts`) and the check-in page | the page's copies of rules and day | resolve bypasses, check; tap, locate, capture, send, scan | attendance, QR | who is let in is who is entitled when the server decides; an up-to-date page is not refused |
| Face enrolment, stored files | `face_templates`, `attachments`, disk | enrol, reset, upload, delete, prune, reconcile | attendance, members | rows and files come and go together |
| Locks, migrations, start-up | advisory locks, ledger | run job, migrate, seed | pool, every table | one holder; no replica serves before the schema |
| Access scope, admins, departments | `admin_assignments`, departments | assign, check scope, place | every staff request | a scope never widens by accident |
| Catalog, settings, profile | reference rows | edits | everything reads them | - |
| Superadmin restore | `profiles` | backup, restore | sessions | - |
| Audit log | `audit_log` | record, list | everything | what happened is recorded, what did not is not |
| Reports and exports | none | matrix, totals, history, dashboard, day board, present list | attendance, roster, shift windows | the screens that count one month count the same |
| App: camera (`lib/camera`) | one capture: streams, detections, proof | start, flip, detect, hold, take, close, time out | browser, check-in page | the photo follows the proof; the camera goes off |
| App: picker, face, location, other pages | caches | read, ask | server | where the picker agrees with the server |
| Android shell, deployment, scripts, tests | - | - | - | - |

### What is hard here

* **Decisions older than writes.** Check-out, mark-left-work, presence resolution, the QR
  redemption and the roster deletion write by key what was decided on an earlier read.
* **Swallowed database errors.** A caught `INSERT` error leaves the transaction aborted, and the
  commit that follows is a rollback (`audit.repository.ts:37`, `attendance.service.ts:98`).
* **Two transactions where one is needed.** A replayed token is noticed in one and punished in
  another; file work surrounds the transaction that records it.
* **Clock faces.** Windows are minutes of a day placed relative to check-in open; overnight
  shifts, open ends and midnight meet date arithmetic written four times
  (`windows.ts`, `slotConcluded.ts`, `scheduler.service.ts`, the app's `shiftWindows.ts`).
* **Lost answers.** Tokens rotate, so a lost answer looks like theft.
* **Files beside rows.** A picture is a row, a file and a column that points at it, written at
  three moments; only two of them roll back.
* **Starting together.** Replicas migrate, seed and schedule over one database, each may stop
  between any two statements, and a migration and its ledger row are two transactions.
* **One month, six queries.** The matrix, its file, the history, the dashboard, the board and the
  present list each count the same two tables in their own way.
* **Promises of the browser.** A camera is asked for, refused, flipped and closed in any order; a proof
  is gathered over frames, of which two machines see different ones.
* **Old screens.** The check-in page and the live-presence page act on what they last fetched.
* **Optimistic allocation.** Member codes are chosen without a lock and retried five times.

`PROJECT.json` lists each hazard at its line with the properties that cover it, or the reason
why none does yet.

## 2. The modules

| Module | Models | Uses |
|---|---|---|
| `Attendance` | every transaction that writes `attendance` or `roster_days`, interleaved | |
| `AttendanceProofs` | the theorems of `Attendance` and `Reports` | `MCAttendance` |
| `ShiftWindows` | the pure arithmetic of windows and decisions | |
| `ShiftDay` | one member over several days: taps, the clock, the job | `ShiftWindows`, `SlotLife` |
| `SlotLife` | the abstract life of a slot that `ShiftDay` implements | |
| `RefreshTokens` | the sessions of the server | |
| `ClientSession` | one running app and its token pair | |
| `ClientSessionProofs` | its theorems | `ClientSession` |
| `MemberCodes` | allocation of member codes | |
| `MemberCodeHistory` | the same with a memory of who held which code | `MemberCodes` |
| `MemberCodesProofs` | its theorems | `MemberCodes` |
| `QrTokens` | minting, redeeming, claiming of QR codes | |
| `QrTokensProofs` | its theorems | `QrTokens` |
| `Geofence`, `Gates` | the point-in-area decision; the gates of a check as operators | `Gates` uses `Geofence` |
| `CheckIn` | the check-in page, its runs, and the server's decision | `Gates` |
| `CheckInProofs` | when and where one may check in: the theorems of `ShiftDay`, `Geofence`, `Gates`, `CheckIn` | `ShiftDay`, `CheckIn` |
| `Presence` | spot-checks, the screens that show them, and the rows they mark | |
| `PresenceProofs` | its theorems | `Presence` |
| `StoredFiles` | pictures: rows, files and the columns that point at them | |
| `StartUp` | replicas: migrations, first superadmin, jobs, pool | |
| `ServerProofs` | what the server keeps for itself: the theorems of `RefreshTokens` and `StartUp` | `MCRefreshTokens`, `MCStartUp` |
| `TurnChallenge`, `PhotoCamera` | the head-turn challenge as operators; one capture of the app's photo camera | `PhotoCamera` uses `TurnChallenge` |
| `PhotoProofs` | pictures, taken and kept: the theorems of `StoredFiles` and `PhotoCamera` | `MCStoredFiles`, `MCPhotoCamera` |
| `Reports` | the screens of a month as functions of the committed tables | `Attendance` |
| `MC...` | instances for TLC, with the variables only a property needs | |

Components whose theorems are kept in one module have no state in common: the module extends both,
so the second of each pair calls its parts by longer names (`PageInit`, `BootNext`, `CameraSpec`).

Definitions called `...Typo`, `...LastWins`, `...Unlocked` and so on, with a comment that starts
"Mutant:", are deliberate mistakes. No specification uses them: each stands in for the
definition after it to show that some property notices.

### Attendance

`att` and `roster` are the committed tables; `buf`, `radd`, `rdel` and `log` are what each open
transaction has written and not committed; `ids` are the rows it addresses by id. A request goes
`idle -> next -> write -> commit` with its decision recorded in `op`. A key in another
transaction's `buf` is locked, so the writer waits, and `KillDeadlocked` is Postgres ending a
cycle. `RepeatTap` is the conflict branch of `writeCheckIn`; `AuditFails` and `CommitPoisoned`
are the swallowed insert error and the rollback it causes; `Abort` is any thrown error or lost
connection. Which windows are open and which gates refuse is chosen freely (`RefuseRecord`).

Abstractions: a row is kept per unique key; rows with a null shift never conflict, so each has
a key of its own from `NullKeys`. "late" and "early leave" are folded into "attended" and
"checked out". The reads of one request are taken at one instant, and an update of several rows
takes its locks at once. Deletion of members and shifts is left out; probe pictures are in
`StoredFiles`.

### Reports

No variables of its own: each screen is a function of `att`, `roster` and `done`, the rostered slots that
are concluded (`ShiftWindows` decides which; here every subset is tried). `MatrixKeys`,
`CellArrival` and `CellDepartures` are `buildMonthly`, `History` is `getHistory`, `Stats` is
`getStats` with the arithmetic of `rate.ts`, `BoardStatuses` is `getDailyRoster`, `PresentNow` is
`getPresent`, `ReviewTotals` and `PageRate` are the review page, `FileRate` is `matrix.ts`. A lookup
that may find any of several rows is a set of answers. Names, filters, paging, groups and
branches are left out, and so are late and early.

### ShiftWindows, ShiftDay, SlotLife

`ShiftWindows` has one operator per function of `windows.ts`, `slot.ts`, `slotConcluded.ts`,
`imported.ts`, `outcome.ts`, the deadline of the left-work job (`scheduler.service.ts:147`) and
the picker of the app. A day has `Day` units instead of 1440 minutes, and the three
spans the code names (`Lead`, `Grace`, `Span`) are parameters. `ShiftDay` adds a calendar clock,
so `Hours(slot)` can say on the time line what the clock-face arithmetic ought to mean, and the
properties compare the two. `SlotLife` is what a slot promises: upcoming, then absent, or
present or late; then out, early or left; and never back. `ShiftDay` implements it under the
refinement `Outcome`.

Left out: editing a shift while rows of it are open, and a member's clock frozen by an admin.

### RefreshTokens and ClientSession

`RefreshTokens` keeps the rows, the profiles, and for each connection where its request stands.
Renewal is `BeginRefresh` (the read), `MarkTokenRotated` (the conditional update, which locks),
`FinishRefresh` (the account read and the insert, taken together), then commit or `"refused"`, a
state between two transactions: the revocation that follows is `Snapshot` (the rows the update
sees) and `Revoke`. A revocation cannot see rows that were inserted and not committed at its
snapshot. Deleting an account waits for inserts that reference it, and inserts wait for it.

`ClientSession` is the app: the pair in storage, requests, and the jobs `renew`, `login`, `logout`,
`lost` and `account` (the pair of a changed password, or the clearing that follows a sign-out
everywhere or a failing `/auth/me` at launch), split wherever the code awaits. An access token may have run
out whenever it is presented. Of the server it has what a renewal and a revocation can do to each other:
a renewal reads its token (`Serve`) and exchanges it later (`Exchange`), which asks again whether it
was exchanged and not whether it was revoked; the revoking UPDATE (`End`, `Revoke`) marks the tokens of its
snapshot and commits later (`Commit`), and until then a renewal still reads them alive (`ending`). Families
a renewal was under way of meanwhile are in `overtaken`. An answer may be lost after the exchange. `Kill`
drops everything in memory; a renewal or a sign-out it leaves behind at the server is `Unreachable`
or `RevokedElsewhere` to the device. One account uses the device, one revocation is under way at a time,
and one job of `account`. No screen calls `logoutEverywhere` yet; it is modelled as it is exported. Two
tabs over one storage are not modelled (`domain/auth/refresh.ts:22` names the case).

### MemberCodes

A request writes a member's group (`updating` or `inserting`), looks whether the code still
names the cohort (`ensuring`), reads the highest serial (`counting`), and writes the code inside
a savepoint (`coding`), where the unique index makes it wait for an undecided rival and refuses
a committed one. `PatchMember` is `updateMember`, which writes the group without looking at the
code. Several rows of a bulk edit are locked at once; an edit of an institution is taken group
by group; a group is edited once (`edited`), which is a bound.

### QrTokens

A redemption (`redeemQr`) reads a code without a lock, marks it by id if it is personal, then
writes the member's window. A check with a code claims it with `SKIP LOCKED`, asks the other
gates afterwards, and gives the code back when it is refused. Codes expire, are swept a minute
later by the job, and are swept at once by the next mint. Dates sent by the screen that mints
are its own; the server compares them with its date. Moves, edits and midnight happen in between.

### Geofence, Gates and CheckIn

`Geofence` is the ray cast of `insideRing`, with the boundary test before it, over points of a
grid. `Gates` is `resolveBypass` and `checkGates`: which level excuses what, and every refusal in
the order of the code. `CheckIn` runs the page: `seen` is its copy of rules and day, `knows` the
window ref, `lit` whether the page as last rendered shows a window (the end of a window renders
nothing, so the buttons go by `lit` and `run()` by the ref), each `run` one activation of `run()` with the rendering it was started from, split at
each `await` (location, camera, submit), and the scanner with its redemption. `ServerDecides` applies the
gates to the rules in force at that moment. Staff edit rules, members' days move, windows end and
the member walks in between. `LetInAsEntitled` compares the ordered gates with `Entitled`,
which says without an order what a member must bring, and for which an area covers what a ray so
flat that it passes no corner says it covers (`Far` is how flat).

The page measures a distance of its own, on a sphere and rounded to the metre; the server measures on
a plane and does not round. `Slack` bounds how far the two are apart: within it of the edge a fix may
be found in (`FoundIn`) and may be found out (`FoundOut`), whatever the server says.

Abstractions: the grid stands for metres on the server's plane; an undetected fake position is a position; `recordAttendance` is taken as one decision (its
statements are in `Attendance` and `QrTokens`); the geometry of a branch does not change.

### Presence

A request reads the check, then writes: `BeginConfirm` and `FinishConfirm`, `BeginResolve` and
`FinishResolve` (mark the targets without a confirmation, then close). `shown` and `asked` are
what the admin's page and the member's modal last polled, and requests start from them. `safe`
records who had confirmed when a decision was asked for. Check-ins, check-outs, absences entered
by hand and midnight go on beside them.

### StoredFiles

One member's pictures. `rows` are committed `attachments`, `disk` the files, `template` and
`captures` the columns that point at them. A save is three requests of the page (template, mark,
photo); uploads write the row, then the file, then the pointer; a reset reads the photo's path,
deletes the template, and unlinks inside its transaction; deletions and pruning unlink and drop
rows in one transaction and clear the columns in another. Two captures of a minute share a path, as
`paths.ts:121` means them to. A check that keeps no capture, or whose file could not be written, goes on with the
path its request named (`storeProbe`, `attendance.service.ts:74`, `:99`): the app names none, the interface takes any (`SentPaths`).
`Abort` rolls rows back and leaves files. Operations in `Faults` may be lost, all of them in the run.
`lost`, in `MCStoredFiles`, remembers what was left in use without a row: by a deletion that stopped between
its transactions, by a reset that another overtook, by a path that was named.

### StartUp

Each process walks the order of `BootstrapService`: the blocking lock, status, files in order, each with its
ledger row a statement later, the settings row, the first superadmin inside one transaction, then
serving. `Dies` is a failed boot or a crash, which frees the locks of its sessions. While it
serves, jobs take one connection for `pg_try_advisory_lock` and another for their work, beside
requests, from a pool of `PoolSize`; a wait for a connection times out. `npm run migrate` takes
no lock (`scripts/migrate.mjs`) and is not modelled; no migration of the repository opts out of
its transaction.

### TurnChallenge and PhotoCamera

`TurnChallenge` is `update` with its four stages. A detected picture is a record: how many faces,
whether the one face is in place, its width (for the aspect ratio that gives the angle), whether
its motion is deep, and whether it makes the expression. `PhotoCamera` is one call of
`capturePhoto` split at each `await`: every `getUserMedia` is a `call` that may be answered late,
out of turn, or refused; `live` are the cameras that are on, `stream` the one the code knows; a
stopped camera leaves a `frozen` picture in the video. `Frame` is one animation frame, detection,
proof and hold included; `Begin` is the end of the first `startStream`, which arms the watchdog
`Check`. `play()` is taken as the HTML standard has it: it settles when there is a picture, or is
refused at once.

Abstractions: angles are whole steps and the median of the turned pictures is decided by their
majority (a tie may go either way); the hold and the watchdog count frames and looks; a video
that may not play is drawn as if it moved; play() that is aborted twice by two flips is left out, and
so is what a loop does after the end.

## 3. What is checked

All bounds are constants of the configurations.

| Run | Instance | Distinct states | What it shows |
|---|---|---|---|
| `attendance` | two transactions, one member, two shifts of a day, one instant | 1 565 163 | `NoArrivalMeansAbsent`: no row claims a presence without an arrival. `FirstArrivalStands`: no commit replaces an arrival. `AuditedArrivalIsReal`: the audit log names arrivals that were committed. `DeparturesKeepArrivals`: a departure decided on an earlier read brings no deleted row back and moves no arrival. `OrphansAreByHand`: a request nothing overlapped orphans no row except by hand. `ScreensAgree` (of `Reports`): the dashboard, the report and the file count one month alike |
| `shift_days` | a 7-unit clock, two days: every ordered shift, with a check-in close or the default one, pairs of shifts, a bypass, windows not enforced | 1 496 114 | `ArrivalInItsHours`, `DepartureInItsHours`, `LateIsAfterTheBoundary`, `LeftOnlyAfterHours`: taps and the job's marks agree with the calendar, overnight shifts included. `CanStillLeave`: who is inside can leave in the hours. `ImportAgrees`: a typed import records what the taps would have. `PickerMatchesServer`: what the page offers the server takes; what the server takes and the page does not offer lies in a window whose opening or close was left to its default. `EverySlotSettles` (liveness), and `OutcomeMovesForward`: `ShiftDay` implements `SlotLife` |
| `refresh` | two connections, three tokens, one profile | 392 733 | `OneLiveTokenPerFamily`, `NoSessionWithoutAccount`; a refusal ends every token of the family alive by then unless the process dies first (`RefusalEndsTheFamily`) |
| `session_app` | two requests, three pairs of tokens | 1 238 706 | `ReplayNeedsALostAnswer`: a token is presented twice only after a lost answer. `SignedOutCannotRenew`: what the device holds of a session the server ended opens nothing, unless a renewal of it was being served meanwhile. `EveryCallerIsAnswered` (liveness) |
| `session_outage` | the same | stops at the counterexample | `OutageKeepsTheSession` is violated: section 5, item 1 |
| `member_codes` | two requests, two people, two groups, two cohorts, three serials, two attempts | 1 511 562 | `CodesAreDistinct`, `EveryRetryHasARival`, `CodeFollowsCohort`, `PrintedCodeStands` |
| `qr` | two requests, two members, two branches, two codes, two days | 1 952 626 | `SingleUseAdmitsOnce`, `SpentByItsMember` |
| `checkin` | two check-ins at once, four sets of rules, two branches, four positions (one found in for certain, one out, two near the edge), one edit | 1 669 276 | `LetInAsEntitled`: the server lets in who is entitled when it decides, whatever the page saw before. `FreshPageIsNotRefused`: a page whose answers and whose rendering are up to date sends nothing the server refuses, but near the edge of the circle |
| `presence` | two members, one check, two requests, two days | 2 878 607 | `DecidedAfterDeadline`, `ConfirmedIsKept` |
| `files` | three requests, one member, two places for the photo, one path for captures, every fault | 3 500 418 | `PointsAtARow`: a path in use has its row, or a deletion is about to clear it, but for three ways out. `AloneLeavesItStraight`: who meets nobody leaves rows, files and columns straight |
| `photo` | every mode, two requests for a camera, the smallest counts of the challenge, three widths, a hold of one frame | 1 939 726 | `ProvenBeforePhoto`: the face photographed has, since it was last seen out of the frame, turned and come back and then made the expression, as far as asked. `CameraOffAfterwards`: a camera that is on after the end was answered after it, or while another was asked for. `GivesUpWhenPaused` (liveness): the watchdog ends a capture that never plays |
| `startup` | two processes, one image of two migrations, two jobs, a pool of two, one request | 18 662 | `ServesMigrated`, `ShownPasswordOpens`, `TwiceOnlyWhenTorn`, `EveryWaitEnds` (liveness) |

**Why these bounds are enough to be interesting.** Every hazard listed for a component is a race
of two requests over one or two rows; two transactions on the slots of a day contain all of them. A
third transaction would add waiters, not a new kind of step: a lock has one holder, and that is
proved for any number. Two days and the morning after reach an overnight check-out, the two-day
look-back of the job, and a row that would fall out of it. The 7-unit clock is the smallest that
has room for five ordered boundaries on either side of midnight, and with it *every* such shift is
tried, each alone and windows enforced; besides, a day shift next to a night and to an evening shift,
a member with a bypass, and windows not enforced. `MCShiftDay_calendar` is the same on a clock of
16 units, and `MCShiftDay_picker` (621 672 states) tries every ordered shift with any of its openings and closes left to the
default; both are kept to be run by hand. Three tokens let a family rotate twice, or two families meet. Three serials and two attempts
let an allocation fail for good. In `qr` a state constraint, `Focus`, keeps the second code to
one day, one branch and one set of rules, and one of the two to a named member: two codes meet
only where one mint sweeps the other, which needs none of these. In `checkin` the four sets of rules
differ in every answer of the gates, the area has a bay and corners level with the
member, and `Focus` keeps two runs at once to the installed app on the real clock and the round branch, the only
place where the second run changes what the first may do. Two days let a check outlive its day.
In `files` three requests are the fewest with which an upload, a reset and a deletion meet, or two resets around an enrolment;
`Focus` keeps three at once to these, while captures, which have rows and columns of their own, meet two at a time; two
places for the photo are enough for a directory that moved. In `photo` two requests for a camera are
a start and a flip that overlap, or follow each other; three widths are a face in front, half turned and
turned. `startup` has a pool as small as two
connections, so that two jobs and a request fill it, and two migrations, so that a process can stop
between them. The theorems have no such bound.

Symmetry is used only in runs without liveness properties, over sets of model values that no
definition tells apart. `MCAttendance_requests` drops the last answer from the state (`VIEW`): no
step reads it, and the properties that do look at the step that sends it.

**Properties about requests that nothing overlapped.** Some promises of the code hold for a
request that runs alone and are lost when two meet (section 5). They are stated that way:
`alone` in `MCAttendance` and `MCStoredFiles` remembers which requests have met nobody since
they began, and `OrphansAreByHand` and `AloneLeavesItStraight` are about
those, whatever races left behind before them (in `files`, from a state where the books were
straight).

**Deadlock.** `member_codes`, `qr`, `files` and `startup` check that some step is always possible. The
other configurations say `CHECK_DEADLOCK FALSE`, because there the bounds may stop the model:
tokens, instants, edits or checks run out, or the clock reaches `Horizon`.

**Fairness.**

* `Attendance` (in the configuration `MCAttendance_liveness`, kept beside the runs): strong fairness for the next
  statement of each open transaction. Postgres queues waiters for a row lock in order and breaks
  cycles after a timeout, so a request that can run again and again does run. No request is
  assumed to be made, and no crash to be absent.
* `ShiftDay`: weak fairness of the clock and of the job, which is on a timer in every process.
  Nobody is assumed to tap.
* `ClientSession`: weak fairness of the renewal (its request is answered or fails, and its continuations
  run) and of the clearing of a lost session. Nobody is assumed to press a button, and no other request to be answered.
* `PhotoCamera`: weak fairness of `Begin` and `Check`, a promise that has settled and a timer. No
  camera is assumed to answer or to deliver a picture, and nobody to press a button.
* `StartUp`: strong fairness of a process's next step of its boot, since Postgres serves those who wait for
  an advisory lock or for a row in turn; weak fairness of the answer to a request and of each step of
  a job under way; and a job's passes end, for a pass that deletes less than its bound is the last
  (`scheduler.service.ts:203`). No process is assumed to start, and any may crash at any time.

## 4. What is proved

Every invariant and every action property that a passing run lists is a theorem, and so is the
refinement of `SlotLife`. The proofs have no assumption beyond the named `ASSUME`s on constants,
which TLC evaluates in the runs, and the hypotheses named below. They hold for any number of
transactions, slots, tokens, people, serials, attempts, processes, frames or runs of the page.

The argument has one form throughout: an inductive invariant (`IInv`, or the name given), checked
with TLC on a run's instance before it was proved, with the initial states, one lemma or step for each
action, and what the invariant implies. What each invariant adds to its property is the reason why the
code is right, so the paragraphs below say that.

**AttendanceProofs.** `NoArrivalMeansAbsent`, `FirstArrivalStands`, `AuditedArrivalIsReal`,
besides `TypeOK` and `DepartureIsDescribed`. `FirstArrivalStands` is about the step that commits,
yet the guard that makes it true, "no arrival here", was evaluated when the row was written. So
`IInv` adds that a row lock has one holder (`LocksHeldOnce`), that an uncommitted check-in holds its
slot's lock over a row nobody arrived on and has touched nothing else (`CheckInHoldsSlot`), that
only a check-in hands over a CHECK_IN audit row, that rows addressed by id exist, and that each
row, committed or not, is well formed (`RowsOK`).

`DeparturesKeepArrivals` is about a check-out, the job and a resolved check, each of which may have
read long before it writes. `KeepsArrival` says what such a transaction has written and not
committed: rows that are there, with the arrival they have. It stays so under every other
commit, since a row lock has one holder, and an update by id matches only rows that exist (`IdsExist`).

`OrphansAreByHand` is about requests that nothing overlapped.
`AloneInv` adds what any request of each kind may have written (`WritesOf`) and, for those alone, that
what was decided is still what the tables say (`Undisturbed`): a slot taken from the roster is on
it, and a roster day that goes takes its row.

`ScreensAgree` holds for any finite set of slots (a month is finite; the hypothesis is there because
counting needs it). `OneMonth` follows from the shape of the rows alone: a cell is found by the key
the code gives it, the keys of two slots differ (`NoShiftAssumption`: the key of "no shift" is not
that of a shift), so what one screen counts in cells and another in rows or slots are in bijection.

**CheckInProofs, the hours.** `ArrivalInItsHours`, `LateIsAfterTheBoundary`, `DepartureInItsHours`,
`LeftOnlyAfterHours`, `CanStillLeave`, `ImportAgrees`, `PickerMatchesServer`, and
`OutcomeMovesForward`, the refinement. A first part relates each operator of `ShiftWindows` to
`Hours`: placing a time after check-in open, going back a day, or shifting a check-out that lies
before its check-in, is the same instant on the calendar. Then `IInv` says of each row that its arrival is
on the slot's date and its times in its hours (`InHours`), and that the job keeps up (`KeptUp`):
no row stays open for more than one unit past its last hour, and none once the job has run.

The hypothesis is `AllInOrder`: of every installation the boundaries of each shift follow one another
within a day (`Ordered`, with the close of check-in entered or left to its default), the job is switched on, and, where the check-out window may be bypassed, the job has a
unit between the end of one day's check-out and the next day's check-in (`Rests`). All
installations of the run satisfy it. The last part is needed: the job runs at most a unit late, and if
check-in opens again in the very unit in which check-out closed, a member with a bypass who leaves
in that unit is placed before the next check-out and recorded as leaving early, after the hours.
`PickerMatchesServer` asks less: that each shift is in order once what the server takes by default is filled in
(`WithDefaults`), whichever of its openings and closes that are unset.

**CheckInProofs, the gates.** `LetInAsEntitled`, `FreshPageIsNotRefused`, and a theorem about the geometry,
`WithinIsCovered`: the ray cast of `insideRing`, which counts the lower end of an edge and not the upper,
gives for every area and every fix what a ray that passes no corner gives. With the fix as the
origin, the flat ray sees a corner above itself exactly when the corner is above, or level and
behind; the one case in which the two disagree about a corner is one in which both miss the edge
(`FlatRay`). `FarAssumption` says that `Far` exceeds every distance from a fix to a corner; any
large number will do. `NoGateRefuses` says that the ordered questions of `checkGates`
end in "none" exactly when each is answered no. `LetInAsEntitled` combines these at the step that
decides. `FreshPageIsNotRefused` needs an invariant about the past of a run (`Kept`): unless its rendering
was stale or something overtook it, a run goes by the rules and the slot the server goes by; past the scanner a
window is open; past the start a code that is required has opened one; past the location the place is
granted, or was found in the circle; and what is sent has the face it needs. Of a run that a stale button
started it says nothing about the window. A fix found in the circle and not near its edge is in the
server's (`NotNearTheEdge`).

**ServerProofs, sessions.** `OneLiveTokenPerFamily`, `NoSessionWithoutAccount`,
`RefusalEndsTheFamily`. A family's only live token is being exchanged while its successor is
not committed yet; the invariant records that such a renewal holds the row it marked
(`RenewalsHoldTheirRow`), that whoever inserts a token or writes a password holds its profile
against deletion (`ProfilesAreHeld`), and that rows are minted values (`RowsAreMinted`). For
`RefusalEndsTheFamily` the tokens a refusal owes are followed from the refusal to the revocation: they
are of its family, and once the revocation has its rows, those still alive are among them
(`OwedAreTaken`).

**ServerProofs, start-up.** `ServesMigrated`, `ShownPasswordOpens`, `TwiceOnlyWhenTorn`. Past its
migrations a process has every one of its image in the schema, and before that what it has not
found pending is there already (`MigrationsAreDone`); the ledger never runs ahead of the schema.
One process at a time has an insert of the superadmin that is not decided, and none while there is
an account (`OneInsert`). For `TwiceOnlyWhenTorn`, one process at a time works on the migrations (`LockHeld`),
and a file in the schema and not in the ledger was torn, or is being logged by the holder of the lock
(`MigrationInv`); that the next file is the first left to do uses that a set of numbers has a least.

**ClientSessionProofs.** `ReplayNeedsALostAnswer`, `SignedOutCannotRenew`.
Both follow from whose token each job carries. A token the device holds was issued and, if it was
exchanged, its answer was lost or its successor is about to be stored (`HeldIsHeard`); a renewal
presents such a token, and what it stores was not exchanged yet (`RenewalIsIssued`); the token of a
sign-in or of a changed password is nobody else's until it is stored (`PairsAreNew`); and a sign-out presents an
issued token and then, like a lost session, stores nothing but an empty pair (`EndsClear`). A family is
revoked as a whole, or a renewal of it was under way (`EndedAsAWhole`): an exchange adds a live token to a family
only from a renewal being served, whose family either has nothing revoked or is in `overtaken`
(`ServedIsAlive`). The exception is what the code needs and no more: without it TLC finds a sign-out
heard between the read and the exchange (section 5, items 10 and 11).

**MemberCodesProofs.** `CodesAreDistinct`, `EveryRetryHasARival`, `CodeFollowsCohort`,
`PrintedCodeStands`. Distinctness needs three views at once: the committed rows, what each
transaction sees, and its own uncommitted work (`SightIsDistinct`, `WorkIsDistinct`), and that a
changed row is locked by one transaction (`RowsAreLocked`). `EveryRetryHasARival` needs that a
refusal is seen before it is counted: when the chosen code is taken, the rivals already outnumber
the tries. `CodeFollowsCohort` needs that a request that reached its commit has looked at every
row whose group it wrote. `PrintedCodeStands` needs that a request's copy of a row has the row's
code, or one of another cohort (`Standing`), and that it looks for a new code only when the old one
does not name the cohort it wants.

**QrTokensProofs.** `SingleUseAdmitsOnce`, `SpentByItsMember`. That a
personal code admits one check rests on the claim: the lock has one holder (`OneHolderPerCode`),
so what was unspent when it was claimed is unspent until the claim ends (`ClaimsAreUnspent`), and
an unspent personal code has let nothing pass (`HistoryFollowsTheRows`). That only its member
spends it rests on what was read at the start still being so at the end: a code is never issued
again to another member, and a request keeps the member it began with
(`RequestsFollowTheirCode`). Neither says that a redemption never opens a window with a code
that a check of the same member spent after the redemption read it: it can (section 5, item 13).

**PresenceProofs.** `DecidedAfterDeadline`, `ConfirmedIsKept`, and `ConfirmedWereAsked`. The
server never looks at the deadline when it decides, so that it is behind has to be carried from
the page: a listing that says `past`, and a decision asked for from it, speak of an expired check
(`DeadlinesAreBehind`). `ConfirmedIsKept` needs that whoever had confirmed when a decision was
asked for is still confirmed while the check is there (`SafeAreConfirmed`), since confirmations go
only with their check.

**PhotoProofs, stored files.** `PointsAtARow`, for any number of requests, with every fault and any resets at once. The heart of
it is `TemplateLock`, that the lock of the template has one holder: a reset that removes a row either removes the
template that pointed at it, or was overtaken, and then `lost` has the path. Each of the three ways out is needed: without it
TLC finds a path in use without a row.
Nobody but a request that runs alone
changes the books while it does, so for `AloneLeavesItStraight` they can be accounted for at each of its steps
(`Accounted`): which columns it has written, which row and file it has added or taken away and not yet
matched.

**PhotoProofs, the camera.** `CameraOffAfterwards`, and `ProvenBeforePhoto` where what a face
showed to one camera counts for the next (`AcrossFlips`; otherwise it fails, section 5, item 17). The cameras that are
on are strays or the one the code knows, and once no call is pending it knows them all
(`CamerasKept`). The challenge is never ahead of the witness in `proof`: the width it calls frontal is
the widest seen since the face was last out of the frame, it asks to look back only of a face that
turned (`TurnSeen`), and its expression is one the face made (`ActSeen`).

**What the proofs changed.** `Update` of `TurnChallenge` had two cases of one `CASE` that overlapped, which
left the choice open where the code takes the first; `ShiftDay` named its premises only when
`KeptUp` would not go through without `Rests`; `Key` of `Reports` needed `NoShiftAssumption`;
`InsideRing` counted an edge that a ring has twice once, and now counts corners as the loop does.

**Only model-checked.** Liveness: `EverySlotSettles`, `EveryCallerIsAnswered`,
`EveryWaitEnds`, `GivesUpWhenPaused`, since the prover has no rules for fairness and `ENABLED`; and the
counterexamples of section 5. What a recursive definition computes for every
input would need induction over an operator, which the installed provers cannot
instantiate; no module declares one.

## 5. Where the code and its comments disagree

The first is a run of `PROJECT.json`. Where a configuration is named, it is kept beside the runs
(`tlc -config X.cfg M`, with `M` the part of the name before the underscore) and ends in a counterexample.
Where a property is named instead, it is a definition of the module that no configuration lists:
put it in the place of the properties of the module's run.

1. **An outage signs the user out** (`session_outage`). `renewSession` answers false for a network
   failure, and `apiFetch` (`http.ts:206`) clears the session on false. The comment at
   `http.ts:149` says a network failure is not an invalid session and to keep the tokens.
2. **A code comes back with another person** (`MemberCodeHistory_reuse`). The next serial is one
   above the highest *present*, so deleting the holder of the highest code hands it to the next
   member. `domain/member/code.ts:4` says it must never repeat.
3. **The page refuses who stands in the drawn area** (`MCCheckIn_area`). The check-in page measures the
   distance to the centre of the branch (`CheckInPage.tsx:257`); `geofence.ts:159` says that a
   polygon wins over the circle when one is set. Near the edge of a circle the two measures disagree
   too: `Math.round` of a distance on a sphere (`:257`) lets a fix pass, say, that `geofence.ts:175`, on a plane and
   unrounded, refuses (`FreshPageIsNotRefused` without `NearEdge`). `geo.ts:8` says that the client's figure
   may differ.
4. **The review page and its file give different rates** (`PageAndFileAgree` of `Reports`, as an
   invariant). `memberTotals` (`AttendanceReviewPage.tsx:189`) counts pending slots in the denominator,
   `monthRate` (`matrix.ts:51`) leaves them out; `matrix.ts:4` says that screen and file must agree, of the
   rules for a cell, and the rate beside the cells does not.
5. **The board of a day shows no absence** (`BoardShowsAbsence` of `Reports`). `getDailyRoster`
   asks `p.done`, which it never copied from the roster row (`reports.service.ts:301`, `:343`), so a slot that
   is over stays pending. It also shows one row of a day on each of a member's slots (`:330`
   calls it a simplification).
6. `NoOrphanAttendance` of `Attendance`: `deleteDay` removes slot and attendance in two statements, and a
   check-in decided on the old roster commits afterwards. `roster.repository.ts:254` calls an attendance
   row outliving its roster slot "the inconsistency the trigger existed to prevent".
7. A failed audit insert is caught, the transaction is lost, and the member is told ok
   (`CommitPoisoned` of `Attendance`). `audit.repository.ts:25` says an audit write must not be what fails
   a check-in. `AuditIsKept`: the audit row of a refused check is rolled back with it.
8. `LeftWorkBlocksCheckOut` of `Attendance`: a check-out replaces a `left_work` written after its read;
   in the same way a second departure replaces the first, and the left-work job a check-out committed
   between its two statements. What does survive of the row is `DeparturesKeepArrivals`.
9. With windows not enforced (`MCShiftDay_calendar` with `Installations <- Free`), a tap before check-in open is placed on the
   next day of the clock face and recorded late; `ClientApp/src/lib/types.ts:98` describes late as
   "the boundary has passed" (`LateIsAfterTheBoundary` without its hypothesis). A member with a bypass
   who leaves an overnight shift before midnight is imported with the departure a day later
   (`ImportAgrees` without its hypothesis). There, a row closed by the job can also block
   the check-out of another slot (`LeftWorkBlocksOnlyItself`; `attendance.service.ts:232` counts it as
   open). Check-in windows across midnight (`AroundMidnight`) and evening shifts that may be left after
   midnight (`LateEvening`) fall outside what the date arithmetic handles.
   Where a check-out close is left to its default (`OpenEnded`) the job takes it to be the end of the shift
   (`scheduler.service.ts:147`), 180 minutes before the server stops taking check-outs: it marks members who could
   still have left (`LeftOnlyAfterHours`).
   The picker of the page disagrees with the server on every default: `shiftWindows.ts:37` and `:39` open and close
   check-in at the start of the shift and `:44` closes check-out at its end, where `windows.ts:46` opens 30 minutes before the
   late boundary and closes check-in 60 and check-out 180 minutes after theirs. So whoever
   enforces windows and leaves a check-in close empty has a page that stops offering the shift an hour early.
   `shiftWindows.ts:2` says "so the picker matches what the server will accept": that is `PickerIsTheServers` of `ShiftDay`,
   which fails as an invariant of `MCShiftDay_days`.
10. `RevokedFamilyIsDead` of `RefreshTokens`: a token inserted by a renewal under way survives the revocation of
    its family.
11. `SignedOutIsSignedOut` of `ClientSession`: a renewal answered after the sign-out stores its pair on a device
    that shows the sign-in screen. If the server had finished with that renewal before it heard the sign-out,
    the pair is refused (`SignedOutCannotRenew`). If it had read the token and not exchanged it, the successor is the survivor
    of item 10: the device keeps a pair that opens the account again at the next launch, although
    `auth.ts:50` says the token "is revoked rather than merely forgotten". A change of password meets the same
    race. A sign-in whose `/auth/me` fails also leaves its pair under the sign-in screen, and at launch whatever keeps
    `/auth/me` from answering, an outage too, clears the session (`AuthContext.tsx:140`).
12. `CodeNamesItsCohort` of `MemberCodes`: `updateMember` moves a member without looking at the code;
    `members.repository.ts:206` lists the sites that have to and calls the list complete.
13. `SpentIsSpent` of `QrTokens`: a redemption that read its code before an attendance request spent it opens
    its window all the same; `attendance.repository.ts:192` says a single-use token that has been
    used is spent.
14. `OneDecision`, `NobodyConfirmedIsMarked`, `UnconfirmedIsMarked` of `Presence`: two decisions on one check
    both land; a check deleted under a decision takes the confirmations with it, and who had
    confirmed is marked; somebody on a night shift since yesterday is asked, and not marked
    when they do not confirm.
15. Pictures (`MCStoredFiles`): `NoFileNothingPointsAt`, `RowHasItsFile` and
    `EnrolledHasATemplate` fail. `face.service.ts:68` and `paths.ts:96` say a fixed name leaves no second
    file, but the name has the group and the branch in it. A deletion from an old list unlinks what
    an enrolment has just written. A reset between the template and the mark leaves a
    member enrolled without a template. A reset that is lost after its unlink leaves a row
    without a file. And the three ways to a column without its row that `PointsAtARow` lists: a deletion lost
    between its two transactions (`storage.service.ts:30`), which nothing repeats; two resets at once around an
    enrolment, where the second removes the row of a photo it read before the first removed it (`face.service.ts:29`); and
    a path that a client named (`attendance.service.ts:99`), which nothing compares with the rows.
16. A migration is committed before its ledger row (`migrator.mjs:104`, `:25`): a process that
    stops between the two leaves a file that every later boot applies again, and fails
    (`TwiceOnlyWhenTorn` says that this is the only way).
17. The photo camera (`MCPhotoCamera`). `BlackFeedEnds`: the watchdog is armed after `play()`, which
    waits for the first picture, so a camera that delivers none is not given up;
    `photoCapture.ts:480` says that is what the watchdog is for. `RefusedFlipKeepsCurrent`: a flip that is
    refused does not "keep current" (`:470`), for that camera was stopped before the other was asked for.
    `MirroredLikeItsCamera`: while a flip waits, a photo of the old camera is mirrored like the
    new one (`:225`). `MCPhotoCamera_flip`: what was shown to one camera counts for the next, since a
    flip does not reset the challenge; `turnChallenge.ts:65` says that the proof must cover one
    continuous face.
18. `WindowIsRealTime` and `OneRunAtATime` of `CheckIn`, when made invariants or properties of
    `MCCheckIn_page`. `CheckInPage.tsx:88` says that the server enforces a QR window "against real server
    time"; the server compares the end of the window with the member's clock (`attendance.service.ts:116`,
    `:136`), so for a member whose clock is frozen before the end a window that is over still counts.
    The buttons are disabled while a run is busy (`:402`), but a scanned code that is being redeemed
    is not busy: a tap in that moment starts a run, and the scan starts another when it is answered.
    The button of a branch that requires a code goes by the window at the last rendering (`:101`, `:542`),
    and nothing renders when the window ends: a tap on it starts a run by location, which the server refuses
    (`FreshPageIsNotRefused` with a `fresh` that does not ask whether `lit` is true).

Read in the code, not modelled: without a detector no photo is ever taken, and `faceDetect.ts:6` says
the camera falls back to a centre crop; a camera answered after the end stays on and the loop
goes on drawing. `getPresent` lists rows already marked `left_work`
(`reports.repository.ts:152`); with a branch chosen the dashboard takes the branch of the row for attendance and
the member's present branch for the roster, so who moved counts as absent
(`reports.repository.ts:454`, `:506`).

## 6. Plan

Done: every module of section 2, and the theorems of every safety and action property of the runs.
Left, in this order:

| | Module | What it would show | What it needs |
|---|---|---|---|
| 1 | two tabs over one storage | what two single flights do to one pair (`domain/auth/refresh.ts:22` has the race end the session) | a second app in `ClientSession` |
| 2 | `RosterImport` | a file previewed, then applied in several requests, beside other edits and after a failure | the import of the roster page and its modal |
| 3 | `Scope` | no list or edit outside an admin's assignments | the reach conditions of every repository |

## 7. Not modelled

* **Access scope, guards, admins, departments, profile.** They decide a request from rows read in the
  same request and keep nothing between two. `AccessService` narrows what a list shows; the lists
  here are taken without it.
* **Superadmin backup and restore**: one transaction over a file. The loss of the superadmin row is an
  action of `StartUp`.
* **Catalog and settings** beyond the edits other components read; deleting a member or a shift
  while requests of it are under way; editing a shift while rows of it are open.
* **Avatars, copies, signed links, the reconcile report**: they change nothing the models keep.
* **Rendering of reports and exports, texts, the other pages**: presentation of one answer.
* **The numeric face model, sensors, the projection onto the ground**: numbers out of
  TLC's reach. Of the camera, what the numbers decide is in `PhotoCamera`; the QR scanner wraps
  a library and keeps one flag.
* **The Android shell, deployment scripts, end-to-end tests**: not part of the running system.
