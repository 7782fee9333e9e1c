------------------------------- MODULE Presence -------------------------------
(***************************************************************************)
(* Surprise spot-checks: an admin asks the members on shift to confirm     *)
(* that they are there; after the deadline those who did not are kept, or  *)
(* marked as having left work.  A request reads the check without a lock   *)
(* and writes in a later statement; the admin's page and the member's      *)
(* modal show what they last polled.                                       *)
(***************************************************************************)
EXTENDS Integers, FiniteSets

CONSTANTS Members, Checks, Txns,
  Days,      \* bound: the calendar
  Idle, NoCheck,
  Gone       \* a check that was deleted

VARIABLES
  today,
  row,        \* the attendance row of a member and a day
  left,       \* the rows whose checkout_status is left_work
  checks,     \* presence_checks
  expired,    \* the checks whose deadline has passed
  confirmed,  \* presence_confirmations
  shown,      \* the open checks as the admin's page last listed them
  asked,      \* the check the modal of a member shows
  req         \* where each request stands

attendance == <<today, row, left>>
tables == <<checks, expired, confirmed>>
screens == <<shown, asked>>
vars == <<attendance, tables, screens, req>>

Check == [date : 1..Days, targets : SUBSET Members, status : {"open", "resolved"},
          decision : {"none", "left_work", "keep"}]
Listed == [pending : SUBSET Members, past : BOOLEAN]
Create == [op : {"create"}, date : 1..Days, targets : SUBSET Members]
Confirm == [op : {"confirm"}, check : Checks, member : Members, self : BOOLEAN]
\* safe: history, who had confirmed when the request came.
Resolve == [op : {"resolve"}, check : Checks, date : 1..Days, targets : SUBSET Members,
            decision : {"left_work", "keep"}, safe : SUBSET Members]

ASSUME PresenceAssumption ==
  /\ Days \in Nat \ {0}
  /\ NoCheck \notin Checks \cup Check \cup Listed \cup {Gone} /\ Gone \notin Check

Init ==
  /\ today = 1
  /\ row = [p \in Members \X (1..Days) |-> "none"] /\ left = {}
  /\ checks = [c \in Checks |-> NoCheck] /\ expired = {} /\ confirmed = {}
  /\ shown = [c \in Checks |-> NoCheck] /\ asked = [m \in Members |-> NoCheck]
  /\ req = [t \in Txns |-> Idle]

There(c) == checks[c] \notin {NoCheck, Gone}
Open(c) == There(c) /\ checks[c].status = "open"
Unconfirmed(c) == {m \in checks[c].targets : <<c, m>> \notin confirmed}
Doing(t, op) == req[t] # Idle /\ req[t].op = op

-----------------------------------------------------------------------------
(* createCheck: two statements *)

\* Who is on shift: checked in and not out, today or since yesterday.
OnShift(m) == \E d \in {today, today - 1} \cap 1..Days : row[<<m, d>>] = "in"

\* A filter by branch, group or department picks some of the members.
BeginCreate(t) ==
  /\ req[t] = Idle
  /\ \E targets \in SUBSET {m \in Members : OnShift(m)} \ {{}} :
       req' = [req EXCEPT ![t] = [op |-> "create", date |-> today, targets |-> targets]]
  /\ UNCHANGED <<attendance, tables, screens>>

FinishCreate(t, c) ==
  /\ Doing(t, "create") /\ checks[c] = NoCheck
  /\ checks' = [checks EXCEPT ![c] = [date |-> req[t].date, targets |-> req[t].targets,
                                      status |-> "open", decision |-> "none"]]
  /\ req' = [req EXCEPT ![t] = Idle]
  /\ UNCHANGED <<attendance, expired, confirmed, screens>>

-----------------------------------------------------------------------------
(* What is polled *)

\* getChecks, every fifteen seconds and after each action: the page keeps the open ones.
List ==
  /\ shown' = [c \in Checks |-> IF Open(c) THEN [pending |-> Unconfirmed(c), past |-> c \in expired]
                                ELSE NoCheck]
  /\ UNCHANGED <<attendance, tables, asked, req>>

\* getPending: the open check of the nearest deadline that waits for this member.
Poll(m) ==
  /\ LET waiting == {c \in Checks : Open(c) /\ c \notin expired /\ m \in Unconfirmed(c)}
     IN asked' \in {[asked EXCEPT ![m] = c] : c \in IF waiting = {} THEN {NoCheck} ELSE waiting}
  /\ UNCHANGED <<attendance, tables, shown, req>>

-----------------------------------------------------------------------------
(* confirmByMember, confirmByAdmin *)

\* The modal has one request on its way at most.
BeginConfirm(t, m) ==
  /\ req[t] = Idle /\ \A u \in Txns : Doing(u, "confirm") => ~(req[u].self /\ req[u].member = m)
  /\ asked[m] # NoCheck
  /\ LET c == asked[m]
     IN /\ Open(c) /\ c \notin expired /\ m \in checks[c].targets
        /\ req' = [req EXCEPT ![t] = [op |-> "confirm", check |-> c, member |-> m, self |-> TRUE]]
  /\ UNCHANGED <<attendance, tables, screens>>

\* An admin has no deadline.
BeginConfirmByAdmin(t, c, m) ==
  /\ req[t] = Idle /\ shown[c] # NoCheck /\ m \in shown[c].pending
  /\ Open(c) /\ m \in checks[c].targets
  /\ req' = [req EXCEPT ![t] = [op |-> "confirm", check |-> c, member |-> m, self |-> FALSE]]
  /\ UNCHANGED <<attendance, tables, screens>>

\* confirmCheck: a second row is not an error; a row for a deleted check is.
FinishConfirm(t) ==
  /\ Doing(t, "confirm")
  /\ confirmed' = IF There(req[t].check) THEN confirmed \cup {<<req[t].check, req[t].member>>}
                  ELSE confirmed
  /\ req' = [req EXCEPT ![t] = Idle]
  /\ UNCHANGED <<attendance, checks, expired, screens>>

-----------------------------------------------------------------------------
(* resolveCheck, deleteCheck *)

\* Mutant: the button does not wait for the deadline.
OfferedAtOnce(c) == shown[c] # NoCheck /\ shown[c].pending # {}

\* The page offers it once the deadline has passed, while somebody has not confirmed.
Offered(c) == shown[c] # NoCheck /\ shown[c].past /\ shown[c].pending # {}

BeginResolve(t, c) ==
  /\ req[t] = Idle /\ Offered(c) /\ Open(c)
  /\ \E d \in {"left_work", "keep"} :
       req' = [req EXCEPT ![t] = [op |-> "resolve", check |-> c, date |-> checks[c].date,
                                  targets |-> checks[c].targets, decision |-> d,
                                  safe |-> checks[c].targets \ Unconfirmed(c)]]
  /\ UNCHANGED <<attendance, tables, screens>>

\* Mutant: those whom the page still listed as pending are marked.
MarkedAsListed(t) ==
  {p \in (IF shown[req[t].check] = NoCheck THEN {} ELSE shown[req[t].check].pending) \X {req[t].date} :
     row[p] \in {"in", "absent"}}

\* resolveLeftWork: the rows of the day of the check that have no departure, of the
\* targets that have no confirmation at this moment.
Marked(t) ==
  {p \in req[t].targets \X {req[t].date} :
     row[p] \in {"in", "absent"} /\ <<req[t].check, p[1]>> \notin confirmed}

FinishResolve(t) ==
  /\ Doing(t, "resolve")
  /\ left' = IF req[t].decision = "left_work" THEN left \cup Marked(t) ELSE left
  /\ checks' = IF There(req[t].check)
               THEN [checks EXCEPT ![req[t].check].status = "resolved",
                                   ![req[t].check].decision = req[t].decision]
               ELSE checks
  /\ req' = [req EXCEPT ![t] = Idle]
  /\ UNCHANGED <<today, row, expired, confirmed, screens>>

\* The confirmations go with the check.
Delete(c) ==
  /\ shown[c] # NoCheck /\ There(c)
  /\ checks' = [checks EXCEPT ![c] = Gone]
  /\ confirmed' = {p \in confirmed : p[1] # c}
  /\ UNCHANGED <<attendance, expired, screens, req>>

\* The connection is lost before the commit.
Lose(t) ==
  /\ req[t] # Idle /\ req' = [req EXCEPT ![t] = Idle]
  /\ UNCHANGED <<attendance, tables, screens>>

-----------------------------------------------------------------------------
(* The day goes on *)

CheckIn(m) ==
  /\ row[<<m, today>>] \in {"none", "absent"} /\ row' = [row EXCEPT ![<<m, today>>] = "in"]
  /\ UNCHANGED <<today, left, tables, screens, req>>

\* A row marked as left refuses the departure.
CheckOut(m, d) ==
  /\ d \in {today, today - 1} /\ row[<<m, d>>] = "in" /\ <<m, d>> \notin left
  /\ row' = [row EXCEPT ![<<m, d>>] = "out"]
  /\ UNCHANGED <<today, left, tables, screens, req>>

\* Staff enter an absence.
EnterAbsence(m) ==
  /\ row[<<m, today>>] = "none" /\ row' = [row EXCEPT ![<<m, today>>] = "absent"]
  /\ UNCHANGED <<today, left, tables, screens, req>>

DeadlinePasses(c) ==
  /\ There(c) /\ c \notin expired /\ expired' = expired \cup {c}
  /\ UNCHANGED <<attendance, checks, confirmed, screens, req>>

Midnight ==
  /\ today < Days /\ today' = today + 1
  /\ UNCHANGED <<row, left, tables, screens, req>>

Next ==
  \/ \E t \in Txns :
       \/ BeginCreate(t) \/ FinishConfirm(t) \/ FinishResolve(t) \/ Lose(t)
       \/ \E c \in Checks : FinishCreate(t, c) \/ BeginResolve(t, c)
       \/ \E m \in Members : BeginConfirm(t, m)
       \/ \E c \in Checks, m \in Members : BeginConfirmByAdmin(t, c, m)
  \/ \E m \in Members :
       Poll(m) \/ CheckIn(m) \/ EnterAbsence(m) \/ \E d \in 1..Days : CheckOut(m, d)
  \/ \E c \in Checks : Delete(c) \/ DeadlinePasses(c)
  \/ List \/ Midnight

Spec == Init /\ [][Next]_vars

-----------------------------------------------------------------------------
(* Properties *)

TypeOK ==
  /\ today \in 1..Days
  /\ row \in [Members \X (1..Days) -> {"none", "absent", "in", "out"}]
  /\ left \subseteq Members \X (1..Days)
  /\ checks \in [Checks -> Check \cup {NoCheck, Gone}]
  /\ expired \subseteq Checks /\ confirmed \subseteq Checks \X Members
  /\ shown \in [Checks -> Listed \cup {NoCheck}]
  /\ asked \in [Members -> Checks \cup {NoCheck}]
  /\ req \in [Txns -> Create \cup Confirm \cup Resolve \cup {Idle}]

\* Who had confirmed when a decision was asked for is not marked by it, however old the
\* page was and whatever went on meanwhile; unless the check, and with it the
\* confirmation, was deleted under the decision.
ConfirmedIsKept ==
  [][\A t \in Txns : FinishResolve(t) =>
       \A p \in left' \ left : p[1] \in req[t].safe => checks[req[t].check] = Gone]_vars

\* No check is decided before its deadline: the server does not ask, the page does, from
\* a list that may be old.
DecidedAfterDeadline == \A c \in Checks : There(c) /\ checks[c].status = "resolved" => c \in expired

\* A confirmation is of somebody the check was sent to, and of a check that is there.
ConfirmedWereAsked == \A p \in confirmed : There(p[1]) /\ p[2] \in checks[p[1]].targets

\* "did not confirm. Mark them as left work?": whoever did not confirm and is still on
\* shift is marked.  A shift of yesterday's is not.
UnconfirmedIsMarked ==
  [][\A t \in Txns : FinishResolve(t) /\ req[t].decision = "left_work" =>
       \A m \in req[t].targets, d \in 1..Days :
         row[<<m, d>>] = "in" /\ <<req[t].check, m>> \notin confirmed => <<m, d>> \in left']_vars

\* Who was told that they are confirmed is never marked by that check.
NobodyConfirmedIsMarked ==
  [][\A t \in Txns : FinishResolve(t) => \A p \in left' \ left : p[1] \notin req[t].safe]_vars

\* A check has one decision: kept members are not marked by it.
OneDecision ==
  [][\A c \in Checks : There(c) /\ checks[c].status = "resolved" => checks'[c] \in {checks[c], Gone}]_vars

=============================================================================
