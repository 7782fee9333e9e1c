---------------------------- MODULE PresenceProofs ----------------------------
(***************************************************************************)
(* What Presence keeps for any number of members, checks, requests and     *)
(* days.  A page knows of a deadline only once it has passed; a request    *)
(* speaks of a check that was made, and what it read of it stays true      *)
(* while the check is there.                                               *)
(***************************************************************************)
EXTENDS Presence, TLAPS

\* The page, and the decisions it asked for, come after the deadline.
DeadlinesAreBehind ==
  /\ \A c \in Checks : shown[c] # NoCheck /\ shown[c].past => c \in expired
  /\ \A t \in Txns : Doing(t, "resolve") => req[t].check \in expired

\* A confirmation on its way is of a check that was made, and of one of its targets.
ConfirmsAreAsked ==
  \A t \in Txns : Doing(t, "confirm") =>
    /\ checks[req[t].check] # NoCheck
    /\ There(req[t].check) => req[t].member \in checks[req[t].check].targets

\* Who had confirmed when a decision was asked for is confirmed while the check is there.
SafeAreConfirmed ==
  \A t \in Txns : Doing(t, "resolve") =>
    /\ checks[req[t].check] # NoCheck
    /\ There(req[t].check) => \A m \in req[t].safe : <<req[t].check, m>> \in confirmed

\* The inductive invariant.
IInv ==
  /\ TypeOK /\ DeadlinesAreBehind /\ ConfirmsAreAsked /\ SafeAreConfirmed
  /\ DecidedAfterDeadline /\ ConfirmedWereAsked

\* A check that is there is a row.
LEMMA RowsAreChecks ==
  ASSUME TypeOK, NEW c \in Checks
  PROVE  /\ There(c) => checks[c] \in Check
         /\ checks[c] \in Check => There(c)
BY PresenceAssumption DEF TypeOK, There

\* A request has the fields of its kind.
LEMMA RequestFields ==
  ASSUME TypeOK, NEW t \in Txns
  PROVE  /\ Doing(t, "create") => req[t] \in Create
         /\ Doing(t, "confirm") => req[t] \in Confirm
         /\ Doing(t, "resolve") => req[t] \in Resolve
BY DEF TypeOK, Doing, Create, Confirm, Resolve

\* The initial state satisfies it.
LEMMA Initially == Init => IInv
<1> SUFFICES ASSUME Init PROVE IInv
  OBVIOUS
<1>1. TypeOK
  BY PresenceAssumption DEF Init, TypeOK
<1> QED BY <1>1, PresenceAssumption
     DEF Init, IInv, DeadlinesAreBehind, ConfirmsAreAsked, SafeAreConfirmed, Doing, There,
         DecidedAfterDeadline, ConfirmedWereAsked

\* What happens at the door, and at midnight, touches no check.
LEMMA TheDayGoesOn ==
  ASSUME IInv, UNCHANGED <<tables, screens, req>>,
         \/ \E m \in Members : CheckIn(m) \/ EnterAbsence(m) \/ \E d \in 1..Days : CheckOut(m, d)
         \/ Midnight
  PROVE  IInv'
<1>1. TypeOK'
  <2>1. CASE \E m \in Members : CheckIn(m)
    BY <2>1 DEF IInv, TypeOK, CheckIn, tables, screens
  <2>2. CASE \E m \in Members : EnterAbsence(m)
    BY <2>2 DEF IInv, TypeOK, EnterAbsence, tables, screens
  <2>3. CASE \E m \in Members, d \in 1..Days : CheckOut(m, d)
    BY <2>3 DEF IInv, TypeOK, CheckOut, tables, screens
  <2>4. CASE Midnight
    BY <2>4, PresenceAssumption DEF IInv, TypeOK, Midnight, tables, screens
  <2> QED BY <2>1, <2>2, <2>3, <2>4
<1> QED BY <1>1 DEF IInv, tables, screens, DeadlinesAreBehind, ConfirmsAreAsked,
            SafeAreConfirmed, Doing, There, DecidedAfterDeadline, ConfirmedWereAsked

\* A request that comes takes down what it read; one that is lost is forgotten.
LEMMA RequestsComeAndGo ==
  ASSUME IInv, NEW t \in Txns, UNCHANGED <<attendance, tables, screens>>,
         \/ BeginCreate(t) \/ Lose(t)
         \/ \E m \in Members : BeginConfirm(t, m)
         \/ \E c \in Checks, m \in Members : BeginConfirmByAdmin(t, c, m)
         \/ \E c \in Checks : BeginResolve(t, c)
  PROVE  IInv'
<1> USE DEF attendance, tables, screens
<1>1. \A u \in Txns \ {t} : req'[u] = req[u]
  BY DEF IInv, TypeOK, BeginCreate, Lose, BeginConfirm, BeginConfirmByAdmin, BeginResolve
<1>2. CASE BeginCreate(t) \/ Lose(t)
  <2>1. req' \in [Txns -> Create \cup Confirm \cup Resolve \cup {Idle}]
    BY <1>2 DEF IInv, TypeOK, BeginCreate, Lose, Create
  <2>2. ~Doing(t, "confirm")' /\ ~Doing(t, "resolve")'
    BY <1>2 DEF IInv, TypeOK, BeginCreate, Lose, Doing
  <2> QED BY <1>1, <2>1, <2>2 DEF IInv, TypeOK, DeadlinesAreBehind, ConfirmsAreAsked,
              SafeAreConfirmed, Doing, There, DecidedAfterDeadline, ConfirmedWereAsked
<1>3. CASE \/ \E m \in Members : BeginConfirm(t, m)
           \/ \E c \in Checks, m \in Members : BeginConfirmByAdmin(t, c, m)
  <2>1. PICK c \in Checks, m \in Members, self \in BOOLEAN :
          /\ There(c) /\ m \in checks[c].targets
          /\ req' = [req EXCEPT ![t] = [op |-> "confirm", check |-> c, member |-> m, self |-> self]]
    BY <1>3 DEF IInv, TypeOK, BeginConfirm, BeginConfirmByAdmin, Open
  <2>2. req' \in [Txns -> Create \cup Confirm \cup Resolve \cup {Idle}]
    BY <2>1 DEF IInv, TypeOK, Confirm
  <2>3. ~Doing(t, "resolve")' /\ req'[t].check = c /\ req'[t].member = m
    <3>1. req'[t] = [op |-> "confirm", check |-> c, member |-> m, self |-> self]
      BY <2>1 DEF IInv, TypeOK
    <3>2. req'[t].op = "confirm" /\ req'[t].check = c /\ req'[t].member = m
      BY <3>1
    <3> QED BY <3>2 DEF Doing
  <2> QED BY <1>1, <2>1, <2>2, <2>3 DEF IInv, TypeOK, DeadlinesAreBehind, ConfirmsAreAsked,
              SafeAreConfirmed, Doing, There, DecidedAfterDeadline, ConfirmedWereAsked
<1>4. CASE \E c \in Checks : BeginResolve(t, c)
  <2>1. PICK c \in Checks, d \in {"left_work", "keep"} :
          /\ There(c) /\ Offered(c)
          /\ req' = [req EXCEPT ![t] = [op |-> "resolve", check |-> c, date |-> checks[c].date,
                       targets |-> checks[c].targets, decision |-> d,
                       safe |-> checks[c].targets \ Unconfirmed(c)]]
    BY <1>4 DEF BeginResolve, Open
  <2>2. checks[c] \in Check /\ c \in expired
    BY <2>1, RowsAreChecks DEF IInv, DeadlinesAreBehind, Offered
  <2>3. req' \in [Txns -> Create \cup Confirm \cup Resolve \cup {Idle}]
    BY <2>1, <2>2 DEF IInv, TypeOK, Resolve, Check
  <2>4. /\ ~Doing(t, "confirm")' /\ req'[t].check = c
        /\ \A m \in req'[t].safe : <<c, m>> \in confirmed
    BY <2>1, <2>3 DEF IInv, TypeOK, Doing, Unconfirmed
  <2> QED BY <1>1, <2>1, <2>2, <2>3, <2>4 DEF IInv, TypeOK, DeadlinesAreBehind, ConfirmsAreAsked,
              SafeAreConfirmed, Doing, There, DecidedAfterDeadline, ConfirmedWereAsked
<1> QED BY <1>2, <1>3, <1>4

\* A new check takes a place no request speaks of.
LEMMA ChecksAreMade ==
  ASSUME IInv, NEW t \in Txns, NEW c \in Checks, FinishCreate(t, c)
  PROVE  IInv'
<1>1. req[t] \in Create /\ checks[c] = NoCheck /\ ~There(c)
  BY RequestFields DEF IInv, FinishCreate, There
<1>2. PICK k \in Check : checks' = [checks EXCEPT ![c] = k] /\ k.status = "open"
  <2>1. [date |-> req[t].date, targets |-> req[t].targets, status |-> "open",
         decision |-> "none"] \in Check
    BY <1>1 DEF Create, Check
  <2> QED BY <2>1 DEF FinishCreate
<1>3. TypeOK'
  BY <1>2 DEF IInv, TypeOK, FinishCreate, attendance, screens
<1>4. \A b \in Checks \ {c} : checks'[b] = checks[b]
  BY <1>2 DEF IInv, TypeOK
<1>5. checks'[c] = k
  BY <1>2 DEF IInv, TypeOK
<1>6. /\ \A u \in Txns \ {t} : req'[u] = req[u]
      /\ req'[t] = Idle
      /\ UNCHANGED <<expired, confirmed, shown, asked>>
  BY DEF IInv, TypeOK, FinishCreate, screens
<1>7. \A u \in Txns : /\ Doing(u, "confirm")' => Doing(u, "confirm") /\ req[u].check # c
                      /\ Doing(u, "resolve")' => Doing(u, "resolve") /\ req[u].check # c
  BY <1>1, <1>6 DEF Doing, IInv, ConfirmsAreAsked, SafeAreConfirmed
<1>8. DeadlinesAreBehind' /\ ConfirmsAreAsked' /\ SafeAreConfirmed'
  BY <1>4, <1>6, <1>7, RequestFields DEF IInv, DeadlinesAreBehind, ConfirmsAreAsked,
     SafeAreConfirmed, Doing, There, Confirm, Resolve
<1>9. DecidedAfterDeadline'
  BY <1>2, <1>4, <1>5, <1>6 DEF IInv, DecidedAfterDeadline, There
<1>10. ConfirmedWereAsked'
  BY <1>1, <1>4, <1>6 DEF IInv, TypeOK, ConfirmedWereAsked, There
<1> QED BY <1>3, <1>8, <1>9, <1>10 DEF IInv

\* A screen takes up what is true, and a deadline passes for good.
LEMMA ScreensFollow ==
  ASSUME IInv, List \/ (\E m \in Members : Poll(m)) \/ \E c \in Checks : DeadlinePasses(c)
  PROVE  IInv'
<1>1. UNCHANGED <<today, row, left, checks, confirmed, req>> /\ expired \subseteq expired'
  BY DEF List, Poll, DeadlinePasses, tables, attendance, screens
<1>2. TypeOK'
  <2>1. CASE List
    <3>1. \A c \in Checks : Open(c) => Unconfirmed(c) \in SUBSET Members
      BY RowsAreChecks DEF IInv, Open, Unconfirmed, Check
    <3>2. shown' \in [Checks -> Listed \cup {NoCheck}]
      BY <2>1, <3>1 DEF List, Listed
    <3> QED BY <2>1, <3>2, <1>1 DEF List, tables, IInv, TypeOK
  <2>2. CASE \E m \in Members : Poll(m)
    BY <2>2, <1>1 DEF Poll, tables, IInv, TypeOK
  <2>3. CASE \E c \in Checks : DeadlinePasses(c)
    BY <2>3, <1>1 DEF DeadlinePasses, screens, IInv, TypeOK
  <2> QED BY <2>1, <2>2, <2>3
<1>3. \A c \in Checks : shown'[c] # NoCheck /\ shown'[c].past => c \in expired'
  <2>1. CASE List
    BY <2>1 DEF List, tables
  <2>2. CASE ~List
    BY <2>2, <1>1 DEF Poll, DeadlinePasses, tables, screens, IInv, DeadlinesAreBehind
  <2> QED BY <2>1, <2>2
<1>4. DeadlinesAreBehind'
  BY <1>1, <1>3 DEF IInv, DeadlinesAreBehind, Doing
<1> QED BY <1>1, <1>2, <1>4 DEF IInv, ConfirmsAreAsked, SafeAreConfirmed, Doing, There,
            DecidedAfterDeadline, ConfirmedWereAsked

\* A confirmation that is kept is of a check that is there.
LEMMA ConfirmationsLand ==
  ASSUME IInv, NEW t \in Txns, FinishConfirm(t)
  PROVE  IInv'
<1>1. req[t] \in Confirm
  BY RequestFields DEF IInv, FinishConfirm
<1>2. /\ UNCHANGED <<today, row, left, checks, expired, shown, asked>>
      /\ confirmed \subseteq confirmed'
      /\ \A u \in Txns \ {t} : req'[u] = req[u]
      /\ req'[t] = Idle
  BY DEF FinishConfirm, attendance, screens, IInv, TypeOK
<1>3. \A p \in confirmed' \ confirmed : There(p[1]) /\ p[1] \in Checks /\ p[2] \in checks[p[1]].targets
  BY <1>1 DEF FinishConfirm, IInv, ConfirmsAreAsked, Confirm
<1>4. TypeOK'
  BY <1>1, <1>2 DEF IInv, TypeOK, FinishConfirm, Confirm
<1>5. ConfirmedWereAsked'
  BY <1>2, <1>3 DEF IInv, ConfirmedWereAsked, There
<1> QED BY <1>2, <1>4, <1>5 DEF IInv, DeadlinesAreBehind, ConfirmsAreAsked, SafeAreConfirmed,
            Doing, There, DecidedAfterDeadline

\* A decision leaves the targets and the confirmations of its check alone.
LEMMA DecisionsLand ==
  ASSUME IInv, NEW t \in Txns, FinishResolve(t)
  PROVE  IInv'
<1>1. req[t] \in Resolve /\ req[t].check \in expired
  BY RequestFields DEF IInv, FinishResolve, DeadlinesAreBehind
<1>2. /\ UNCHANGED <<today, row, expired, confirmed, shown, asked>>
      /\ \A u \in Txns \ {t} : req'[u] = req[u]
      /\ req'[t] = Idle
  BY DEF FinishResolve, screens, IInv, TypeOK
<1>3. PICK c \in Checks : c = req[t].check
  BY <1>1 DEF Resolve
<1>4. \A b \in Checks \ {c} : checks'[b] = checks[b]
  BY <1>3 DEF FinishResolve, IInv, TypeOK
<1>5. /\ There(c) => /\ checks[c] \in Check /\ checks'[c] \in Check
                     /\ checks'[c].targets = checks[c].targets
      /\ ~There(c) => checks'[c] = checks[c]
  <2>1. CASE There(c)
    <3>1. checks[c] \in Check
      BY <2>1, RowsAreChecks DEF IInv
    <3>2. checks'[c] = [checks[c] EXCEPT !.status = "resolved", !.decision = req[t].decision]
      BY <2>1, <1>3 DEF FinishResolve, IInv, TypeOK
    <3> QED BY <2>1, <3>1, <3>2, <1>1 DEF Check, Resolve
  <2>2. CASE ~There(c)
    BY <2>2, <1>3 DEF FinishResolve
  <2> QED BY <2>1, <2>2
<1>6. \A b \in Checks : There(b)' <=> There(b)
  BY <1>4, <1>5, PresenceAssumption DEF There
<1>7. TypeOK'
  <2>1. checks' \in [Checks -> Check \cup {NoCheck, Gone}]
    BY <1>3, <1>4, <1>5 DEF FinishResolve, IInv, TypeOK
  <2>2. left' \subseteq Members \X (1..Days)
    BY <1>1 DEF FinishResolve, IInv, TypeOK, Marked, Resolve
  <2> QED BY <1>2, <2>1, <2>2 DEF FinishResolve, IInv, TypeOK
<1>8. \A b \in Checks : /\ There(b) => checks'[b].targets = checks[b].targets
                        /\ checks'[b] = NoCheck <=> checks[b] = NoCheck
  BY <1>4, <1>5, PresenceAssumption DEF There
<1>9. DecidedAfterDeadline'
  BY <1>1, <1>2, <1>3, <1>4, <1>6 DEF IInv, DecidedAfterDeadline
<1>10. ConfirmedWereAsked'
  BY <1>2, <1>6, <1>8 DEF IInv, TypeOK, ConfirmedWereAsked
<1>11. \A u \in Txns : /\ Doing(u, "confirm")' => Doing(u, "confirm") /\ req'[u] = req[u]
                       /\ Doing(u, "resolve")' => Doing(u, "resolve") /\ req'[u] = req[u]
  BY <1>2 DEF Doing
<1>12. DeadlinesAreBehind' /\ ConfirmsAreAsked' /\ SafeAreConfirmed'
  BY <1>2, <1>6, <1>8, <1>11, RequestFields DEF IInv, DeadlinesAreBehind, ConfirmsAreAsked,
     SafeAreConfirmed, Confirm, Resolve
<1> QED BY <1>7, <1>9, <1>10, <1>12 DEF IInv

\* A check that is deleted takes its confirmations along.
LEMMA ChecksGo ==
  ASSUME IInv, NEW c \in Checks, Delete(c)
  PROVE  IInv'
<1>1. /\ UNCHANGED <<today, row, left, expired, shown, asked, req>>
      /\ checks'[c] = Gone
      /\ \A b \in Checks \ {c} : checks'[b] = checks[b]
      /\ confirmed' = {p \in confirmed : p[1] # c}
  BY DEF Delete, attendance, screens, IInv, TypeOK
<1>2. TypeOK'
  BY <1>1 DEF Delete, IInv, TypeOK
<1>3. \A b \in Checks : There(b)' <=> There(b) /\ b # c
  BY <1>1 DEF There
<1>4. DecidedAfterDeadline' /\ ConfirmedWereAsked'
  BY <1>1, <1>3 DEF IInv, TypeOK, DecidedAfterDeadline, ConfirmedWereAsked
<1>5. DeadlinesAreBehind' /\ ConfirmsAreAsked' /\ SafeAreConfirmed'
  BY <1>1, <1>3, RequestFields, PresenceAssumption DEF IInv, DeadlinesAreBehind, ConfirmsAreAsked,
     SafeAreConfirmed, Doing, Confirm, Resolve
<1> QED BY <1>2, <1>4, <1>5 DEF IInv

\* Every step keeps the invariant.
THEOREM PresenceInductive == IInv /\ [Next]_vars => IInv'
<1> SUFFICES ASSUME IInv, [Next]_vars PROVE IInv'
  OBVIOUS
<1>1. CASE UNCHANGED vars
  BY <1>1 DEF vars, attendance, tables, screens, IInv, TypeOK, DeadlinesAreBehind,
     ConfirmsAreAsked, SafeAreConfirmed, Doing, There, DecidedAfterDeadline, ConfirmedWereAsked
<1>2. CASE Next
  <2>1. ASSUME NEW t \in Txns,
               \/ BeginCreate(t) \/ Lose(t)
               \/ \E m \in Members : BeginConfirm(t, m)
               \/ \E c \in Checks, m \in Members : BeginConfirmByAdmin(t, c, m)
               \/ \E c \in Checks : BeginResolve(t, c)
        PROVE  IInv'
    BY <2>1, RequestsComeAndGo DEF BeginCreate, Lose, BeginConfirm, BeginConfirmByAdmin, BeginResolve
  <2>2. ASSUME \/ \E m \in Members : CheckIn(m) \/ EnterAbsence(m) \/ \E d \in 1..Days : CheckOut(m, d)
               \/ Midnight
        PROVE  IInv'
    BY <2>2, TheDayGoesOn DEF CheckIn, EnterAbsence, CheckOut, Midnight
  <2> QED BY <1>2, <2>1, <2>2, ChecksAreMade, ScreensFollow, ConfirmationsLand, DecisionsLand,
             ChecksGo DEF Next
<1> QED BY <1>1, <1>2

\* Types, for any number of everything.
THEOREM PresenceTyped == Spec => []TypeOK
<1>1. IInv => TypeOK
  BY DEF IInv
<1> QED BY Initially, PresenceInductive, <1>1, PTL DEF Spec

\* No check is decided before its deadline.
THEOREM ChecksAreDecidedLate == Spec => []DecidedAfterDeadline
<1>1. IInv => DecidedAfterDeadline
  BY DEF IInv
<1> QED BY Initially, PresenceInductive, <1>1, PTL DEF Spec

\* Confirmations are of those who were asked, by checks that are there.
THEOREM ConfirmationsWereAsked == Spec => []ConfirmedWereAsked
<1>1. IInv => ConfirmedWereAsked
  BY DEF IInv
<1> QED BY Initially, PresenceInductive, <1>1, PTL DEF Spec

\* A decision marks nobody who had confirmed when it was asked for, unless the check is gone.
THEOREM ConfirmedStay == Spec => ConfirmedIsKept
<1>1. IInv /\ [Next]_vars =>
        [\A t \in Txns : FinishResolve(t) =>
           \A p \in left' \ left : p[1] \in req[t].safe => checks[req[t].check] = Gone]_vars
  <2> SUFFICES ASSUME IInv, NEW t \in Txns, FinishResolve(t), NEW p \in left' \ left,
                      p[1] \in req[t].safe
               PROVE  checks[req[t].check] = Gone
    OBVIOUS
  <2>1. <<req[t].check, p[1]>> \notin confirmed
    BY DEF FinishResolve, Marked
  <2>2. ~There(req[t].check) /\ checks[req[t].check] # NoCheck
    BY <2>1 DEF FinishResolve, IInv, SafeAreConfirmed
  <2> QED BY <2>2 DEF There
<1> QED BY Initially, PresenceInductive, <1>1, PTL DEF Spec, ConfirmedIsKept
=============================================================================
