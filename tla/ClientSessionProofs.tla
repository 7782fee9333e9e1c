------------------------ MODULE ClientSessionProofs ------------------------
(***************************************************************************)
(* What ClientSession keeps for any number of requests and of tokens: the  *)
(* app replays a token only after losing an answer, and what it holds of a *)
(* session the server has ended opens nothing, unless a renewal of that    *)
(* session was under way meanwhile.                                        *)
(***************************************************************************)
EXTENDS ClientSession, TLAPS

\* The answer of job j is being written into the pair.
Storing(j) == At(j, "access") \/ At(j, "refresh")

\* A family is named by a token of it that was issued.
FamiliesAreIssued == \A t \in Issued : server[t].family \in Issued

\* A family is revoked as a whole, unless a renewal was under way meanwhile.
EndedAsAWhole ==
  \A t, u \in Issued :
    server[t].family = server[u].family /\ server[u].revoked /\ ~server[t].revoked =>
      server[t].family \in overtaken

\* A renewal being served is of a family nothing of was revoked, or counts as under way.
ServedIsAlive ==
  At("renew", "serving") =>
    \A u \in Issued :
      server[u].family = server[job["renew"].token].family /\ server[u].revoked =>
        server[u].family \in overtaken

\* A token exchanged is gone from the pair, or its answer was not kept, or
\* the one that follows it is about to be stored.
Heard(t) == server[t].rotated => t \in unheard

HeldIsHeard ==
  held.refresh # None =>
    held.refresh \in Issued /\ (Heard(held.refresh) \/ Storing("renew"))

\* A renewal presents an issued token; what it stores was not exchanged yet.
RenewalIsIssued ==
  /\ ~Idle("renew") => job["renew"].token \in Issued \cup {None}
  /\ At("renew", "asking") => job["renew"].token \in Issued /\ Heard(job["renew"].token)
  /\ At("renew", "serving") => job["renew"].token \in Issued
  /\ Storing("renew") => job["renew"].token \in Issued /\ ~server[job["renew"].token].rotated

\* The token of a sign-in or of a changed password is nobody else's until it is stored.
PairIsNew(j) ==
  ~Idle(j) /\ job[j].token # None =>
    /\ Storing(j)
    /\ job[j].token \in Issued /\ ~server[job[j].token].rotated
    /\ job[j].token # held.refresh
    /\ \A k \in Jobs \ {j} : ~Idle(k) => job[k].token # job[j].token
PairsAreNew == PairIsNew("login") /\ PairIsNew("account")

\* A sign-out presents an issued token, then clears the pair; so does a lost session.
EndsClear ==
  /\ ~Idle("logout") => \/ At("logout", "asking") /\ job["logout"].token \in Issued
                        \/ Storing("logout") /\ job["logout"].token = None
  /\ ~Idle("lost") => Storing("lost") /\ job["lost"].token = None

\* The inductive invariant.
IInv == /\ TypeOK /\ FamiliesAreIssued /\ EndedAsAWhole /\ ServedIsAlive /\ HeldIsHeard
        /\ RenewalIsIssued /\ PairsAreNew /\ EndsClear

-----------------------------------------------------------------------------
(* Reading the state *)

\* An issued token has a row, any other none.
LEMMA Rows ==
  ASSUME TypeOK
  PROVE  /\ Issued \subseteq Tokens /\ None \notin Issued
         /\ \A t \in Issued : server[t] \in Row
         /\ \A t \in Tokens \ Issued : server[t] = None
BY NoneAssumption DEF TypeOK, Issued

\* While not every pair is out, there is one left to issue.
LEMMA FreshIsNew ==
  ASSUME Issued # Tokens
  PROVE  Fresh \in Tokens /\ Fresh \notin Issued
<1>1. \E t \in Tokens : t \notin Issued
  BY DEF Issued
<1> QED BY <1>1 DEF Fresh

\* A new row takes the place of none; the others stay.
LEMMA IssueAdds ==
  ASSUME TypeOK, Issued # Tokens, NEW f \in Tokens, server' = Issue(server, f)
  PROVE  /\ server' \in [Tokens -> Row \cup {None}]
         /\ Issued' = Issued \cup {Fresh}
         /\ server'[Fresh] = [family |-> f, rotated |-> FALSE, revoked |-> FALSE]
         /\ \A t \in Issued : server'[t] = server[t]
<1> DEFINE row == [family |-> f, rotated |-> FALSE, revoked |-> FALSE]
<1>1. row \in Row /\ row # None
  <2>1. row \in Row
    BY DEF Row
  <2> QED BY <2>1, NoneAssumption
<1>2. server' = [server EXCEPT ![Fresh] = row]
  BY DEF Issue, NewRow
<1> HIDE DEF row
<1>3. Fresh \in Tokens /\ Fresh \notin Issued
  BY FreshIsNew
<1>4. /\ server' \in [Tokens -> Row \cup {None}] /\ server'[Fresh] = row
      /\ \A t \in Tokens \ {Fresh} : server'[t] = server[t]
  BY <1>1, <1>2, <1>3 DEF TypeOK
<1>5. Issued' = Issued \cup {Fresh}
  BY <1>1, <1>3, <1>4 DEF Issued
<1>6. \A t \in Issued : t # Fresh /\ t \in Tokens
  BY <1>3 DEF Issued
<1> QED BY <1>4, <1>5, <1>6 DEF row

\* Revoking families marks their rows and no other.
LEMMA RevokeMarks ==
  ASSUME TypeOK, NEW families
  PROVE  /\ Revoke(families) \in [Tokens -> Row \cup {None}]
         /\ \A t \in Tokens : Revoke(families)[t] # None <=> t \in Issued
         /\ \A t \in Issued :
              /\ Revoke(families)[t].family = server[t].family
              /\ Revoke(families)[t].rotated = server[t].rotated
              /\ Revoke(families)[t].revoked <=> server[t].revoked \/ server[t].family \in families
<1> DEFINE rows == Revoke(families)
<1>1. \A t \in Tokens :
        rows[t] = IF t \in Issued /\ server[t].family \in families
                    THEN [server[t] EXCEPT !.revoked = TRUE] ELSE server[t]
  BY DEF Revoke
<1>2. \A t \in Issued : [server[t] EXCEPT !.revoked = TRUE] \in Row
  BY Rows DEF Row
<1>3. rows \in [Tokens -> Row \cup {None}]
  BY <1>1, <1>2, Rows DEF Revoke
<1>4. \A t \in Tokens : rows[t] # None <=> t \in Issued
  BY <1>1, <1>2, Rows, NoneAssumption DEF Issued
<1>5. \A t \in Issued :
        /\ rows[t].family = server[t].family /\ rows[t].rotated = server[t].rotated
        /\ rows[t].revoked <=> server[t].revoked \/ server[t].family \in families
  <2> TAKE t \in Issued
  <2>1. server[t] \in Row /\ t \in Tokens
    BY Rows
  <2>2. CASE server[t].family \in families
    <3>1. rows[t] = [server[t] EXCEPT !.revoked = TRUE]
      BY <1>1, <2>1, <2>2
    <3> QED BY <2>1, <2>2, <3>1 DEF Row
  <2>3. CASE server[t].family \notin families
    BY <1>1, <2>1, <2>3
  <2> QED BY <2>2, <2>3
<1> QED BY <1>3, <1>4, <1>5

\* Putting a job somewhere moves no other, and that one there.
LEMMA Jobbed ==
  ASSUME TypeOK, NEW j \in Jobs, NEW stage \in Stages, NEW t \in Tokens \cup {None},
         Put(j, stage, t)
  PROVE  /\ job' \in [Jobs -> Job \cup {None}]
         /\ job'[j] = [at |-> stage, token |-> t]
         /\ job'[j].at = stage /\ job'[j].token = t /\ ~Idle(j)'
         /\ \A k \in Jobs \ {j} : job'[k] = job[k]
<1>1. [at |-> stage, token |-> t] \in Job
  BY DEF Job
<1>2. [at |-> stage, token |-> t] # None
  BY <1>1, NoneAssumption
<1> QED BY <1>1, <1>2 DEF Put, TypeOK, Idle

\* The jobs, one by one.
LEMMA FiveJobs ==
  /\ {"renew", "login", "account", "logout", "lost"} = Jobs
  /\ "renew" # "login" /\ "renew" # "account" /\ "renew" # "logout" /\ "renew" # "lost"
  /\ "login" # "account" /\ "login" # "logout" /\ "login" # "lost"
  /\ "account" # "logout" /\ "account" # "lost" /\ "logout" # "lost"
BY DEF Jobs

-----------------------------------------------------------------------------
(* Every step keeps the invariant *)

\* Nothing is held, nothing is awaited.
LEMMA Initially == Init => IInv
<1> SUFFICES ASSUME Init PROVE IInv
  OBVIOUS
<1>1. TypeOK
  BY DEF Init, TypeOK
<1>2. Issued = {} /\ \A j \in Jobs : Idle(j) /\ \A stage \in Stages : ~At(j, stage)
  BY DEF Init, Issued, Idle, At
<1>3. ~At("renew", "asking") /\ ~At("renew", "serving") /\ ~Storing("renew")
  BY <1>2, FiveJobs DEF Storing, Stages
<1> QED BY <1>1, <1>2, <1>3, FiveJobs DEF Init, IInv, FamiliesAreIssued, EndedAsAWhole,
             ServedIsAlive, HeldIsHeard, RenewalIsIssued, PairsAreNew, PairIsNew, EndsClear

\* The invariant reads neither the screen, nor the requests, nor the access token.
LEMMA PageKeeps ==
  ASSUME IInv, TypeOK', held'.refresh = held.refresh, UNCHANGED <<server, job, overtaken, unheard>>
  PROVE  IInv'
BY DEF IInv, FamiliesAreIssued, EndedAsAWhole, ServedIsAlive, HeldIsHeard, Heard, RenewalIsIssued,
       PairsAreNew, PairIsNew, EndsClear, Issued, Idle, At, Storing

\* Only a job moves: the families stay as they are.
LEMMA FamiliesStay ==
  ASSUME IInv, UNCHANGED <<server, overtaken>>
  PROVE  Issued' = Issued /\ FamiliesAreIssued' /\ EndedAsAWhole'
BY DEF IInv, FamiliesAreIssued, EndedAsAWhole, Issued

\* A renewal starts with the token held, or joins the one under way.
LEMMA RenewKeeps ==
  ASSUME IInv, TypeOK', Renew, held.refresh # None,
         UNCHANGED <<server, held, overtaken, unheard>>
  PROVE  IInv'
<1>1. CASE ~Idle("renew")
  BY <1>1, PageKeeps DEF Renew
<1>2. CASE Idle("renew")
  <2>1. Put("renew", "asking", held.refresh) /\ held.refresh \in Tokens \cup {None}
    BY <1>2 DEF Renew, IInv, TypeOK
  <2>2. /\ job'["renew"].at = "asking" /\ job'["renew"].token = held.refresh /\ ~Idle("renew")'
        /\ \A k \in Jobs \ {"renew"} : job'[k] = job[k]
    <3>1. TypeOK /\ "renew" \in Jobs /\ "asking" \in Stages
      BY FiveJobs DEF IInv, Stages
    <3> QED BY <2>1, <3>1, Jobbed
  <2>3. ~Storing("renew") /\ ~Storing("renew")' /\ ~At("renew", "serving")'
    BY <1>2, <2>2 DEF Storing, At, Idle
  <2>4. HeldIsHeard' /\ RenewalIsIssued' /\ ServedIsAlive'
    BY <2>2, <2>3, FamiliesStay DEF IInv, HeldIsHeard, Heard, RenewalIsIssued, ServedIsAlive
  <2>5. PairsAreNew'
    <3> SUFFICES ASSUME NEW j \in {"login", "account"} PROVE PairIsNew(j)'
      BY DEF PairsAreNew
    <3>1. j \in Jobs /\ j # "renew" /\ job'[j] = job[j] /\ PairIsNew(j)
      BY <2>2, FiveJobs DEF IInv, PairsAreNew
    <3> QED BY <2>2, <3>1, FamiliesStay DEF PairIsNew, Idle, At, Storing
  <2>6. EndsClear'
    BY <2>2, FiveJobs, FamiliesStay DEF IInv, EndsClear, Idle, At, Storing
  <2> QED BY <2>4, <2>5, <2>6, FamiliesStay DEF IInv
<1> QED BY <1>1, <1>2

\* The server reads the token: alive, or of a family that counts as overtaken from now on.
LEMMA ServeKeeps == ASSUME IInv, Serve PROVE IInv'
<1>1. PICK t, f : t = job["renew"].token /\ f = server[t].family
  OBVIOUS
<1>2. /\ At("renew", "asking") /\ ~server[t].rotated /\ (server[t].revoked => t \in ending)
      /\ Put("renew", "serving", t)
      /\ overtaken' = IF t \in ending THEN overtaken \cup {f} ELSE overtaken
      /\ UNCHANGED <<server, held, ui, call, ending, unheard>>
  BY <1>1 DEF Serve
<1>3. t \in Issued /\ t \in Tokens /\ server[t] \in Row /\ f \in Tokens
  BY <1>1, <1>2, Rows DEF IInv, RenewalIsIssued, Row
<1>4. /\ job' \in [Jobs -> Job \cup {None}]
      /\ job'["renew"].at = "serving" /\ job'["renew"].token = t /\ ~Idle("renew")'
      /\ \A k \in Jobs \ {"renew"} : job'[k] = job[k]
  <2>1. TypeOK /\ "renew" \in Jobs /\ t \in Tokens \cup {None} /\ "serving" \in Stages
    BY <1>3, FiveJobs DEF IInv, Stages
  <2> QED BY <1>2, <2>1, Jobbed
<1>5. Issued' = Issued /\ FamiliesAreIssued' /\ EndedAsAWhole'
  BY <1>2 DEF IInv, FamiliesAreIssued, EndedAsAWhole, Issued
<1>6. TypeOK'
  BY <1>2, <1>3, <1>4 DEF IInv, TypeOK
<1>7. ServedIsAlive'
  <2>1. CASE server[t].revoked
    BY <1>1, <1>2, <1>4, <2>1 DEF ServedIsAlive
  <2>2. CASE ~server[t].revoked
    <3>1. \A u \in Issued : server[u].family = f /\ server[u].revoked => f \in overtaken
      BY <1>1, <1>3, <2>2 DEF IInv, EndedAsAWhole
    <3> QED BY <1>1, <1>2, <1>4, <1>5, <3>1 DEF ServedIsAlive
  <2> QED BY <2>1, <2>2
<1>8. ~Storing("renew") /\ ~Storing("renew")' /\ ~At("renew", "asking")'
  BY <1>2, <1>4 DEF Storing, At
<1>9. HeldIsHeard' /\ RenewalIsIssued'
  BY <1>2, <1>3, <1>4, <1>5, <1>8 DEF IInv, HeldIsHeard, Heard, RenewalIsIssued
<1>10. \A k \in Jobs : Idle(k)' <=> Idle(k)
  BY <1>2, <1>4 DEF Idle, At
<1>11. PairsAreNew'
  <2> SUFFICES ASSUME NEW j \in {"login", "account"} PROVE PairIsNew(j)'
    BY DEF PairsAreNew
  <2>1. j \in Jobs /\ j # "renew" /\ job'[j] = job[j] /\ PairIsNew(j)
    BY <1>4, FiveJobs DEF IInv, PairsAreNew
  <2>2. \A k \in Jobs : job'[k].token = job[k].token
    BY <1>1, <1>4
  <2> QED BY <1>2, <1>5, <1>10, <2>1, <2>2 DEF PairIsNew, At, Storing
<1>12. EndsClear'
  BY <1>4, <1>5, <1>10, FiveJobs DEF IInv, EndsClear, At, Storing
<1> QED BY <1>5, <1>6, <1>7, <1>9, <1>11, <1>12 DEF IInv

\* The server exchanges the token presented: its successor is new, and the
\* renewal either has it or knows nothing of it.
LEMMA ExchangeKeeps == ASSUME IInv, Exchange PROVE IInv'
<1>1. PICK t, n, f : t = job["renew"].token /\ n = Fresh /\ f = server[t].family
  OBVIOUS
<1> DEFINE row == [family |-> f, rotated |-> FALSE, revoked |-> FALSE]
           marked == [server[t] EXCEPT !.rotated = TRUE]
<1>2. /\ At("renew", "serving") /\ ~server[t].rotated /\ Issued # Tokens
      /\ server' = [[server EXCEPT ![t] = marked] EXCEPT ![n] = row]
      /\ UNCHANGED <<held, ui, call, ending, overtaken>>
  BY <1>1 DEF Exchange, Issue, NewRow
<1>3. t \in Issued /\ t \in Tokens /\ server[t] \in Row /\ f \in Issued /\ f \in Tokens
  BY <1>1, <1>2, Rows DEF IInv, RenewalIsIssued, FamiliesAreIssued
<1>4. \A u \in Issued : server[u].family = f /\ server[u].revoked => f \in overtaken
  BY <1>1, <1>2 DEF IInv, ServedIsAlive
<1>5. n \in Tokens /\ n \notin Issued
  BY <1>1, <1>2, FreshIsNew
<1>6. marked \in Row /\ row \in Row
  BY <1>3 DEF Row
<1>7. /\ row.family = f /\ ~row.rotated /\ ~row.revoked
      /\ marked.family = f /\ marked.revoked = server[t].revoked
  BY <1>1, <1>3 DEF Row
<1> HIDE DEF row, marked
<1>8. /\ server' \in [Tokens -> Row \cup {None}] /\ server'[n] = row /\ server'[t] = marked
      /\ \A u \in Tokens \ {t, n} : server'[u] = server[u]
  BY <1>2, <1>3, <1>5, <1>6 DEF IInv, TypeOK
<1>9. Issued' = Issued \cup {n}
  <2>1. server'[t] # None /\ server'[n] # None
    BY <1>6, <1>8, NoneAssumption
  <2> QED BY <1>3, <1>5, <1>8, <2>1 DEF Issued
<1>10. \A u \in Issued \ {t} : server'[u] = server[u]
  BY <1>5, <1>8 DEF Issued
<1>11. PICK stage \in {"access", "failed"}, new \in {n, None} :
         /\ Put("renew", stage, new)
         /\ stage = "access" => new = n /\ unheard' = unheard
         /\ stage = "failed" => new = None /\ unheard' = unheard \cup {t}
  BY <1>1 DEF Exchange
<1>12. /\ job' \in [Jobs -> Job \cup {None}]
       /\ job'["renew"].at = stage /\ job'["renew"].token = new /\ ~Idle("renew")'
       /\ \A k \in Jobs \ {"renew"} : job'[k] = job[k]
  <2>1. new \in Tokens \cup {None} /\ stage \in Stages
    BY <1>5, <1>11 DEF Stages
  <2>2. TypeOK /\ "renew" \in Jobs
    BY FiveJobs DEF IInv
  <2> QED BY <1>11, <2>1, <2>2, Jobbed
<1>13. TypeOK'
  BY <1>2, <1>3, <1>8, <1>11, <1>12 DEF IInv, TypeOK
<1>14. \A u \in Issued' : /\ u \in {t, n} => server'[u].family = f
                          /\ u \notin {t, n} => u \in Issued /\ server'[u] = server[u]
                          /\ u # n => u \in Issued /\ server'[u].family = server[u].family
                                     /\ server'[u].revoked = server[u].revoked
                          /\ u = n => ~server'[u].revoked
  BY <1>1, <1>3, <1>7, <1>8, <1>9, <1>10
<1>15. FamiliesAreIssued'
  <2> SUFFICES ASSUME NEW u \in Issued' PROVE server'[u].family \in Issued'
    BY DEF FamiliesAreIssued
  <2>1. CASE u \in {t, n}
    BY <1>3, <1>9, <1>14, <2>1
  <2>2. CASE u \notin {t, n}
    BY <1>9, <1>14, <2>2 DEF IInv, FamiliesAreIssued
  <2> QED BY <2>1, <2>2
<1>16. EndedAsAWhole'
  <2> SUFFICES ASSUME NEW v \in Issued', NEW u \in Issued',
                      server'[v].family = server'[u].family, server'[u].revoked, ~server'[v].revoked
               PROVE  server'[v].family \in overtaken
    BY <1>2 DEF EndedAsAWhole
  <2>1. u # n /\ u \in Issued /\ server[u].revoked /\ server'[u].family = server[u].family
    BY <1>14
  <2>2. CASE v = n
    BY <1>4, <1>14, <2>1, <2>2
  <2>3. CASE v # n
    <3>1. v \in Issued /\ server'[v].family = server[v].family /\ ~server[v].revoked
      BY <1>14, <2>3
    <3> QED BY <2>1, <3>1 DEF IInv, EndedAsAWhole
  <2> QED BY <2>2, <2>3
<1>17. /\ Storing("renew")' <=> stage = "access"
       /\ ~At("renew", "serving")' /\ ~At("renew", "asking")' /\ ~Storing("renew")
  BY <1>2, <1>11, <1>12 DEF Storing, At, Idle
<1>18. HeldIsHeard' /\ ServedIsAlive'
  BY <1>2, <1>9, <1>10, <1>11, <1>17 DEF IInv, HeldIsHeard, Heard, ServedIsAlive
<1>19. RenewalIsIssued'
  BY <1>7, <1>8, <1>9, <1>11, <1>12, <1>17 DEF RenewalIsIssued
<1>20. PairsAreNew'
  <2> SUFFICES ASSUME NEW j \in {"login", "account"}, ~Idle(j)', job'[j].token # None
               PROVE  PairIsNew(j)'
    BY DEF PairsAreNew, PairIsNew
  <2>1. j \in Jobs /\ j # "renew" /\ job'[j] = job[j] /\ PairIsNew(j) /\ ~Idle(j)
    BY <1>12, FiveJobs DEF IInv, PairsAreNew, Idle
  <2>2. job[j].token \in Issued /\ job[j].token # t /\ job[j].token # n
    BY <1>1, <1>2, <1>5, <2>1, FiveJobs DEF PairIsNew, At, Idle
  <2>3. \A k \in Jobs \ {j} : ~Idle(k)' => job'[k].token # job[j].token
    <3> TAKE k \in Jobs \ {j}
    <3>1. CASE k = "renew"
      BY <1>11, <1>12, <2>1, <2>2, <3>1
    <3>2. CASE k # "renew"
      BY <1>12, <2>1, <3>2 DEF PairIsNew, Idle
    <3> QED BY <3>1, <3>2
  <2> QED BY <1>2, <1>9, <1>10, <2>1, <2>2, <2>3 DEF PairIsNew, Storing, At
<1>21. EndsClear'
  BY <1>9, <1>12, FiveJobs DEF IInv, EndsClear, Idle, Storing, At
<1> QED BY <1>13, <1>15, <1>16, <1>18, <1>19, <1>20, <1>21 DEF IInv

\* Revoking whole families keeps it so, as long as no other is forgotten to be overtaken.
LEMMA RevokedAsAWhole ==
  ASSUME IInv, NEW families, server' = Revoke(families), overtaken \ families \subseteq overtaken'
  PROVE  /\ Issued' = Issued /\ FamiliesAreIssued' /\ EndedAsAWhole'
         /\ \A t \in Issued :
              /\ server'[t].family = server[t].family /\ server'[t].rotated = server[t].rotated
              /\ server'[t].revoked <=> server[t].revoked \/ server[t].family \in families
<1>1. \A t \in Issued :
        /\ server'[t].family = server[t].family /\ server'[t].rotated = server[t].rotated
        /\ server'[t].revoked <=> server[t].revoked \/ server[t].family \in families
  BY RevokeMarks DEF IInv
<1>2. Issued' = Issued
  BY RevokeMarks DEF IInv, Issued
<1>3. FamiliesAreIssued'
  BY <1>1, <1>2 DEF IInv, FamiliesAreIssued
<1>4. EndedAsAWhole'
  <2> SUFFICES ASSUME NEW v \in Issued, NEW u \in Issued,
                      server[v].family = server[u].family, server'[u].revoked, ~server'[v].revoked
               PROVE  server[v].family \in overtaken'
    BY <1>1, <1>2 DEF EndedAsAWhole
  <2>1. server[v].family \notin families /\ ~server[v].revoked /\ server[u].revoked
    BY <1>1
  <2> QED BY <2>1 DEF IInv, EndedAsAWhole
<1> QED BY <1>1, <1>2, <1>3, <1>4

\* The server refuses what was exchanged, and ends its family, or what was revoked.
LEMMA RefuseExchangeKeeps == ASSUME IInv, RefuseExchange PROVE IInv'
<1>1. PICK t, f : t = job["renew"].token /\ f = server[t].family
  OBVIOUS
<1>2. At("renew", "asking") /\ UNCHANGED <<held, ui, call, ending, unheard>>
  BY DEF RefuseExchange
<1>3. /\ Issued' = Issued /\ FamiliesAreIssued' /\ EndedAsAWhole'
      /\ server' \in [Tokens -> Row \cup {None}] /\ overtaken' \subseteq Tokens
      /\ \A u \in Issued : server'[u].family = server[u].family /\ server'[u].rotated = server[u].rotated
  <2>1. CASE server' = Revoke({f}) /\ overtaken' = overtaken \ {f}
    BY <2>1, RevokeMarks, RevokedAsAWhole DEF IInv, TypeOK
  <2>2. CASE UNCHANGED <<server, overtaken>>
    BY <2>2, FamiliesStay DEF IInv, TypeOK
  <2> QED BY <1>1, <2>1, <2>2 DEF RefuseExchange
<1>4. PICK stage \in {"refused", "failed"} : Put("renew", stage, None)
  BY DEF RefuseExchange
<1>5. /\ job' \in [Jobs -> Job \cup {None}]
      /\ job'["renew"].at = stage /\ job'["renew"].token = None /\ ~Idle("renew")'
      /\ \A k \in Jobs \ {"renew"} : job'[k] = job[k]
  <2>1. TypeOK /\ "renew" \in Jobs /\ None \in Tokens \cup {None} /\ stage \in Stages
    BY FiveJobs DEF IInv, Stages
  <2> QED BY <1>4, <2>1, Jobbed
<1>6. TypeOK'
  BY <1>2, <1>3, <1>5 DEF IInv, TypeOK
<1>7. /\ ~Storing("renew") /\ ~Storing("renew")'
      /\ ~At("renew", "asking")' /\ ~At("renew", "serving")'
  BY <1>2, <1>4, <1>5 DEF At, Storing
<1>8. HeldIsHeard' /\ RenewalIsIssued' /\ ServedIsAlive'
  BY <1>2, <1>3, <1>5, <1>7 DEF IInv, HeldIsHeard, Heard, RenewalIsIssued, ServedIsAlive
<1>9. PairsAreNew'
  <2> SUFFICES ASSUME NEW j \in {"login", "account"} PROVE PairIsNew(j)'
    BY DEF PairsAreNew
  <2>1. j \in Jobs /\ j # "renew" /\ job'[j] = job[j] /\ PairIsNew(j)
    BY <1>5, FiveJobs DEF IInv, PairsAreNew
  <2> QED BY <1>2, <1>3, <1>5, <2>1 DEF PairIsNew, Idle, At, Storing
<1>10. EndsClear'
  BY <1>3, <1>5, FiveJobs DEF IInv, EndsClear, Idle, Storing, At
<1> QED BY <1>3, <1>6, <1>8, <1>9, <1>10 DEF IInv

\* The renewal does not come through.
LEMMA UnreachableKeeps == ASSUME IInv, Unreachable PROVE IInv'
<1>1. /\ At("renew", "asking") \/ At("renew", "serving")
      /\ Put("renew", "failed", None)
      /\ UNCHANGED <<server, held, ui, call, ending, overtaken, unheard>>
  BY DEF Unreachable
<1>2. /\ job' \in [Jobs -> Job \cup {None}]
      /\ job'["renew"].at = "failed" /\ job'["renew"].token = None /\ ~Idle("renew")'
      /\ \A k \in Jobs \ {"renew"} : job'[k] = job[k]
  <2>1. TypeOK /\ "renew" \in Jobs /\ None \in Tokens \cup {None} /\ "failed" \in Stages
    BY FiveJobs DEF IInv, Stages
  <2> QED BY <1>1, <2>1, Jobbed
<1>3. TypeOK'
  BY <1>1, <1>2 DEF IInv, TypeOK
<1>4. Issued' = Issued /\ FamiliesAreIssued' /\ EndedAsAWhole'
  BY <1>1, FamiliesStay
<1>5. /\ ~Storing("renew") /\ ~Storing("renew")'
      /\ ~At("renew", "asking")' /\ ~At("renew", "serving")'
  BY <1>1, <1>2 DEF At, Storing
<1>6. HeldIsHeard' /\ RenewalIsIssued' /\ ServedIsAlive'
  BY <1>1, <1>2, <1>4, <1>5 DEF IInv, HeldIsHeard, Heard, RenewalIsIssued, ServedIsAlive
<1>7. PairsAreNew'
  <2> SUFFICES ASSUME NEW j \in {"login", "account"} PROVE PairIsNew(j)'
    BY DEF PairsAreNew
  <2>1. j \in Jobs /\ j # "renew" /\ job'[j] = job[j] /\ PairIsNew(j)
    BY <1>2, FiveJobs DEF IInv, PairsAreNew
  <2> QED BY <1>1, <1>2, <1>4, <2>1 DEF PairIsNew, Idle, At, Storing
<1>8. EndsClear'
  BY <1>2, <1>4, FiveJobs DEF IInv, EndsClear, Idle, Storing, At
<1> QED BY <1>3, <1>4, <1>6, <1>7, <1>8 DEF IInv

\* The access token of an answer is stored.
LEMMA SetTokenKeeps == ASSUME IInv, NEW j \in Jobs, SetToken(j) PROVE IInv'
<1>1. PICK t : t = job[j].token
  OBVIOUS
<1>2. /\ At(j, "access") /\ held' = [held EXCEPT !.access = t] /\ Put(j, "refresh", t)
      /\ UNCHANGED <<server, ui, call, ending, overtaken, unheard>>
  BY <1>1 DEF SetToken
<1>3. t \in Tokens \cup {None}
  BY <1>1, <1>2 DEF At, IInv, TypeOK, Job
<1>4. /\ job' \in [Jobs -> Job \cup {None}]
      /\ job'[j].at = "refresh" /\ job'[j].token = t /\ ~Idle(j)'
      /\ \A k \in Jobs \ {j} : job'[k] = job[k]
  <2>1. TypeOK /\ "refresh" \in Stages
    BY DEF IInv, Stages
  <2> QED BY <1>2, <1>3, <2>1, Jobbed
<1>5. held'.refresh = held.refresh /\ held' \in [access : Tokens \cup {None}, refresh : Tokens \cup {None}]
  BY <1>2, <1>3 DEF IInv, TypeOK
<1>6. TypeOK'
  BY <1>2, <1>4, <1>5 DEF IInv, TypeOK
<1>7. Issued' = Issued /\ FamiliesAreIssued' /\ EndedAsAWhole'
  BY <1>2, FamiliesStay
<1>8. \A k \in Jobs : /\ Storing(k)' <=> Storing(k)
                      /\ At(k, "asking")' <=> At(k, "asking")
                      /\ At(k, "serving")' <=> At(k, "serving")
                      /\ Idle(k)' <=> Idle(k)
                      /\ job'[k].token = job[k].token \/ Idle(k)
  <2> TAKE k \in Jobs
  <2>1. CASE k = j
    BY <1>1, <1>2, <1>4, <2>1 DEF Storing, At, Idle
  <2>2. CASE k # j
    BY <1>4, <2>2 DEF Storing, At, Idle
  <2> QED BY <2>1, <2>2
<1>9. ServedIsAlive'
  <2>1. At("renew", "serving") => ~Idle("renew")
    BY DEF At, Idle
  <2> QED BY <1>2, <1>7, <1>8, <2>1, FiveJobs DEF IInv, ServedIsAlive
<1>10. HeldIsHeard'
  BY <1>2, <1>5, <1>7, <1>8, FiveJobs DEF IInv, HeldIsHeard, Heard
<1>11. RenewalIsIssued'
  <2>1. At("renew", "asking") \/ At("renew", "serving") \/ Storing("renew") => ~Idle("renew")
    BY DEF At, Idle, Storing
  <2> QED BY <1>2, <1>7, <1>8, <2>1, FiveJobs DEF IInv, RenewalIsIssued, Heard
<1>12. PairsAreNew'
  <2> SUFFICES ASSUME NEW i \in {"login", "account"}, ~Idle(i)', job'[i].token # None
               PROVE  PairIsNew(i)'
    BY DEF PairsAreNew, PairIsNew
  <2>1. i \in Jobs /\ PairIsNew(i) /\ ~Idle(i) /\ job'[i].token = job[i].token
    BY <1>8, FiveJobs DEF IInv, PairsAreNew
  <2>2. \A k \in Jobs \ {i} : ~Idle(k)' => job'[k].token # job[i].token
    BY <1>8, <2>1 DEF PairIsNew
  <2> QED BY <1>2, <1>5, <1>7, <1>8, <2>1, <2>2 DEF PairIsNew
<1>13. EndsClear'
  BY <1>7, <1>8, FiveJobs DEF IInv, EndsClear
<1> QED BY <1>6, <1>7, <1>9, <1>10, <1>11, <1>12, <1>13 DEF IInv

\* A job is over: the rest is as before.
LEMMA JobEnds ==
  ASSUME TypeOK, NEW j \in Jobs, job' = [job EXCEPT ![j] = None]
  PROVE  /\ job' \in [Jobs -> Job \cup {None}] /\ Idle(j)'
         /\ \A k \in Jobs \ {j} : job'[k] = job[k]
BY DEF TypeOK, Idle

\* The refresh token of an answer is stored, or the pair is cleared.
LEMMA SetRefreshTokenKeeps == ASSUME IInv, NEW j \in Jobs, SetRefreshToken(j) PROVE IInv'
<1>1. PICK t : t = job[j].token
  OBVIOUS
<1>2. /\ At(j, "refresh") /\ held' = [held EXCEPT !.refresh = t]
      /\ job' = [job EXCEPT ![j] = None] /\ ui' \in Shown(j) /\ call' = Released(j)
      /\ UNCHANGED <<server, ending, overtaken, unheard>>
  BY <1>1 DEF SetRefreshToken
<1>3. t \in Tokens \cup {None} /\ Storing(j) /\ ~Idle(j) /\ ~At(j, "asking")
  BY <1>1, <1>2 DEF At, Idle, Storing, IInv, TypeOK, Job
<1>4. /\ job' \in [Jobs -> Job \cup {None}] /\ Idle(j)'
      /\ \A k \in Jobs \ {j} : job'[k] = job[k]
  BY <1>2, JobEnds DEF IInv
<1>5. held'.refresh = t /\ held' \in [access : Tokens \cup {None}, refresh : Tokens \cup {None}]
  BY <1>2, <1>3 DEF IInv, TypeOK
<1>6. TypeOK'
  <2>1. ui' \in {"boot", "in", "out"}
    BY <1>2 DEF Shown, IInv, TypeOK
  <2>2. call' \in [Requests -> {"idle", "sent", "bare", "waiting", "losing"}]
    BY <1>2 DEF Released, IInv, TypeOK
  <2> QED BY <1>2, <1>4, <1>5, <2>1, <2>2 DEF IInv, TypeOK
<1>7. Issued' = Issued /\ FamiliesAreIssued' /\ EndedAsAWhole'
  BY <1>2, FamiliesStay
<1>8. t # None => t \in Issued /\ ~server[t].rotated
  <2>1. CASE j = "renew"
    BY <1>1, <1>3, <2>1 DEF IInv, RenewalIsIssued
  <2>2. CASE j \in {"login", "account"}
    BY <1>1, <1>3, <2>2 DEF IInv, PairsAreNew, PairIsNew
  <2>3. CASE j \in {"logout", "lost"}
    BY <1>1, <1>3, <2>3 DEF IInv, EndsClear
  <2> QED BY <2>1, <2>2, <2>3 DEF Jobs
<1>9. HeldIsHeard'
  BY <1>2, <1>5, <1>7, <1>8 DEF HeldIsHeard, Heard
<1>10. \A k \in Jobs : ~Idle(k)' => /\ k # j /\ ~Idle(k) /\ job'[k] = job[k]
  BY <1>4 DEF Idle
<1>11. RenewalIsIssued' /\ ServedIsAlive'
  BY <1>2, <1>7, <1>10, FiveJobs DEF IInv, RenewalIsIssued, ServedIsAlive, Heard, At, Idle, Storing
<1>12. PairsAreNew'
  <2> SUFFICES ASSUME NEW i \in {"login", "account"}, ~Idle(i)', job'[i].token # None
               PROVE  PairIsNew(i)'
    BY DEF PairsAreNew, PairIsNew
  <2>1. i \in Jobs /\ i # j /\ ~Idle(i) /\ job'[i] = job[i] /\ PairIsNew(i)
    BY <1>10, FiveJobs DEF IInv, PairsAreNew
  <2>2. job[i].token # t
    BY <1>1, <1>3, <2>1 DEF PairIsNew
  <2> QED BY <1>2, <1>5, <1>7, <1>10, <2>1, <2>2 DEF PairIsNew, Storing, At
<1>13. EndsClear'
  BY <1>7, <1>10, FiveJobs DEF IInv, EndsClear, Storing, At
<1> QED BY <1>6, <1>7, <1>9, <1>11, <1>12, <1>13 DEF IInv

\* A renewal that did not succeed ends the session.
LEMMA LoseSessionKeeps == ASSUME IInv, LoseSession PROVE IInv'
<1> DEFINE ending0 == [at |-> "refresh", token |-> None]
<1>1. /\ At("renew", "refused") \/ At("renew", "failed")
      /\ job' = [job EXCEPT !["renew"] = None, !["lost"] = ending0]
      /\ held' = [held EXCEPT !.access = None]
      /\ call' = Losing /\ UNCHANGED <<server, ui, ending, overtaken, unheard>>
  BY DEF LoseSession
<1>2. ending0 \in Job /\ ending0 # None /\ ending0.at = "refresh" /\ ending0.token = None
  <2>1. ending0 \in Job
    BY DEF Job, Stages
  <2> QED BY <2>1, NoneAssumption
<1> HIDE DEF ending0
<1>3. /\ job' \in [Jobs -> Job \cup {None}] /\ job'["renew"] = None /\ job'["lost"] = ending0
      /\ \A k \in Jobs \ {"renew", "lost"} : job'[k] = job[k]
  BY <1>1, <1>2, FiveJobs DEF IInv, TypeOK
<1>4. held'.refresh = held.refresh /\ held' \in [access : Tokens \cup {None}, refresh : Tokens \cup {None}]
  BY <1>1 DEF IInv, TypeOK
<1>5. TypeOK'
  BY <1>1, <1>3, <1>4 DEF Losing, IInv, TypeOK
<1>6. Issued' = Issued /\ FamiliesAreIssued' /\ EndedAsAWhole'
  BY <1>1, FamiliesStay
<1>7. /\ ~Storing("renew") /\ ~Storing("renew")'
      /\ ~At("renew", "asking")' /\ ~At("renew", "serving")'
  BY <1>1, <1>3 DEF Storing, At
<1>8. HeldIsHeard' /\ RenewalIsIssued' /\ ServedIsAlive'
  BY <1>1, <1>3, <1>4, <1>6, <1>7 DEF IInv, HeldIsHeard, Heard, RenewalIsIssued, ServedIsAlive, Idle
<1>9. PairsAreNew'
  <2> SUFFICES ASSUME NEW j \in {"login", "account"}, ~Idle(j)', job'[j].token # None
               PROVE  PairIsNew(j)'
    BY DEF PairsAreNew, PairIsNew
  <2>1. j \in Jobs \ {"renew", "lost"} /\ job'[j] = job[j] /\ PairIsNew(j) /\ ~Idle(j)
    BY <1>3, FiveJobs DEF IInv, PairsAreNew, Idle
  <2>2. \A k \in Jobs \ {j} : ~Idle(k)' => job'[k].token # job[j].token
    <3> TAKE k \in Jobs \ {j}
    <3>1. CASE k = "renew"
      BY <1>3, <3>1 DEF Idle
    <3>2. CASE k = "lost"
      BY <1>2, <1>3, <2>1, <3>2
    <3>3. CASE k \notin {"renew", "lost"}
      BY <1>3, <2>1, <3>3 DEF PairIsNew, Idle
    <3> QED BY <3>1, <3>2, <3>3
  <2>3. server' = server /\ held'.refresh = held.refresh /\ job[j].token # None
    BY <1>1, <1>4, <2>1
  <2>4. Storing(j)'
    BY <2>1, <2>3 DEF PairIsNew, Storing, At
  <2> QED BY <1>6, <2>1, <2>2, <2>3, <2>4 DEF PairIsNew
<1>10. EndsClear'
  BY <1>2, <1>3, <1>6, FiveJobs DEF IInv, EndsClear, Storing, At, Idle
<1> QED BY <1>5, <1>6, <1>8, <1>9, <1>10 DEF IInv

\* A job begins that will clear the pair, or that first presents the token held.
LEMMA EndBegins ==
  ASSUME IInv, NEW j \in {"logout", "account"}, NEW stage \in {"asking", "access", "refresh"},
         NEW t \in Tokens \cup {None}, Put(j, stage, t), TypeOK',
         stage = "asking" => j = "logout" /\ t = held.refresh /\ t # None,
         stage # "asking" => t = None,
         held'.refresh = held.refresh, UNCHANGED <<server, overtaken, unheard>>
  PROVE  IInv'
<1>1. /\ job'[j].at = stage /\ job'[j].token = t /\ ~Idle(j)'
      /\ \A k \in Jobs \ {j} : job'[k] = job[k]
  <2>1. TypeOK /\ j \in Jobs /\ stage \in Stages
    BY FiveJobs DEF IInv, Stages
  <2> QED BY <2>1, Jobbed
<1>2. Issued' = Issued /\ FamiliesAreIssued' /\ EndedAsAWhole'
  BY FamiliesStay
<1>3. job'["renew"] = job["renew"] /\ job'["lost"] = job["lost"] /\ job'["login"] = job["login"]
  BY <1>1, FiveJobs
<1>4. HeldIsHeard' /\ RenewalIsIssued' /\ ServedIsAlive'
  BY <1>2, <1>3 DEF IInv, HeldIsHeard, Heard, RenewalIsIssued, ServedIsAlive, Storing, At, Idle
<1>5. PairsAreNew'
  <2> SUFFICES ASSUME NEW i \in {"login", "account"}, ~Idle(i)', job'[i].token # None
               PROVE  PairIsNew(i)'
    BY DEF PairsAreNew, PairIsNew
  <2>1. i \in Jobs /\ i # j /\ job'[i] = job[i] /\ PairIsNew(i) /\ ~Idle(i)
    BY <1>1, FiveJobs DEF IInv, PairsAreNew, Idle
  <2>2. \A k \in Jobs \ {i} : ~Idle(k)' => job'[k].token # job[i].token
    <3> TAKE k \in Jobs \ {i}
    <3>1. CASE k = j
      BY <1>1, <2>1, <3>1 DEF PairIsNew
    <3>2. CASE k # j
      BY <1>1, <2>1, <3>2 DEF PairIsNew, Idle
    <3> QED BY <3>1, <3>2
  <2> QED BY <1>2, <2>1, <2>2 DEF PairIsNew, Storing, At
<1>6. EndsClear'
  <2>1. CASE j = "logout"
    <3>1. stage = "asking" => t \in Issued
      BY DEF IInv, HeldIsHeard
    <3> QED BY <1>1, <1>2, <1>3, <2>1, <3>1 DEF IInv, EndsClear, Storing, At, Idle
  <2>2. CASE j = "account"
    <3>1. job'["logout"] = job["logout"]
      BY <1>1, <2>2, FiveJobs
    <3> QED BY <1>2, <1>3, <3>1 DEF IInv, EndsClear, Storing, At, Idle
  <2> QED BY <2>1, <2>2
<1> QED BY <1>2, <1>4, <1>5, <1>6 DEF IInv

\* The app starts from the pair in storage.
LEMMA BootKeeps == ASSUME IInv, Boot PROVE IInv'
<1>1. UNCHANGED <<server, call, ending, overtaken, unheard>>
  BY DEF Boot
<1>2. held.refresh \in Tokens \cup {None}
  BY DEF IInv, TypeOK
<1>3. CASE ui' = "in" /\ UNCHANGED <<held, job>>
  BY <1>1, <1>3, PageKeeps DEF IInv, TypeOK
<1>4. CASE held.refresh # None /\ Renew /\ UNCHANGED <<held, ui>>
  <2>1. job' \in [Jobs -> Job \cup {None}]
    <3>1. CASE Idle("renew")
      <4>1. Put("renew", "asking", held.refresh) /\ "asking" \in Stages /\ "renew" \in Jobs
        BY <1>4, <3>1 DEF Renew, Stages, Jobs
      <4> QED BY <1>2, <4>1, Jobbed DEF IInv
    <3>2. CASE ~Idle("renew")
      BY <1>4, <3>2 DEF Renew, IInv, TypeOK
    <3> QED BY <3>1, <3>2
  <2>2. TypeOK'
    BY <1>1, <1>4, <2>1 DEF IInv, TypeOK
  <2> QED BY <1>1, <1>4, <2>2, RenewKeeps
<1>5. CASE Clear
  <2>1. ui' = "out" /\ held' = [held EXCEPT !.access = None] /\ Put("account", "refresh", None)
    BY <1>5 DEF Clear
  <2>2. job' \in [Jobs -> Job \cup {None}]
    <3>1. "account" \in Jobs /\ "refresh" \in Stages /\ None \in Tokens \cup {None}
      BY DEF Jobs, Stages
    <3> QED BY <2>1, <3>1, Jobbed DEF IInv
  <2>3. TypeOK' /\ held'.refresh = held.refresh
    BY <1>1, <2>1, <2>2 DEF IInv, TypeOK
  <2> QED BY <1>1, <2>1, <2>3, EndBegins
<1> QED BY <1>3, <1>4, <1>5 DEF Boot

\* A request meets a 401.
LEMMA UnauthorisedKeeps == ASSUME IInv, NEW r \in Requests, Unauthorised(r) PROVE IInv'
<1>1. /\ held.refresh # None /\ Renew /\ call' = [call EXCEPT ![r] = "waiting"]
      /\ UNCHANGED <<server, held, ui, ending, overtaken, unheard>>
  BY DEF Unauthorised
<1>2. held.refresh \in Tokens \cup {None}
  BY DEF IInv, TypeOK
<1>3. job' \in [Jobs -> Job \cup {None}]
  <2>1. CASE Idle("renew")
    <3>1. Put("renew", "asking", held.refresh) /\ "asking" \in Stages /\ "renew" \in Jobs
      BY <1>1, <2>1 DEF Renew, Stages, Jobs
    <3> QED BY <1>2, <3>1, Jobbed DEF IInv
  <2>2. CASE ~Idle("renew")
    BY <1>1, <2>2 DEF Renew, IInv, TypeOK
  <2> QED BY <2>1, <2>2
<1>4. TypeOK'
  BY <1>1, <1>3 DEF IInv, TypeOK
<1> QED BY <1>1, <1>4, RenewKeeps

\* The answer of a sign-in brings a family of its own.
LEMMA LoginKeeps == ASSUME IInv, Login PROVE IInv'
<1>1. PICK n : n = Fresh
  OBVIOUS
<1>2. /\ Idle("login") /\ Issued # Tokens /\ server' = Issue(server, n) /\ Put("login", "access", n)
      /\ UNCHANGED <<held, ui, call, ending, overtaken, unheard>>
  BY <1>1 DEF Login
<1>3. n \in Tokens /\ n \notin Issued
  BY <1>1, <1>2, FreshIsNew
<1>4. /\ server' \in [Tokens -> Row \cup {None}] /\ Issued' = Issued \cup {n}
      /\ server'[n] = [family |-> n, rotated |-> FALSE, revoked |-> FALSE]
      /\ \A t \in Issued : server'[t] = server[t]
  BY <1>1, <1>2, <1>3, IssueAdds DEF IInv
<1>5. server'[n].family = n /\ ~server'[n].rotated /\ ~server'[n].revoked
  BY <1>4
<1>6. /\ job' \in [Jobs -> Job \cup {None}]
      /\ job'["login"].at = "access" /\ job'["login"].token = n /\ ~Idle("login")'
      /\ \A k \in Jobs \ {"login"} : job'[k] = job[k]
  <2>1. TypeOK /\ "login" \in Jobs /\ n \in Tokens \cup {None} /\ "access" \in Stages
    BY <1>3, FiveJobs DEF IInv, Stages
  <2> QED BY <1>2, <2>1, Jobbed
<1>7. TypeOK'
  BY <1>2, <1>4, <1>6 DEF IInv, TypeOK
<1>8. FamiliesAreIssued'
  BY <1>2, <1>4, <1>5 DEF IInv, FamiliesAreIssued
<1>9. \A u \in Issued : server'[u] = server[u] /\ server'[u].family # n
  BY <1>3, <1>4 DEF IInv, FamiliesAreIssued
<1>10. EndedAsAWhole'
  <2> SUFFICES ASSUME NEW t \in Issued', NEW u \in Issued',
                      server'[t].family = server'[u].family, server'[u].revoked, ~server'[t].revoked
               PROVE  server'[t].family \in overtaken'
    BY DEF EndedAsAWhole
  <2>1. u # n /\ u \in Issued
    BY <1>4, <1>5
  <2>2. t # n /\ t \in Issued
    BY <1>4, <1>5, <1>9, <2>1
  <2> QED BY <1>2, <1>9, <2>1, <2>2 DEF IInv, EndedAsAWhole
<1>11. /\ job'["renew"] = job["renew"] /\ job'["logout"] = job["logout"]
       /\ job'["account"] = job["account"] /\ job'["lost"] = job["lost"]
  BY <1>6, FiveJobs
<1>12. ServedIsAlive'
  <2> SUFFICES ASSUME At("renew", "serving"), NEW u \in Issued',
                      server'[u].family = server'[job["renew"].token].family, server'[u].revoked
               PROVE  server'[u].family \in overtaken
    BY <1>2, <1>11 DEF ServedIsAlive, At
  <2>1. u \in Issued /\ job["renew"].token \in Issued
    BY <1>4, <1>5 DEF IInv, RenewalIsIssued
  <2> QED BY <1>9, <2>1 DEF IInv, ServedIsAlive
<1>13. HeldIsHeard' /\ RenewalIsIssued'
  BY <1>2, <1>4, <1>11 DEF IInv, HeldIsHeard, Heard, RenewalIsIssued, Storing, At, Idle
<1>14. n # None /\ n # held'.refresh
  BY <1>2, <1>3, NoneAssumption DEF IInv, HeldIsHeard
<1>15. \A k \in Jobs \ {"login"} : ~Idle(k)' => job'[k].token # n
  <2> SUFFICES ASSUME NEW k \in Jobs \ {"login"}, ~Idle(k) PROVE job[k].token # n
    BY <1>6 DEF Idle
  <2>1. CASE k = "renew"
    BY <1>3, <1>14, <2>1 DEF IInv, RenewalIsIssued
  <2>2. CASE k = "account"
    BY <1>3, <1>14, <2>2 DEF IInv, PairsAreNew, PairIsNew
  <2>3. CASE k \in {"logout", "lost"}
    BY <1>3, <1>14, <2>3 DEF IInv, EndsClear
  <2> QED BY <2>1, <2>2, <2>3 DEF Jobs
<1>16. PairIsNew("login")'
  <2>1. Storing("login")'
    BY <1>6 DEF Storing, At, Idle
  <2> QED BY <1>4, <1>5, <1>6, <1>14, <1>15, <2>1 DEF PairIsNew
<1>17. PairIsNew("account")'
  <2> SUFFICES ASSUME ~Idle("account")', job'["account"].token # None
               PROVE  PairIsNew("account")'
    BY DEF PairIsNew
  <2>1. ~Idle("account") /\ PairIsNew("account") /\ job["account"].token # None
    BY <1>11 DEF IInv, PairsAreNew, Idle
  <2>2. job["account"].token # n
    BY <1>3, <2>1 DEF PairIsNew
  <2>3. \A k \in Jobs \ {"account"} : ~Idle(k)' => job'[k].token # job["account"].token
    <3> TAKE k \in Jobs \ {"account"}
    <3>1. CASE k = "login"
      BY <1>6, <2>2, <3>1
    <3>2. CASE k # "login"
      BY <1>6, <2>1, <3>2 DEF PairIsNew, Idle
    <3> QED BY <3>1, <3>2
  <2>4. Storing("account")'
    BY <1>11, <2>1 DEF PairIsNew, Storing, At
  <2> QED BY <1>2, <1>4, <1>11, <2>1, <2>3, <2>4 DEF PairIsNew
<1>18. EndsClear'
  BY <1>4, <1>11 DEF IInv, EndsClear, Storing, At, Idle
<1> QED BY <1>7, <1>8, <1>10, <1>12, <1>13, <1>16, <1>17, <1>18 DEF IInv, PairsAreNew

\* The user signs out.
LEMMA LogoutKeeps == ASSUME IInv, Logout PROVE IInv'
<1>1. PICK stage \in {"asking", "access"}, t \in Tokens \cup {None} :
        /\ Put("logout", stage, t) /\ t = held.refresh
        /\ stage = "asking" <=> t # None
  BY DEF Logout, IInv, TypeOK
<1>2. UNCHANGED <<server, held, ui, call, ending, overtaken, unheard>>
  BY DEF Logout
<1>3. TypeOK'
  <2>1. TypeOK /\ "logout" \in Jobs /\ stage \in Stages
    BY FiveJobs DEF IInv, Stages
  <2>2. job' \in [Jobs -> Job \cup {None}]
    BY <1>1, <2>1, Jobbed
  <2> QED BY <1>2, <2>1, <2>2 DEF TypeOK
<1> QED BY <1>1, <1>2, <1>3, EndBegins

\* The server ends families, of which a renewal may be under way; whoever asked for it
\* clears the pair next.
LEMMA EndKeeps ==
  ASSUME IInv, NEW families, End(families), server' = Revoke(families), TypeOK',
         UNCHANGED <<held, unheard>>,
         NEW j \in {"logout", "account"}, \A k \in Jobs \ {j} : job'[k] = job[k],
         job'[j] = job[j] \/ (Storing(j)' /\ job'[j].token = None)
  PROVE  IInv'
<1>1. overtaken' = (overtaken \ families) \cup (families \cap BeingServed)
  BY DEF End
<1>2. overtaken \ families \subseteq overtaken'
  BY <1>1
<1>3. /\ Issued' = Issued /\ FamiliesAreIssued' /\ EndedAsAWhole'
      /\ \A t \in Issued :
           /\ server'[t].family = server[t].family /\ server'[t].rotated = server[t].rotated
           /\ server'[t].revoked <=> server[t].revoked \/ server[t].family \in families
  BY <1>2, RevokedAsAWhole
<1>4. job'["renew"] = job["renew"] /\ job'["lost"] = job["lost"] /\ job'["login"] = job["login"]
  BY FiveJobs
<1>5. ServedIsAlive'
  <2> SUFFICES ASSUME At("renew", "serving"), NEW u \in Issued,
                      server[u].family = server[job["renew"].token].family, server'[u].revoked
               PROVE  server[u].family \in overtaken'
    <3>1. At("renew", "serving") => job["renew"].token \in Issued
      BY DEF IInv, RenewalIsIssued
    <3> QED BY <1>3, <1>4, <3>1 DEF ServedIsAlive, At
  <2>1. server[u].family \in BeingServed
    BY DEF BeingServed, IInv, RenewalIsIssued
  <2>2. CASE server[u].family \in families
    BY <1>1, <2>1, <2>2
  <2>3. CASE server[u].family \notin families
    BY <1>2, <1>3, <2>3 DEF IInv, ServedIsAlive
  <2> QED BY <2>2, <2>3
<1>6. HeldIsHeard' /\ RenewalIsIssued'
  BY <1>3, <1>4 DEF IInv, HeldIsHeard, Heard, RenewalIsIssued, Storing, At, Idle
<1>7. PairsAreNew'
  <2> SUFFICES ASSUME NEW i \in {"login", "account"}, ~Idle(i)', job'[i].token # None
               PROVE  PairIsNew(i)'
    BY DEF PairsAreNew, PairIsNew
  <2>1. i \in Jobs /\ job'[i] = job[i]
    BY FiveJobs
  <2>2. PairIsNew(i) /\ ~Idle(i) /\ job[i].token # None
    BY <2>1 DEF IInv, PairsAreNew, Idle
  <2>3. \A k \in Jobs \ {i} : ~Idle(k)' => job'[k].token # job[i].token
    BY <2>1, <2>2 DEF PairIsNew, Idle
  <2>4. Storing(i)'
    BY <2>1, <2>2 DEF PairIsNew, Storing, At
  <2> QED BY <1>3, <2>1, <2>2, <2>3, <2>4 DEF PairIsNew
<1>8. EndsClear'
  <2>1. CASE j = "logout"
    BY <1>3, <1>4, <2>1 DEF IInv, EndsClear, Storing, At, Idle
  <2>2. CASE j = "account"
    <3>1. job'["logout"] = job["logout"]
      BY <2>2, FiveJobs
    <3> QED BY <1>3, <1>4, <3>1 DEF IInv, EndsClear, Storing, At, Idle
  <2> QED BY <2>1, <2>2
<1> QED BY <1>3, <1>5, <1>6, <1>7, <1>8 DEF IInv

\* What the UPDATE leaves is of its type.
LEMMA EndTyped ==
  ASSUME TypeOK, NEW families, End(families), families \subseteq Tokens
  PROVE  ending' \subseteq Tokens /\ overtaken' \subseteq Tokens
BY DEF End, TypeOK, Issued

\* The sign-out has told the server, or failed to, and clears the pair next.
LEMMA TellKeeps == ASSUME IInv, Tell PROVE IInv'
<1>1. PICK t, f : t = job["logout"].token /\ f = server[t].family
  OBVIOUS
<1>2. At("logout", "asking") /\ Put("logout", "access", None) /\ UNCHANGED <<held, ui, call, unheard>>
  BY DEF Tell
<1>3. f \in Tokens
  <2>1. t \in Issued
    BY <1>1, <1>2 DEF IInv, EndsClear, Storing, At, Idle
  <2> QED BY <1>1, <2>1, Rows DEF IInv, FamiliesAreIssued
<1>4. /\ job' \in [Jobs -> Job \cup {None}]
      /\ job'["logout"].at = "access" /\ job'["logout"].token = None /\ ~Idle("logout")'
      /\ \A k \in Jobs \ {"logout"} : job'[k] = job[k]
  <2>1. TypeOK /\ "logout" \in Jobs /\ "access" \in Stages /\ None \in Tokens \cup {None}
    BY FiveJobs DEF IInv, Stages
  <2> QED BY <1>2, <2>1, Jobbed
<1>5. CASE End({f}) /\ server' = Revoke({f})
  <2>1. TypeOK'
    <3>1. server' \in [Tokens -> Row \cup {None}]
      BY <1>5, RevokeMarks DEF IInv
    <3>2. ending' \subseteq Tokens /\ overtaken' \subseteq Tokens
      BY <1>3, <1>5, EndTyped DEF IInv
    <3> QED BY <1>2, <1>4, <3>1, <3>2 DEF IInv, TypeOK
  <2>2. Storing("logout")'
    BY <1>4 DEF Storing, At, Idle
  <2> QED BY <1>2, <1>4, <1>5, <2>1, <2>2, EndKeeps
<1>6. CASE UNCHANGED <<server, ending, overtaken>>
  <2>1. TypeOK'
    BY <1>2, <1>4, <1>6 DEF IInv, TypeOK
  <2> QED BY <1>2, <1>6, <2>1, EndBegins
<1> QED BY <1>1, <1>5, <1>6 DEF Tell

\* A family is revoked from elsewhere.
LEMMA RevokedElsewhereKeeps == ASSUME IInv, NEW t \in Tokens, RevokedElsewhere(t) PROVE IInv'
<1>1. End({t}) /\ server' = Revoke({t}) /\ UNCHANGED <<held, ui, call, job, unheard>>
  BY DEF RevokedElsewhere
<1>2. TypeOK'
  <2>1. server' \in [Tokens -> Row \cup {None}]
    BY <1>1, RevokeMarks DEF IInv
  <2>2. ending' \subseteq Tokens /\ overtaken' \subseteq Tokens
    BY <1>1, EndTyped DEF IInv
  <2> QED BY <1>1, <2>1, <2>2 DEF IInv, TypeOK
<1>3. \A k \in Jobs : job'[k] = job[k]
  BY <1>1
<1>4. "logout" \in {"logout", "account"} /\ job'["logout"] = job["logout"]
  BY <1>1
<1> QED BY <1>1, <1>2, <1>3, <1>4, EndKeeps

\* A request signs the account out everywhere; its answer may be lost.
LEMMA LogoutEverywhereKeeps ==
  ASSUME IInv, NEW r \in Requests, LogoutEverywhere(r) PROVE IInv'
<1>1. /\ End(Issued) /\ server' = Revoke(Issued) /\ call' = [call EXCEPT ![r] = "idle"]
      /\ UNCHANGED <<held, ui, unheard>>
  BY DEF LogoutEverywhere
<1>2. /\ job' \in [Jobs -> Job \cup {None}] /\ \A k \in Jobs \ {"account"} : job'[k] = job[k]
      /\ job'["account"] = job["account"] \/ (Storing("account")' /\ job'["account"].token = None)
  <2>1. CASE job' = job
    BY <2>1 DEF IInv, TypeOK
  <2>2. CASE Put("account", "access", None)
    <3>1. TypeOK /\ "account" \in Jobs /\ "access" \in Stages /\ None \in Tokens \cup {None}
      BY FiveJobs DEF IInv, Stages
    <3>2. /\ job' \in [Jobs -> Job \cup {None}]
          /\ job'["account"].at = "access" /\ job'["account"].token = None /\ ~Idle("account")'
          /\ \A k \in Jobs \ {"account"} : job'[k] = job[k]
      BY <2>2, <3>1, Jobbed
    <3> QED BY <3>2 DEF Storing, At, Idle
  <2> QED BY <2>1, <2>2 DEF LogoutEverywhere
<1>3. TypeOK'
  <2>1. server' \in [Tokens -> Row \cup {None}]
    BY <1>1, RevokeMarks DEF IInv
  <2>2. ending' \subseteq Tokens /\ overtaken' \subseteq Tokens
    BY <1>1, EndTyped, Rows DEF IInv
  <2> QED BY <1>1, <1>2, <2>1, <2>2 DEF IInv, TypeOK
<1> QED BY <1>1, <1>2, <1>3, EndKeeps

\* A request changes the password: every family ends and a new one opens.
LEMMA ChangePasswordKeeps ==
  ASSUME IInv, NEW r \in Requests, ChangePassword(r) PROVE IInv'
<1>1. PICK n : n = Fresh
  OBVIOUS
<1> DEFINE rows == Revoke(Issued)
           row == [family |-> n, rotated |-> FALSE, revoked |-> FALSE]
<1>2. /\ Idle("account") /\ Issued # Tokens /\ End(Issued)
      /\ server' = [rows EXCEPT ![n] = row]
      /\ call' = [call EXCEPT ![r] = "idle"] /\ UNCHANGED <<held, ui, unheard>>
      /\ job' = job \/ Put("account", "access", n)
  BY <1>1 DEF ChangePassword, Issue, NewRow
<1>3. n \in Tokens /\ n \notin Issued /\ Issued \subseteq Tokens /\ None \notin Issued
  BY <1>1, <1>2, FreshIsNew, Rows DEF IInv
<1>4. row \in Row /\ row # None
  <2>1. row \in Row
    BY <1>3 DEF Row
  <2> QED BY <2>1, NoneAssumption
<1>5. row.family = n /\ ~row.rotated /\ ~row.revoked
  OBVIOUS
<1>6. /\ rows \in [Tokens -> Row \cup {None}]
      /\ \A t \in Tokens : rows[t] # None <=> t \in Issued
      /\ \A t \in Issued : /\ rows[t].family = server[t].family
                           /\ rows[t].rotated = server[t].rotated
                           /\ rows[t].revoked
  BY RevokeMarks DEF IInv, FamiliesAreIssued
<1> HIDE DEF rows, row
<1>7. /\ server' \in [Tokens -> Row \cup {None}] /\ server'[n] = row
      /\ \A t \in Tokens \ {n} : server'[t] = rows[t]
  BY <1>2, <1>3, <1>4, <1>6
<1>8. Issued' = Issued \cup {n}
  BY <1>3, <1>4, <1>6, <1>7 DEF Issued
<1>9. /\ server'[n].family = n /\ ~server'[n].rotated /\ ~server'[n].revoked
      /\ \A t \in Issued : /\ server'[t].family = server[t].family /\ server[t].family \in Issued
                           /\ server'[t].rotated = server[t].rotated /\ server'[t].revoked
  BY <1>3, <1>5, <1>6, <1>7 DEF IInv, FamiliesAreIssued
<1>10. /\ job' \in [Jobs -> Job \cup {None}] /\ \A k \in Jobs \ {"account"} : job'[k] = job[k]
       /\ ~Idle("account")' => Storing("account")' /\ job'["account"].token = n
  <2>1. CASE job' = job
    BY <1>2, <2>1 DEF IInv, TypeOK, Idle
  <2>2. CASE Put("account", "access", n)
    <3>1. TypeOK /\ "account" \in Jobs /\ "access" \in Stages /\ n \in Tokens \cup {None}
      BY <1>3, FiveJobs DEF IInv, Stages
    <3>2. /\ job' \in [Jobs -> Job \cup {None}]
          /\ job'["account"].at = "access" /\ job'["account"].token = n /\ ~Idle("account")'
          /\ \A k \in Jobs \ {"account"} : job'[k] = job[k]
      BY <2>2, <3>1, Jobbed
    <3> QED BY <3>2 DEF Storing, At, Idle
  <2> QED BY <1>2, <2>1, <2>2
<1>11. TypeOK'
  <2>1. ending' \subseteq Tokens /\ overtaken' \subseteq Tokens
    BY <1>2, <1>3, EndTyped DEF IInv
  <2> QED BY <1>2, <1>7, <1>10, <2>1 DEF IInv, TypeOK
<1>12. FamiliesAreIssued'
  BY <1>8, <1>9 DEF FamiliesAreIssued
<1>13. EndedAsAWhole'
  <2> SUFFICES ASSUME NEW t \in Issued', NEW u \in Issued',
                      server'[t].family = server'[u].family, server'[u].revoked, ~server'[t].revoked
               PROVE  FALSE
    BY DEF EndedAsAWhole
  <2>1. t = n /\ u \in Issued
    BY <1>8, <1>9
  <2> QED BY <1>3, <1>9, <2>1
<1>14. /\ job'["renew"] = job["renew"] /\ job'["logout"] = job["logout"]
       /\ job'["login"] = job["login"] /\ job'["lost"] = job["lost"]
  BY <1>10, FiveJobs
<1>15. ServedIsAlive'
  <2> SUFFICES ASSUME At("renew", "serving"), NEW u \in Issued',
                      server'[u].family = server'[job["renew"].token].family
               PROVE  server'[u].family \in overtaken'
    BY <1>14 DEF ServedIsAlive, At
  <2>1. job["renew"].token \in Issued
    BY DEF IInv, RenewalIsIssued
  <2>2. server[job["renew"].token].family \in BeingServed
    BY <2>1 DEF BeingServed
  <2> QED BY <1>2, <1>9, <2>1, <2>2 DEF End
<1>16. HeldIsHeard' /\ RenewalIsIssued'
  BY <1>2, <1>8, <1>9, <1>14 DEF IInv, HeldIsHeard, Heard, RenewalIsIssued, Storing, At, Idle
<1>17. n # None /\ n # held'.refresh
  BY <1>2, <1>3, NoneAssumption DEF IInv, HeldIsHeard
<1>18. \A k \in Jobs \ {"account"} : ~Idle(k)' => job'[k].token # n
  <2> SUFFICES ASSUME NEW k \in Jobs \ {"account"}, ~Idle(k) PROVE job[k].token # n
    BY <1>10 DEF Idle
  <2>1. CASE k = "renew"
    BY <1>3, <1>17, <2>1 DEF IInv, RenewalIsIssued
  <2>2. CASE k = "login"
    BY <1>3, <1>17, <2>2 DEF IInv, PairsAreNew, PairIsNew
  <2>3. CASE k \in {"logout", "lost"}
    BY <1>3, <1>17, <2>3 DEF IInv, EndsClear
  <2> QED BY <2>1, <2>2, <2>3 DEF Jobs
<1>19. PairIsNew("account")'
  BY <1>8, <1>9, <1>10, <1>17, <1>18 DEF PairIsNew
<1>20. PairIsNew("login")'
  <2> SUFFICES ASSUME ~Idle("login")', job'["login"].token # None
               PROVE  PairIsNew("login")'
    BY DEF PairIsNew
  <2>1. ~Idle("login") /\ PairIsNew("login") /\ job["login"].token # None
    BY <1>14 DEF IInv, PairsAreNew, Idle
  <2>2. job["login"].token # n
    BY <1>3, <2>1 DEF PairIsNew
  <2>3. \A k \in Jobs \ {"login"} : ~Idle(k)' => job'[k].token # job["login"].token
    <3> TAKE k \in Jobs \ {"login"}
    <3>1. CASE k = "account"
      BY <1>10, <2>2, <3>1
    <3>2. CASE k # "account"
      BY <1>10, <2>1, <3>2 DEF PairIsNew, Idle
    <3> QED BY <3>1, <3>2
  <2>4. Storing("login")'
    BY <1>14, <2>1 DEF PairIsNew, Storing, At
  <2> QED BY <1>2, <1>8, <1>9, <1>14, <2>1, <2>3, <2>4 DEF PairIsNew
<1>21. EndsClear'
  BY <1>8, <1>14 DEF IInv, EndsClear, Storing, At, Idle
<1> QED BY <1>11, <1>12, <1>13, <1>15, <1>16, <1>19, <1>20, <1>21 DEF IInv, PairsAreNew

\* The app is closed: a renewal under way may have lost the answer it would store.
LEMMA KillKeeps == ASSUME IInv, Kill PROVE IInv'
<1>1. /\ job' = [j \in Jobs |-> None]
      /\ unheard' = unheard \cup {t \in Issued : ~Idle("renew") /\ t = held.refresh /\ server[t].rotated}
      /\ UNCHANGED <<server, held, ending, overtaken>>
      /\ ui' = "boot" /\ call' = [r \in Requests |-> "idle"]
  BY DEF Kill
<1>2. TypeOK'
  BY <1>1 DEF IInv, TypeOK, Issued
<1>3. \A j \in Jobs : Idle(j)' /\ \A stage \in Stages : ~At(j, stage)'
  BY <1>1 DEF Idle, At
<1>4. Issued' = Issued /\ FamiliesAreIssued' /\ EndedAsAWhole'
  BY <1>1, FamiliesStay
<1>5. HeldIsHeard'
  <2>1. Storing("renew") => ~Idle("renew")
    BY DEF Storing, At, Idle
  <2> QED BY <1>1, <1>4, <2>1 DEF IInv, HeldIsHeard, Heard
<1>6. ServedIsAlive' /\ RenewalIsIssued' /\ PairsAreNew' /\ EndsClear'
  BY <1>3, FiveJobs DEF ServedIsAlive, RenewalIsIssued, PairsAreNew, PairIsNew, EndsClear, Storing, Stages
<1> QED BY <1>2, <1>4, <1>5, <1>6 DEF IInv

\* Every step keeps the invariant.
LEMMA NextKeeps == ASSUME IInv, [Next]_vars PROVE IInv'
<1>1. CASE \E j \in Jobs : SetToken(j) \/ SetRefreshToken(j)
  BY <1>1, SetTokenKeeps, SetRefreshTokenKeeps
<1>2. CASE \E r \in Requests : Send(r) \/ Answered(r)
  <2>1. PICK r \in Requests : Send(r) \/ Answered(r)
    BY <1>2
  <2>2. UNCHANGED <<server, held, ui, job, ending, overtaken, unheard>>
    BY <2>1 DEF Send, Answered
  <2>3. call' \in [Requests -> {"idle", "sent", "bare", "waiting", "losing"}]
    BY <2>1 DEF Send, Answered, IInv, TypeOK
  <2>4. TypeOK'
    BY <2>2, <2>3 DEF IInv, TypeOK
  <2> QED BY <2>2, <2>4, PageKeeps
<1>3. CASE \E r \in Requests : Unauthorised(r) \/ LogoutEverywhere(r) \/ ChangePassword(r)
  BY <1>3, UnauthorisedKeeps, LogoutEverywhereKeeps, ChangePasswordKeeps
<1>4. CASE Commit
  <2>1. UNCHANGED <<server, held, ui, call, job, overtaken, unheard>> /\ ending' = {}
    BY <1>4 DEF Commit
  <2>2. TypeOK'
    BY <2>1 DEF IInv, TypeOK
  <2> QED BY <2>1, <2>2, PageKeeps
<1>5. CASE \E t \in Tokens : RevokedElsewhere(t)
  BY <1>5, RevokedElsewhereKeeps
<1>6. CASE UNCHANGED vars
  <2>1. TypeOK'
    BY <1>6 DEF vars, IInv, TypeOK
  <2> QED BY <1>6, <2>1, PageKeeps DEF vars
<1>7. CASE Serve \/ Exchange \/ RefuseExchange \/ Unreachable \/ LoseSession \/ Boot
  BY <1>7, ServeKeeps, ExchangeKeeps, RefuseExchangeKeeps, UnreachableKeeps, LoseSessionKeeps, BootKeeps
<1>8. CASE Login \/ Logout \/ Tell \/ Kill
  BY <1>8, LoginKeeps, LogoutKeeps, TellKeeps, KillKeeps
<1> QED BY <1>1, <1>2, <1>3, <1>4, <1>5, <1>6, <1>7, <1>8 DEF Next

-----------------------------------------------------------------------------
(* The theorems *)

\* The invariant holds in every state of every run of the app.
THEOREM SessionInductive == Spec => []IInv
<1>1. IInv /\ [Next]_vars => IInv'
  BY NextKeeps
<1> QED BY Initially, <1>1, PTL DEF Spec

\* Every variable keeps its type.
THEOREM SessionTyped == Spec => []TypeOK
<1>1. IInv => TypeOK
  BY DEF IInv
<1> QED BY SessionInductive, <1>1, PTL

\* However many requests meet an expired token at once, and whatever signs in or out
\* meanwhile, the app presents a token twice only after losing the answer of the first
\* exchange (renewSession's single flight).
THEOREM ReplayNeedsALostAnswerAlways == Spec => []ReplayNeedsALostAnswer
<1>1. IInv => ReplayNeedsALostAnswer
  BY DEF IInv, RenewalIsIssued, Heard, ReplayNeedsALostAnswer
<1> QED BY SessionInductive, <1>1, PTL

\* What the device holds of a session the server has ended opens nothing, even when a
\* renewal answered late has put it there (logout, setSession); a session of which a
\* renewal was under way at the server while it was being ended is left out, for the
\* UPDATE of revokeFamily cannot see the successor it inserts.
THEOREM SignedOutCannotRenewAlways == Spec => []SignedOutCannotRenew
<1>1. IInv => SignedOutCannotRenew
  BY DEF IInv, HeldIsHeard, EndedAsAWhole, Ended, SignedOutCannotRenew
<1> QED BY SessionInductive, <1>1, PTL

=============================================================================
