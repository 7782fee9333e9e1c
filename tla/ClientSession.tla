---------------------------- MODULE ClientSession ----------------------------
(***************************************************************************)
(* One running copy of the app and its session: the pair of tokens it      *)
(* keeps, the requests that use it, the renewal they share, signing in and *)
(* out, changing the password.  JavaScript runs one step at a time; what   *)
(* can come between is at each await.  On the server a renewal reads its   *)
(* token and later exchanges it; an UPDATE that revokes tokens revokes the *)
(* ones committed at its snapshot, and commits later: a renewal can be     *)
(* under way meanwhile.  One account per device.                           *)
(***************************************************************************)
CONSTANTS
  Requests,   \* requests a page has in flight
  Tokens,     \* bound: the pairs the server may issue; a family's first names it
  None        \* no token, no job

VARIABLES
  server,     \* row of each refresh token issued: its family and its marks
  held,       \* the pair in storage, and in memory while the app runs
  ui,         \* the screen
  call,       \* each request: idle, sent, without an access token, or waiting
  job,        \* what is awaited: each job's stage and the token it carries
  ending,     \* tokens that were alive and whose revocation is not committed yet
  overtaken,  \* families a renewal was under way of while they were being revoked
  unheard     \* tokens exchanged by a renewal of which the app kept no successor

vars == <<server, held, ui, call, job, ending, overtaken, unheard>>

Row == [family : Tokens, rotated : BOOLEAN, revoked : BOOLEAN]
Jobs == {"renew", "login", "account", "logout", "lost"}
Stages == {"asking", "serving", "refused", "failed", "access", "refresh"}
Job == [at : Stages, token : Tokens \cup {None}]

ASSUME NoneAssumption == None \notin Tokens \cup Row \cup Job

Issued == {t \in Tokens : server[t] # None}
Fresh == CHOOSE t \in Tokens : t \notin Issued

Idle(j) == job[j] = None
At(j, stage) == job[j] # None /\ job[j].at = stage
Put(j, stage, t) == job' = [job EXCEPT ![j] = [at |-> stage, token |-> t]]

Init ==
  /\ server = [t \in Tokens |-> None]
  /\ held = [access |-> None, refresh |-> None]
  /\ ui = "boot"
  /\ call = [r \in Requests |-> "idle"]
  /\ job = [j \in Jobs |-> None]
  /\ ending = {}
  /\ overtaken = {}
  /\ unheard = {}

-----------------------------------------------------------------------------
(* The server *)

NewRow(f) == [family |-> f, rotated |-> FALSE, revoked |-> FALSE]
Issue(rows, f) == [rows EXCEPT ![Fresh] = NewRow(f)]
Revoke(families) ==
  [t \in Tokens |-> IF t \in Issued /\ server[t].family \in families
                      THEN [server[t] EXCEPT !.revoked = TRUE] ELSE server[t]]

\* The family of the token a renewal has read, and not exchanged yet.
BeingServed ==
  {server[t].family : t \in {u \in Issued : At("renew", "serving") /\ job["renew"].token = u}}

\* revokeFamily, revokeAllForProfile: the UPDATE.  Bound: one at a time.
End(families) ==
  /\ ending = {}
  /\ ending' = {t \in Issued : server[t].family \in families /\ ~server[t].rotated /\ ~server[t].revoked}
  /\ overtaken' = (overtaken \ families) \cup (families \cap BeingServed)

\* Its commit; the answer to whoever asked for it comes after.
Commit ==
  /\ ending # {} /\ ending' = {}
  /\ UNCHANGED <<server, held, ui, call, job, overtaken, unheard>>

\* POST /auth/refresh reads the token: it is alive, or its end is not committed yet.
Serve ==
  LET t == job["renew"].token IN
  /\ At("renew", "asking") /\ ~server[t].rotated /\ (server[t].revoked => t \in ending)
  /\ Put("renew", "serving", t)
  /\ overtaken' = IF t \in ending THEN overtaken \cup {server[t].family} ELSE overtaken
  /\ UNCHANGED <<server, held, ui, call, ending, unheard>>

\* The exchange asks again whether the token was exchanged, not whether it was revoked;
\* its answer arrives, or is lost.
Exchange ==
  LET t == job["renew"].token IN
  /\ At("renew", "serving") /\ ~server[t].rotated /\ Issued # Tokens
  /\ server' = Issue([server EXCEPT ![t].rotated = TRUE], server[t].family)
  /\ \/ Put("renew", "access", Fresh) /\ unheard' = unheard
     \/ Put("renew", "failed", None) /\ unheard' = unheard \cup {t}
  /\ UNCHANGED <<held, ui, call, ending, overtaken>>

\* A token exchanged before ends its family; a revoked one is refused.
RefuseExchange ==
  LET t == job["renew"].token
      f == server[t].family IN
  /\ At("renew", "asking")
  /\ \/ server[t].rotated /\ server' = Revoke({f}) /\ overtaken' = overtaken \ {f}
     \/ ~server[t].rotated /\ server[t].revoked /\ UNCHANGED <<server, overtaken>>
  /\ \E answer \in {"refused", "failed"} : Put("renew", answer, None)
  /\ UNCHANGED <<held, ui, call, ending, unheard>>

\* The request never arrives, or meets a server that is failing.  One refused while it is
\* served (its account is inactive, a renewal left by an app killed since was faster) is
\* to the app the same, its family revoked from elsewhere.
Unreachable ==
  /\ At("renew", "asking") \/ At("renew", "serving")
  /\ Put("renew", "failed", None)
  /\ UNCHANGED <<server, held, ui, call, ending, overtaken, unheard>>

\* A family is ended from elsewhere: a password reset, a sign-out heard after its app.
RevokedElsewhere(t) ==
  /\ t \in Issued /\ t = server[t].family
  /\ End({t}) /\ server' = Revoke({t})
  /\ UNCHANGED <<held, ui, call, job, unheard>>

-----------------------------------------------------------------------------
(* Keeping the pair: setSession is setToken, an await, then setRefreshToken *)

SetToken(j) ==
  /\ At(j, "access") /\ (j \in {"logout", "account"} => ending = {})   \* their answer follows the commit
  /\ held' = [held EXCEPT !.access = job[j].token]
  /\ Put(j, "refresh", job[j].token)
  /\ UNCHANGED <<server, ui, call, ending, overtaken, unheard>>

\* Once the renewal is over its callers send again; once the session is lost theirs fail.
Released(j) ==
  [r \in Requests |-> IF \/ j = "renew" /\ call[r] = "waiting"
                         \/ j = "lost" /\ call[r] = "losing" THEN "idle" ELSE call[r]]
\* Signing in ends on the first screen, unless /auth/me then fails.
Shown(j) == IF j \in {"logout", "lost"} THEN {"out"} ELSE IF j = "login" THEN {"in", "out"} ELSE {ui}

\* Mutant: a renewal stores the access token alone.
SetRefreshTokenAtLogin(j) ==
  /\ At(j, "refresh")
  /\ held' = IF j = "renew" THEN held ELSE [held EXCEPT !.refresh = job[j].token]
  /\ job' = [job EXCEPT ![j] = None]
  /\ ui' \in Shown(j) /\ call' = Released(j)
  /\ UNCHANGED <<server, ending, overtaken, unheard>>

SetRefreshToken(j) ==
  /\ At(j, "refresh")
  /\ held' = [held EXCEPT !.refresh = job[j].token]
  /\ job' = [job EXCEPT ![j] = None]
  /\ ui' \in Shown(j) /\ call' = Released(j)
  /\ UNCHANGED <<server, ending, overtaken, unheard>>

-----------------------------------------------------------------------------
(* Using it *)

\* renewSession: everyone who needs a renewal shares the one in flight.
Renew == IF Idle("renew") THEN Put("renew", "asking", held.refresh) ELSE job' = job

\* clear: the screen goes back to signing in at once, while the pair is being cleared.
Clear ==
  /\ ui' = "out"
  /\ held' = [held EXCEPT !.access = None] /\ Put("account", "refresh", None)

\* loadToken at launch: an expired access token is renewed before giving up, and
\* whatever keeps /auth/me from answering ends the session.
Boot ==
  /\ ui = "boot" /\ \A j \in Jobs : Idle(j)
  /\ \/ held.access # None /\ ui' = "in" /\ UNCHANGED <<held, job>>
     \/ held.refresh # None /\ Renew /\ UNCHANGED <<held, ui>>
     \/ (held.access # None \/ held.refresh = None) /\ Clear
  /\ UNCHANGED <<server, call, ending, overtaken, unheard>>

\* apiFetch leaves with the access token held now, if any.
Send(r) ==
  /\ ui = "in" /\ call[r] = "idle"
  /\ call' = [call EXCEPT ![r] = IF held.access = None THEN "bare" ELSE "sent"]
  /\ UNCHANGED <<server, held, ui, job, ending, overtaken, unheard>>

\* It is answered or fails, or there is nothing to renew with.
Answered(r) ==
  /\ call[r] \in {"sent", "bare"}
  /\ call' = [call EXCEPT ![r] = "idle"]
  /\ UNCHANGED <<server, held, ui, job, ending, overtaken, unheard>>

\* A 401: there was no access token, or its quarter of an hour is over.
Unauthorised(r) ==
  /\ call[r] \in {"sent", "bare"} /\ held.refresh # None
  /\ Renew
  /\ call' = [call EXCEPT ![r] = "waiting"]
  /\ UNCHANGED <<server, held, ui, ending, overtaken, unheard>>

Losing == [r \in Requests |-> IF call[r] = "waiting" THEN "losing" ELSE call[r]]

\* Mutant: a failure leaves the requests waiting for the renewal that failed.
LoseSessionUnanswered ==
  /\ At("renew", "refused") \/ At("renew", "failed")
  /\ job' = [job EXCEPT !["renew"] = None,
                        !["lost"] = [at |-> "refresh", token |-> None]]
  /\ held' = [held EXCEPT !.access = None]
  /\ UNCHANGED <<server, ui, call, ending, overtaken, unheard>>

\* A renewal that did not succeed, for whatever reason, ends the session.
LoseSession ==
  /\ At("renew", "refused") \/ At("renew", "failed")
  /\ job' = [job EXCEPT !["renew"] = None,
                        !["lost"] = [at |-> "refresh", token |-> None]]
  /\ held' = [held EXCEPT !.access = None]
  /\ call' = Losing
  /\ UNCHANGED <<server, ui, ending, overtaken, unheard>>

-----------------------------------------------------------------------------
(* Signing in and out *)

\* The answer of a sign-in arrives with a new family.
Login ==
  /\ ui = "out" /\ Idle("login") /\ Issued # Tokens
  /\ server' = Issue(server, Fresh)
  /\ Put("login", "access", Fresh)
  /\ UNCHANGED <<held, ui, call, ending, overtaken, unheard>>

\* logout reads the token held now, to tell the server first.
Logout ==
  /\ ui = "in" /\ Idle("logout")
  /\ Put("logout", IF held.refresh = None THEN "access" ELSE "asking", held.refresh)
  /\ UNCHANGED <<server, held, ui, call, ending, overtaken, unheard>>

\* Mutant: the server ends the token presented and not its family.
TellPresented ==
  LET t == job["logout"].token IN
  /\ At("logout", "asking")
  /\ \/ End({server[t].family}) /\ server' = [server EXCEPT ![t].revoked = TRUE]
     \/ UNCHANGED <<server, ending, overtaken>>
  /\ Put("logout", "access", None)
  /\ UNCHANGED <<held, ui, call, unheard>>

\* The server ends the family, or is not reached; the local clear happens either way.
Tell ==
  LET f == server[job["logout"].token].family IN
  /\ At("logout", "asking")
  /\ \/ End({f}) /\ server' = Revoke({f})
     \/ UNCHANGED <<server, ending, overtaken>>
  /\ Put("logout", "access", None)
  /\ UNCHANGED <<held, ui, call, unheard>>

\* A request, let in by its access token, that signs out everywhere; an answer that is
\* lost leaves the pair where it is.
LogoutEverywhere(r) ==
  /\ call[r] = "sent" /\ Idle("account")
  /\ End(Issued) /\ server' = Revoke(Issued)
  /\ call' = [call EXCEPT ![r] = "idle"]
  /\ job' = job \/ Put("account", "access", None)
  /\ UNCHANGED <<held, ui, unheard>>

\* One that changes the password: every session ends and a new one opens, in one
\* transaction.
ChangePassword(r) ==
  /\ call[r] = "sent" /\ Idle("account") /\ Issued # Tokens
  /\ End(Issued) /\ server' = Issue(Revoke(Issued), Fresh)
  /\ call' = [call EXCEPT ![r] = "idle"]
  /\ job' = job \/ Put("account", "access", Fresh)
  /\ UNCHANGED <<held, ui, unheard>>

\* The app is closed or killed: storage stays, and what the renewal in flight brings
\* is lost.
Kill ==
  /\ ui' = "boot"
  /\ call' = [r \in Requests |-> "idle"]
  /\ job' = [j \in Jobs |-> None]
  /\ unheard' = unheard \cup {t \in Issued : ~Idle("renew") /\ t = held.refresh /\ server[t].rotated}
  /\ UNCHANGED <<server, held, ending, overtaken>>

Next ==
  \/ Commit \/ Serve \/ Exchange \/ RefuseExchange \/ Unreachable \/ LoseSession \/ Boot
  \/ Login \/ Logout \/ Tell \/ Kill
  \/ \E j \in Jobs : SetToken(j) \/ SetRefreshToken(j)
  \/ \E r \in Requests : \/ Send(r) \/ Answered(r) \/ Unauthorised(r)
                         \/ LogoutEverywhere(r) \/ ChangePassword(r)
  \/ \E t \in Tokens : RevokedElsewhere(t)

Spec == Init /\ [][Next]_vars

\* The renewal's request is answered or fails, and every await of a stored pair returns.
RenewalGoesOn ==
  \/ Serve \/ Exchange \/ RefuseExchange \/ Unreachable \/ LoseSession
  \/ SetToken("renew") \/ SetRefreshToken("renew")
LiveSpec == Spec /\ WF_vars(RenewalGoesOn) /\ WF_vars(SetRefreshToken("lost"))

-----------------------------------------------------------------------------
(* Properties *)

\* Every variable keeps its type.
TypeOK ==
  /\ server \in [Tokens -> Row \cup {None}]
  /\ ending \subseteq Tokens /\ overtaken \subseteq Tokens /\ unheard \subseteq Tokens
  /\ held \in [access : Tokens \cup {None}, refresh : Tokens \cup {None}]
  /\ ui \in {"boot", "in", "out"}
  /\ call \in [Requests -> {"idle", "sent", "bare", "waiting", "losing"}]
  /\ job \in [Jobs -> Job \cup {None}]

\* However many requests meet an expired token together, the app never presents a
\* token again that was exchanged, unless the answer to the exchange was lost, on the
\* way or with the app: the server takes such a replay for theft.
ReplayNeedsALostAnswer ==
  At("renew", "asking") /\ server[job["renew"].token].rotated => job["renew"].token \in unheard

\* Once the server ended a session, told by a sign-out, a change of password or a
\* replay, no token of it that the device still holds, or gets from a renewal under
\* way, opens it again; unless a renewal of it was being served just then, whose
\* successor the UPDATE cannot see.
Ended == {server[t].family : t \in {u \in Issued : server[u].revoked}}
SignedOutCannotRenew ==
  held.refresh # None /\ server[held.refresh].family \in Ended \ overtaken =>
    server[held.refresh].revoked

\* A request that waits for the renewal is let go, by its success or its failure.
EveryCallerIsAnswered ==
  \A r \in Requests : (call[r] \in {"waiting", "losing"}) ~> (call[r] = "idle")

\* A session ends because the server refused to renew it or there was nothing to renew
\* with; a failing network or server is not an invalid session.
OutageKeepsTheSession ==
  [][Idle("lost") /\ job'["lost"] # None => ~At("renew", "failed")]_vars

\* After signing out nothing of the session is left on the device.
SignedOutIsSignedOut ==
  ui = "out" /\ (\A j \in Jobs : Idle(j)) => held = [access |-> None, refresh |-> None]

=============================================================================
