------------------------------ MODULE StartUp ------------------------------
(***************************************************************************)
(* The processes of the API over one database: what each does before it    *)
(* serves (BootstrapService: migrations, settings row, first superadmin),  *)
(* the scheduled jobs it runs while it serves, and the two things both     *)
(* wait for: an advisory lock and a connection of the process's own pool.  *)
(*                                                                         *)
(* A process that stops, by a failed boot or a crash, loses its sessions:  *)
(* the database frees their locks and rolls their transactions back.       *)
(***************************************************************************)
EXTENDS Integers, FiniteSets

CONSTANTS Replicas,    \* processes of the API
          Images,      \* an image is the number of migrations it carries
          JobNames,    \* scheduled jobs
          Passwords,   \* generated passwords, never drawn twice
          None,        \* no holder, no account, no password
          PoolSize,    \* connections in the pool of a process
          MaxRequests  \* bound: requests a process serves at a time

ASSUME PoolAssumption == PoolSize \in Nat /\ PoolSize >= 2
ASSUME ImageAssumption == Images \subseteq Nat
ASSUME NoneAssumption == None \notin Passwords \cup Replicas

VARIABLES boot,      \* where each process is on its way to serving
          image,     \* the image it runs
          todo,      \* the migrations it found pending
          schema,    \* migrations whose statements are committed
          ledger,    \* migrations in public._migrations
          settings,  \* the row of app_settings is there
          account,   \* the password of the committed superadmin
          draft,     \* the password a process has inserted, not yet committed
          shown,     \* the last password on a console or in the file
          holder,    \* the process whose session holds each advisory lock
          tick,      \* where each process is in an attempt at each job
          requests   \* requests a process is serving, a connection each

dbVars == <<schema, ledger, settings, account, shown>>

bootVars == <<boot, image, todo, draft, holder, tick, requests, dbVars>>

Migrations == UNION {1..n : n \in Images}

SchemaLock == "schema-migrations"

\* No job takes the lock of the migrations.
ASSUME LockAssumption == SchemaLock \notin JobNames

LockNames == JobNames \cup {SchemaLock}

BootSteps == {"down", "lock", "status", "apply", "log", "unlock", "settings",
              "seed", "insert", "announce", "commit", "serving"}

TickSteps == {"off", "connect", "try", "work_connect", "work", "unlock"}

BootTypeOK == /\ boot \in [Replicas -> BootSteps]
              /\ image \in [Replicas -> Images \cup {0}]
              /\ todo \in [Replicas -> SUBSET Migrations]
              /\ schema \subseteq Migrations /\ ledger \subseteq Migrations
              /\ settings \in BOOLEAN
              /\ account \in Passwords \cup {None} /\ shown \in Passwords \cup {None}
              /\ draft \in [Replicas -> Passwords \cup {None}]
              /\ holder \in [LockNames -> Replicas \cup {None}]
              /\ tick \in [Replicas -> [JobNames -> TickSteps]]
              /\ requests \in [Replicas -> 0..MaxRequests]

Resting == [j \in JobNames |-> "off"]

BootInit == /\ boot = [r \in Replicas |-> "down"]
            /\ image = [r \in Replicas |-> 0]
            /\ todo = [r \in Replicas |-> {}]
            /\ schema = {} /\ ledger = {} /\ settings = FALSE
            /\ account = None /\ shown = None
            /\ draft = [r \in Replicas |-> None]
            /\ holder = [l \in LockNames |-> None]
            /\ tick = [r \in Replicas |-> Resting]
            /\ requests = [r \in Replicas |-> 0]

---------------------------------------------------------------------------

Goes(r, from, to) == boot[r] = from /\ boot' = [boot EXCEPT ![r] = to]

\* What PostgreSQL does when the sessions of a process are gone.
Freed(r) == [l \in LockNames |-> IF holder[l] = r THEN None ELSE holder[l]]

Dies(r) == /\ boot' = [boot EXCEPT ![r] = "down"]
           /\ image' = [image EXCEPT ![r] = 0]
           /\ todo' = [todo EXCEPT ![r] = {}]
           /\ draft' = [draft EXCEPT ![r] = None]
           /\ tick' = [tick EXCEPT ![r] = Resting]
           /\ requests' = [requests EXCEPT ![r] = 0]
           /\ holder' = Freed(r)
           /\ UNCHANGED dbVars

Stops(r) == boot[r] # "down" /\ Dies(r)

---------------------------------------------------------------------------
(* MigrationService.run.  Nothing else uses the pool before the process    *)
(* serves, so its two connections are always to be had.                    *)

Boot(r, n) == /\ Goes(r, "down", "lock")
              /\ image' = [image EXCEPT ![r] = n]
              /\ UNCHANGED <<todo, draft, holder, tick, requests, dbVars>>

\* Mutant: skip like a job, instead of waiting.
TakeSchemaLockOrSkip(r) ==
  /\ Goes(r, "lock", IF holder[SchemaLock] = None THEN "status" ELSE "settings")
  /\ holder' = IF holder[SchemaLock] = None THEN [holder EXCEPT ![SchemaLock] = r] ELSE holder
  /\ UNCHANGED <<image, todo, draft, tick, requests, dbVars>>

\* withLockBlocking: stands still until the lock is free.
TakeSchemaLock(r) == /\ Goes(r, "lock", "status")
                     /\ holder[SchemaLock] = None
                     /\ holder' = [holder EXCEPT ![SchemaLock] = r]
                     /\ UNCHANGED <<image, todo, draft, tick, requests, dbVars>>

Status(r) == LET pending == (1..image[r]) \ ledger
             IN /\ Goes(r, "status", IF pending = {} THEN "unlock" ELSE "apply")
                /\ todo' = [todo EXCEPT ![r] = pending]
                /\ UNCHANGED <<image, draft, holder, tick, requests, dbVars>>

NextFile(r) == CHOOSE m \in todo[r] : \A n \in todo[r] : m <= n

\* Mutant: a lock of the transaction goes when the file commits.
ApplyFileUnlocked(r) == /\ Goes(r, "apply", "log")
                        /\ NextFile(r) \notin schema
                        /\ schema' = schema \cup {NextFile(r)}
                        /\ holder' = Freed(r)
                        /\ UNCHANGED <<image, todo, draft, tick, requests, ledger, settings, account, shown>>

\* One file, one transaction.
ApplyFile(r) == /\ Goes(r, "apply", "log")
                /\ NextFile(r) \notin schema
                /\ schema' = schema \cup {NextFile(r)}
                /\ UNCHANGED <<image, todo, draft, holder, tick, requests, ledger, settings, account, shown>>

\* The objects are there already: the statement fails, and so does the boot.
ApplyRefused(r) == /\ boot[r] = "apply"
                   /\ NextFile(r) \in schema
                   /\ Dies(r)

\* The row of the ledger is a statement of its own, after the commit.
LogMigration(r) == /\ Goes(r, "log", IF todo[r] = {NextFile(r)} THEN "unlock" ELSE "apply")
                   /\ ledger' = ledger \cup {NextFile(r)}
                   /\ todo' = [todo EXCEPT ![r] = @ \ {NextFile(r)}]
                   /\ UNCHANGED <<image, draft, holder, tick, requests, schema, settings, account, shown>>

SchemaUnlock(r) == /\ Goes(r, "unlock", "settings")
                   /\ holder' = [holder EXCEPT ![SchemaLock] = None]
                   /\ UNCHANGED <<image, todo, draft, tick, requests, dbVars>>

---------------------------------------------------------------------------
(* The settings row, whose failure is logged, and the first superadmin.    *)

EnsureSettingsRow(r) == /\ Goes(r, "settings", "seed")
                        /\ settings' \in {settings, TRUE}
                        /\ UNCHANGED <<image, todo, draft, holder, tick, requests,
                                       schema, ledger, account, shown>>

FindSuperadmin(r) == /\ Goes(r, "seed", IF account = None THEN "insert" ELSE "serving")
                     /\ UNCHANGED <<image, todo, draft, holder, tick, requests, dbVars>>

\* The national id is unique: the insert waits for another that has not ended.
NoOtherInsert(r) == \A o \in Replicas \ {r} : draft[o] = None

Unused(p) == p # account /\ p # shown /\ \A r \in Replicas : draft[r] # p

\* Mutant: the password is announced before it is known to be inserted.
InsertAnnounced(r, p) == /\ Goes(r, "insert", "announce")
                         /\ Unused(p)
                         /\ shown' = p
                         /\ draft' = [draft EXCEPT ![r] = p]
                         /\ UNCHANGED <<image, todo, holder, tick, requests, schema, ledger, settings, account>>

InsertSuperadmin(r, p) == /\ Goes(r, "insert", "announce")
                          /\ account = None
                          /\ NoOtherInsert(r)
                          /\ Unused(p)
                          /\ draft' = [draft EXCEPT ![r] = p]
                          /\ UNCHANGED <<image, todo, holder, tick, requests, dbVars>>

InsertRefused(r) == /\ boot[r] = "insert"
                    /\ account # None
                    /\ NoOtherInsert(r)
                    /\ Dies(r)

\* Console and file, inside the transaction.
Announce(r) == /\ Goes(r, "announce", "commit")
               /\ shown' = draft[r]
               /\ UNCHANGED <<image, todo, draft, holder, tick, requests, schema, ledger, settings, account>>

CommitSuperadmin(r) == /\ Goes(r, "commit", "serving")
                       /\ account' = draft[r]
                       /\ draft' = [draft EXCEPT ![r] = None]
                       /\ UNCHANGED <<image, todo, holder, tick, requests, schema, ledger, settings, shown>>

\* Deleted, or a restore that went wrong.
LoseSuperadmin == /\ account # None
                  /\ account' = None
                  /\ UNCHANGED <<boot, image, todo, draft, holder, tick, requests,
                                 schema, ledger, settings, shown>>

---------------------------------------------------------------------------
(* A serving process: its pool, the requests, and the jobs.                *)

\* A job holds one connection for its lock and another for its work.
InUse(r) == requests[r]
            + Cardinality({j \in JobNames : tick[r][j] \in {"try", "work_connect", "work", "unlock"}})
            + Cardinality({j \in JobNames : tick[r][j] = "work"})

ConnectionFree(r) == InUse(r) < PoolSize

Serve(r) == /\ boot[r] = "serving"
            /\ ConnectionFree(r)
            /\ requests[r] < MaxRequests
            /\ requests' = [requests EXCEPT ![r] = @ + 1]
            /\ UNCHANGED <<boot, image, todo, draft, holder, tick, dbVars>>

Answer(r) == /\ requests[r] > 0
             /\ requests' = [requests EXCEPT ![r] = @ - 1]
             /\ UNCHANGED <<boot, image, todo, draft, holder, tick, dbVars>>

TickGoes(r, j, from, to) == tick[r][j] = from /\ tick' = [tick EXCEPT ![r][j] = to]

\* The timer fires; `running' skips it while the last attempt is under way.
Tick(r, j) == /\ boot[r] = "serving"
              /\ TickGoes(r, j, "off", "connect")
              /\ UNCHANGED <<boot, image, todo, draft, holder, requests, dbVars>>

Connect(r, j) == /\ ConnectionFree(r)
                 /\ \/ TickGoes(r, j, "connect", "try")
                    \/ TickGoes(r, j, "work_connect", "work")
                 /\ UNCHANGED <<boot, image, todo, draft, holder, requests, dbVars>>

\* Mutant: the pool waits for ever.
ConnectWaits(r, j) == FALSE /\ UNCHANGED bootVars

\* connectionTimeoutMillis: the attempt fails, and gives the lock back.
ConnectTimesOut(r, j) == /\ ~ConnectionFree(r)
                         /\ \/ TickGoes(r, j, "connect", "off")
                            \/ TickGoes(r, j, "work_connect", "unlock")
                         /\ UNCHANGED <<boot, image, todo, draft, holder, requests, dbVars>>

TryLock(r, j) == /\ TickGoes(r, j, "try", IF holder[j] = None THEN "work_connect" ELSE "off")
                 /\ holder' = IF holder[j] = None THEN [holder EXCEPT ![j] = r] ELSE holder
                 /\ UNCHANGED <<boot, image, todo, draft, requests, dbVars>>

\* A transaction of the job ends; some jobs take another.
Work(r, j) == /\ \/ TickGoes(r, j, "work", "work_connect")
                 \/ TickGoes(r, j, "work", "unlock")
              /\ UNCHANGED <<boot, image, todo, draft, holder, requests, dbVars>>

JobUnlock(r, j) == /\ TickGoes(r, j, "unlock", "off")
                   /\ holder' = [holder EXCEPT ![j] = None]
                   /\ UNCHANGED <<boot, image, todo, draft, requests, dbVars>>

---------------------------------------------------------------------------

Start(r) == \/ TakeSchemaLock(r) \/ Status(r) \/ ApplyFile(r) \/ ApplyRefused(r)
            \/ LogMigration(r) \/ SchemaUnlock(r) \/ EnsureSettingsRow(r) \/ FindSuperadmin(r)
            \/ \E p \in Passwords : InsertSuperadmin(r, p)
            \/ InsertRefused(r) \/ Announce(r) \/ CommitSuperadmin(r)

Job(r, j) == Connect(r, j) \/ ConnectTimesOut(r, j) \/ TryLock(r, j) \/ Work(r, j) \/ JobUnlock(r, j)

BootNext == \/ \E r \in Replicas : \/ \E n \in Images : Boot(r, n)
                                   \/ Start(r) \/ Stops(r) \/ Serve(r) \/ Answer(r)
                                   \/ \E j \in JobNames : Tick(r, j) \/ Job(r, j)
            \/ LoseSuperadmin

BootSpec == BootInit /\ [][BootNext]_bootVars

(* A process that is not stopped goes on, and the database serves those    *)
(* who wait for a lock or a row in turn; a request is answered; a job does *)
(* not loop for ever: prune passes end with the rows there are.            *)
Fairness ==
  \A r \in Replicas : /\ SF_bootVars(Start(r)) /\ WF_bootVars(Answer(r))
                      /\ \A j \in JobNames : /\ WF_bootVars(Job(r, j))
                                             /\ SF_bootVars(TickGoes(r, j, "work", "unlock") /\ Work(r, j))

LiveSpec == BootSpec /\ Fairness

---------------------------------------------------------------------------

(* A process that serves has every migration of its image in the schema:   *)
(* bootstrap runs before the first request, and the second process waits   *)
(* for the first.                                                          *)
ServesMigrated == \A r \in Replicas : boot[r] = "serving" => 1..image[r] \subseteq schema

(* The password shown last opens the superadmin account there is, whoever  *)
(* raced to create it.                                                     *)
ShownPasswordOpens == account # None => shown = account

(* Everyone who waits is answered: a boot ends in serving or in a stop,    *)
(* and an attempt at a job ends, whatever the others hold.                 *)
EveryWaitEnds ==
  /\ \A r \in Replicas : boot[r] \notin {"down", "serving"} ~> boot[r] \in {"down", "serving"}
  /\ \A r \in Replicas, j \in JobNames : tick[r][j] # "off" ~> tick[r][j] = "off"
=============================================================================
