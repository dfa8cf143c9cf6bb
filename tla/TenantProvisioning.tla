------------------------- MODULE TenantProvisioning -------------------------
(***************************************************************************)
(* How a tenant comes to be: TenantService.register writes the rows of the *)
(* master database and DatabaseTenantService.createTenantDatabase the      *)
(* tenant's own database, while the script run-migrations, a process of    *)
(* its own, may be migrating the databases of all tenants.                 *)
(*                                                                         *)
(* One action is one statement on a database.  Registration sends a        *)
(* migration file as one query, which PostgreSQL runs all or nothing; the  *)
(* script sends the statements of the file one by one.                     *)
(***************************************************************************)
EXTENDS Integers, FiniteSets, Tables

CONSTANTS
  Slug,          \* tenants.slug, which names the database <slug>_erp
  Email,         \* tenants.email and users.email
  LastMigration, \* the files of prisma/migrations-tenant, in order, are
                 \* numbered from 1; the others refer to tables of the first
  Statements,    \* how many statements a file has
  Rerunnable,    \* the files all of whose statements say IF NOT EXISTS
  AddsColumns,   \* the files that start by adding columns, without it
  Repeats,       \* the other files that start, as this one does, by creating
                 \* a type of the same name, without it: file -> files
  LogMigration,  \* the file that creates migrations_log, with other columns
                 \* than registration, where it does not exist
  Call,          \* BOUND on the registrations in flight
  MaxMishaps     \* BOUND on failed statements and deaths of processes

Migration == 1 .. LastMigration

ASSUME MigrationAssumption ==
  /\ LastMigration \in Nat \ {0}
  /\ Statements \in [Migration -> Nat \ {0}]
  /\ 1 \in Rerunnable /\ Rerunnable \subseteq Migration  \* 1: the base schema
  /\ AddsColumns \subseteq Migration \ Rerunnable
  /\ Repeats \in [Migration -> SUBSET Migration]
  /\ \A m, n \in Migration : m \in Repeats[n] <=> n \in Repeats[m]
  /\ \A m \in Rerunnable \cup AddsColumns : Repeats[m] = {}
  /\ LogMigration \in Migration \ {1}
  /\ MaxMishaps \in Nat

VARIABLES
  tenants,    \* tenants: slug -> email, both unique
  users,      \* users of the master database: email -> slug of the tenant
  databases,  \* the tenant databases that exist
  calls,      \* the calls of register in flight
  runner,     \* the script run-migrations
  mishaps     \* mishaps so far

vars == <<tenants, users, databases, calls, runner, mishaps>>

\* migrations_log is absent, has the column status, or the column success.
LogLayout == {"none", "status", "success"}

Database ==
  [log    : LogLayout,
   logged : [Migration -> {"none", "SUCCESS", "FAILED"}],
   done   : [Migration -> Nat],   \* statements executed so far
   admins : SUBSET Email]         \* users of the tenant database

RegisterCall ==
  [pc : {"checkSlug", "createTenant", "findDatabase", "createDatabase",
         "createLog", "check", "execute", "record", "recordExisting",
         "seed", "rollback", "createUser"},
   slug : Slug, email : Email, m : Migration, adopted : BOOLEAN]

Runner ==
       [pc : {"idle"}]
  \cup [pc : {"check", "execute", "record", "recordFailed"}, todo : SUBSET Slug,
        slug : Slug, m : Migration, k : Nat \ {0}]

TypeOK ==
  /\ IsTable(tenants, Slug, Email)
  /\ IsTable(users, Email, Slug)
  /\ IsTable(databases, Slug, Database)
  /\ IsTable(calls, Call, RegisterCall)
  /\ runner \in Runner
  /\ mishaps \in 0 .. MaxMishaps
  /\ \A e \in DOMAIN users : users[e] \in DOMAIN tenants
  /\ \A s \in DOMAIN databases, m \in Migration : databases[s].done[m] <= Statements[m]

Init ==
  /\ tenants = << >>
  /\ users = << >>
  /\ databases = << >>
  /\ calls = << >>
  /\ runner = [pc |-> "idle"]
  /\ mishaps = 0

-----------------------------------------------------------------------------
(* Helpers.                                                                *)

Free(c) == c \notin DOMAIN calls

At(c, label) == c \in DOMAIN calls /\ calls[c].pc = label

Goto(c, label) == calls' = [calls EXCEPT ![c].pc = label]

Return(c) == calls' = Drop(calls, c)

Db(c) == databases[calls[c].slug]

EmptyDatabase ==
  [log |-> "none", logged |-> [m \in Migration |-> "none"],
   done |-> [m \in Migration |-> 0], admins |-> {}]

Migrated(db, m) == db.done[m] = Statements[m]

\* The files that create what the file m creates.
Twins(m) == {m} \cup Repeats[m]

\* The tables a file refers to exist.
Applicable(db, m) == m = 1 \/ Migrated(db, 1)

\* On to the next file, or to seedInitialUser after the last one.
NextMigration(c) ==
  calls' = [calls EXCEPT
    ![c].pc = IF calls[c].m = LastMigration THEN "seed" ELSE "check",
    ![c].m  = IF @ = LastMigration THEN @ ELSE @ + 1]

\* A statement throws inside the try block of register.
Throw(c) == Goto(c, "rollback")

-----------------------------------------------------------------------------
(* TenantService.register                                                  *)

\* No user has the email.
Register(c, s, e) ==
  /\ Free(c)
  /\ e \notin DOMAIN users
  /\ calls' = Put(calls, c, [pc |-> "checkSlug", slug |-> s, email |-> e,
                             m |-> 1, adopted |-> FALSE])
  /\ UNCHANGED <<tenants, users, databases, runner, mishaps>>

CheckSlug(c) ==
  /\ At(c, "checkSlug")
  /\ IF calls[c].slug \in DOMAIN tenants THEN Return(c) ELSE Goto(c, "createTenant")
  /\ UNCHANGED <<tenants, users, databases, runner, mishaps>>

\* The INSERT throws on a slug or an email that is taken.
CreateTenant(c) ==
  /\ At(c, "createTenant")
  /\ IF \/ calls[c].slug \in DOMAIN tenants
        \/ \E s \in DOMAIN tenants : tenants[s] = calls[c].email
       THEN Return(c) /\ UNCHANGED tenants
       ELSE /\ tenants' = Put(tenants, calls[c].slug, calls[c].email)
            /\ Goto(c, "findDatabase")
  /\ UNCHANGED <<users, databases, runner, mishaps>>

\* Mutant: the catch block deletes nothing.
RollbackNothing(c) ==
  /\ At(c, "rollback")
  /\ Return(c)
  /\ UNCHANGED <<tenants, users, databases, runner, mishaps>>

\* The catch block: the row goes, the database stays.
Rollback(c) ==
  /\ At(c, "rollback")
  /\ tenants' = Drop(tenants, calls[c].slug)
  /\ users' = [e \in {x \in DOMAIN users : users[x] # calls[c].slug} |-> users[e]]
  /\ Return(c)
  /\ UNCHANGED <<databases, runner, mishaps>>

\* The last write; an email that is taken throws, outside the try block.
CreateUser(c) ==
  /\ At(c, "createUser")
  /\ users' = IF calls[c].email \in DOMAIN users
                THEN users
                ELSE Put(users, calls[c].email, calls[c].slug)
  /\ Return(c)
  /\ UNCHANGED <<tenants, databases, runner, mishaps>>

-----------------------------------------------------------------------------
(* DatabaseTenantService.createTenantDatabase                              *)

\* A database that exists already is taken as it is.
FindDatabase(c) ==
  /\ At(c, "findDatabase")
  /\ IF calls[c].slug \in DOMAIN databases
       THEN calls' = [calls EXCEPT ![c].pc = "createUser", ![c].adopted = TRUE]
       ELSE Goto(c, "createDatabase")
  /\ UNCHANGED <<tenants, users, databases, runner, mishaps>>

CreateDatabase(c) ==
  /\ At(c, "createDatabase")
  /\ IF calls[c].slug \in DOMAIN databases
       THEN Throw(c) /\ UNCHANGED databases
       ELSE /\ databases' = Put(databases, calls[c].slug, EmptyDatabase)
            /\ Goto(c, "createLog")
  /\ UNCHANGED <<tenants, users, runner, mishaps>>

\* createMigrationsLogTable, CREATE TABLE IF NOT EXISTS
CreateLog(c) ==
  /\ At(c, "createLog")
  /\ databases' = [databases EXCEPT
       ![calls[c].slug].log = IF @ = "none" THEN "status" ELSE @]
  /\ Goto(c, "check")
  /\ UNCHANGED <<tenants, users, runner, mishaps>>

\* Any entry in the log will do, that of a failure too.
CheckMigration(c) ==
  /\ At(c, "check")
  /\ IF Db(c).logged[calls[c].m] # "none"
       THEN NextMigration(c)
       ELSE Goto(c, "execute")
  /\ UNCHANGED <<tenants, users, databases, runner, mishaps>>

\* The errors "table or object exists" (42P07, 42710) and "table does not
\* exist" (42P01) roll the file back and are taken to mean that it has been
\* executed: that is so of a file whose type another file has created, too.  A
\* column that exists (42701) is an error like any other.
ExecuteMigration(c) ==
  LET m == calls[c].m
      Exists == m \notin Rerunnable /\ \E n \in Twins(m) : Db(c).done[n] > 0
  IN  /\ At(c, "execute")
      /\ \/ /\ Applicable(Db(c), m) /\ ~Exists
            /\ databases' = [databases EXCEPT ![calls[c].slug].done[m] = Statements[m]]
            /\ Goto(c, "record")
         \/ /\ Applicable(Db(c), m) /\ Exists /\ m \in AddsColumns
            /\ Throw(c) /\ UNCHANGED databases
         \/ /\ ~Applicable(Db(c), m) \/ (Exists /\ m \notin AddsColumns)
            /\ Goto(c, "recordExisting") /\ UNCHANGED databases
      /\ UNCHANGED <<tenants, users, runner, mishaps>>

\* INSERT INTO migrations_log throws when somebody else has logged the file.
RecordMigration(c) ==
  LET m == calls[c].m
  IN  /\ At(c, "record")
      /\ IF Db(c).logged[m] = "none"
           THEN /\ databases' = [databases EXCEPT ![calls[c].slug].logged[m] = "SUCCESS"]
                /\ NextMigration(c)
           ELSE Throw(c) /\ UNCHANGED databases
      /\ UNCHANGED <<tenants, users, runner, mishaps>>

\* The same ON CONFLICT DO NOTHING.
RecordExisting(c) ==
  LET m == calls[c].m
  IN  /\ At(c, "recordExisting")
      /\ databases' = [databases EXCEPT
           ![calls[c].slug].logged[m] = IF @ = "none" THEN "SUCCESS" ELSE @]
      /\ NextMigration(c)
      /\ UNCHANGED <<tenants, users, runner, mishaps>>

\* seedInitialUser
Seed(c) ==
  /\ At(c, "seed")
  /\ IF Migrated(Db(c), 1)
       THEN /\ databases' = [databases EXCEPT
                 ![calls[c].slug].admins = @ \cup {calls[c].email}]
            /\ Goto(c, "createUser")
       ELSE Throw(c) /\ UNCHANGED databases
  /\ UNCHANGED <<tenants, users, runner, mishaps>>

-----------------------------------------------------------------------------
(* prisma/scripts/run-migrations.ts                                        *)

Idle == [pc |-> "idle"]

RunnerAt(label) == runner.pc = label

\* One tenant of todo after the other, every file in order.
Visit(todo) ==
  IF todo = {}
    THEN runner' = Idle
    ELSE \E s \in todo :
           runner' = [pc |-> "check", todo |-> todo \ {s}, slug |-> s, m |-> 1, k |-> 1]

NextFile ==
  IF runner.m = LastMigration
    THEN Visit(runner.todo)
    ELSE runner' = [runner EXCEPT !.pc = "check", !.m = @ + 1, !.k = 1]

\* getAllTenants
StartRunner ==
  /\ runner = Idle
  /\ tenants # << >>
  /\ Visit(DOMAIN tenants)
  /\ UNCHANGED <<tenants, users, databases, calls, mishaps>>

\* Mutant: any entry of the log will do, as in a registration.
RunnerCheckAnyEntry ==
  LET s == runner.slug
  IN  /\ RunnerAt("check")
      /\ IF \/ s \notin DOMAIN databases
            \/ databases[s].log = "success"
            \/ databases[s].logged[runner.m] # "none"
           THEN NextFile
           ELSE runner' = [runner EXCEPT !.pc = "execute"]
      /\ UNCHANGED <<tenants, users, databases, calls, mishaps>>

\* isMigrationExecuted: a log without the column status, or no database at
\* all, makes this and the record of the failure throw; on to the next file.
RunnerCheck ==
  LET s == runner.slug
  IN  /\ RunnerAt("check")
      /\ IF \/ s \notin DOMAIN databases
            \/ databases[s].log = "success"
            \/ databases[s].logged[runner.m] = "SUCCESS"
           THEN NextFile
           ELSE runner' = [runner EXCEPT !.pc = "execute"]
      /\ UNCHANGED <<tenants, users, databases, calls, mishaps>>

\* Mutant: the last statement is not executed, for want of its semicolon.
RunnerExecuteShort ==
  LET s == runner.slug
      m == runner.m
  IN  /\ RunnerAt("execute")
      /\ databases' = [databases EXCEPT
           ![s].done[m] = IF @ < runner.k /\ runner.k < Statements[m] THEN runner.k ELSE @]
      /\ runner' = IF runner.k >= Statements[m]
                     THEN [runner EXCEPT !.pc = "record"]
                     ELSE [runner EXCEPT !.k = @ + 1]
      /\ UNCHANGED <<tenants, users, calls, mishaps>>

\* Mutant: one statement too many.
RunnerExecuteLong ==
  LET s == runner.slug
      m == runner.m
  IN  /\ RunnerAt("execute")
      /\ databases' = [databases EXCEPT
           ![s].done[m] = IF @ < runner.k THEN runner.k ELSE @]
      /\ runner' = IF runner.k > Statements[m]
                     THEN [runner EXCEPT !.pc = "record"]
                     ELSE [runner EXCEPT !.k = @ + 1]
      /\ UNCHANGED <<tenants, users, calls, mishaps>>

\* The k-th statement of the file; what exists already is skipped.
RunnerExecute ==
  LET s == runner.slug
      m == runner.m
  IN  /\ RunnerAt("execute")
      /\ IF Applicable(databases[s], m)
           THEN /\ databases' = [databases EXCEPT
                     ![s].done[m] = IF @ < runner.k THEN runner.k ELSE @,
                     ![s].log = IF m = LogMigration /\ @ = "none" THEN "success" ELSE @]
                /\ runner' = IF runner.k = Statements[m]
                               THEN [runner EXCEPT !.pc = "record"]
                               ELSE [runner EXCEPT !.k = @ + 1]
           ELSE /\ runner' = [runner EXCEPT !.pc = "recordFailed"]
                /\ UNCHANGED databases
      /\ UNCHANGED <<tenants, users, calls, mishaps>>

\* Mutant: a file that failed is recorded as executed.
RunnerRecordSuccess ==
  LET s == runner.slug
  IN  /\ runner.pc \in {"record", "recordFailed"}
      /\ databases' = IF databases[s].log = "status"
                        THEN [databases EXCEPT ![s].logged[runner.m] = "SUCCESS"]
                        ELSE databases
      /\ NextFile
      /\ UNCHANGED <<tenants, users, calls, mishaps>>

\* recordMigration: nothing is written without a log or without its column.
RunnerRecord ==
  LET s == runner.slug
      m == runner.m
  IN  /\ runner.pc \in {"record", "recordFailed"}
      /\ databases' = IF databases[s].log = "status"
                        THEN [databases EXCEPT ![s].logged[m] =
                               IF RunnerAt("record") THEN "SUCCESS" ELSE "FAILED"]
                        ELSE databases
      /\ NextFile
      /\ UNCHANGED <<tenants, users, calls, mishaps>>

-----------------------------------------------------------------------------
(* Mishaps.                                                                *)

InTry == {"findDatabase", "createDatabase", "createLog", "check", "execute",
          "record", "seed"}

\* A statement of the try block fails for a reason of its own.
StatementFails(c) ==
  /\ mishaps < MaxMishaps
  /\ \E label \in InTry : At(c, label)
  /\ Throw(c)
  /\ mishaps' = mishaps + 1
  /\ UNCHANGED <<tenants, users, databases, runner>>

\* The process dies, or a statement outside the try block fails.
Die(c) ==
  /\ mishaps < MaxMishaps
  /\ ~Free(c)
  /\ Return(c)
  /\ mishaps' = mishaps + 1
  /\ UNCHANGED <<tenants, users, databases, runner>>

RunnerStatementFails ==
  /\ mishaps < MaxMishaps
  /\ RunnerAt("execute")
  /\ runner' = [runner EXCEPT !.pc = "recordFailed"]
  /\ mishaps' = mishaps + 1
  /\ UNCHANGED <<tenants, users, databases, calls>>

RunnerDies ==
  /\ mishaps < MaxMishaps
  /\ runner # Idle
  /\ runner' = Idle
  /\ mishaps' = mishaps + 1
  /\ UNCHANGED <<tenants, users, databases, calls>>

-----------------------------------------------------------------------------
Step(c) ==
  \/ CheckSlug(c) \/ CreateTenant(c) \/ FindDatabase(c) \/ CreateDatabase(c)
  \/ CreateLog(c) \/ CheckMigration(c) \/ ExecuteMigration(c)
  \/ RecordMigration(c) \/ RecordExisting(c) \/ Seed(c) \/ CreateUser(c)
  \/ Rollback(c)

RunnerStep == RunnerCheck \/ RunnerExecute \/ RunnerRecord

Mishap ==
  \/ \E c \in Call : StatementFails(c) \/ Die(c)
  \/ RunnerStatementFails \/ RunnerDies

Next ==
  \/ \E c \in Call, s \in Slug, e \in Email : Register(c, s, e)
  \/ \E c \in Call : Step(c)
  \/ StartRunner \/ RunnerStep
  \/ Mishap

Spec == Init /\ [][Next]_vars

\* Every statement is answered, and the script is run again and again, as the
\* README asks for with every deployment.
FairSpec ==
  /\ Spec
  /\ \A c \in Call : WF_vars(Step(c))
  /\ WF_vars(StartRunner) /\ WF_vars(RunnerStep)

-----------------------------------------------------------------------------
(* Properties.                                                             *)

\* The types and tables of the file are there: its own statements have made
\* them or those of a file that repeats it.  The two files of the repository
\* make the same tables and differ in their indexes and foreign keys.
Served(db, m) == \E n \in Twins(m) : Migrated(db, n)

\* The database is there with all its tables and the first admin in it.
Ready(s) ==
  /\ s \in DOMAIN databases /\ \A m \in Migration : Served(databases[s], m)
  /\ tenants[s] \in databases[s].admins

\* The log claims a file whose statements have not all been executed.
Lies(s, m) == databases[s].logged[m] = "SUCCESS" /\ ~Migrated(databases[s], m)

\* The script is among the statements of the file.
Executing(s, m) == RunnerAt("execute") /\ runner.slug = s /\ runner.m = m

\* A registration that made its database itself leaves it ready: whatever
\* fails and whoever interferes, it ends with the master user written only
\* when the first admin is in the database and every file in its log, and
\* without a failure the tables of a file are there, unless the script has
\* logged it as failed, or is in the middle of it or of its repeat.
OnlyAdoptedDatabasesAreUnready ==
  [][\A c \in Call, s \in Slug :
       (/\ At(c, "createUser") /\ calls[c].slug = s /\ ~calls[c].adopted
        /\ users' # users)
       => /\ tenants[s] \in databases[s].admins
          /\ \A m \in Migration :
               /\ databases[s].logged[m] # "none"
               /\ \/ Served(databases[s], m)
                  \/ databases[s].logged[m] = "FAILED"
                  \/ \E n \in Twins(m) : Executing(s, n)
                  \/ mishaps > 0]_vars

\* migrations_log does not come to claim a file that is not there except in
\* one way: a registration finds objects of the file and takes them for the
\* whole of it, when it found those of another file that repeats it, or those
\* of a migration half done, which the script is executing or has left.
LogLiesHaveACause ==
  [][\A s \in DOMAIN databases, m \in Migration :
       (~Lies(s, m) /\ Lies(s, m)') =>
         /\ \E c \in Call : At(c, "recordExisting") /\ calls[c].slug = s /\ calls[c].m = m
         /\ \/ \E n \in Repeats[m] : Migrated(databases[s], n)
            \/ \E n \in Twins(m) : Executing(s, n)
            \/ mishaps > 0]_vars

\* A tenant row that no registration is working on has its user, unless
\* something failed: two registrations never leave a tenant without a login.
TenantsHaveTheirUser ==
  \A s \in DOMAIN tenants :
    \/ \E e \in DOMAIN users : users[e] = s
    \/ \E c \in DOMAIN calls :
         calls[c].slug = s /\ calls[c].pc \notin {"checkSlug", "createTenant"}
    \/ mishaps > 0

\* The script repairs what registrations leave half done: each file of a
\* tenant's database whose log has the column status gets executed to its
\* end, unless the log claims it.  What the log claims is skipped for ever.
ScriptCompletesDatabases ==
  \A s \in Slug :
    (s \in DOMAIN tenants /\ s \in DOMAIN databases)
      ~> \/ s \notin DOMAIN tenants
         \/ s \in DOMAIN databases /\ databases[s].log # "status"
         \/ s \in DOMAIN databases
              /\ \A m \in Migration :
                   Migrated(databases[s], m) \/ databases[s].logged[m] = "SUCCESS"

\* "Migration was executed and successful", of a file logged with SUCCESS.
LogTellsTheTruth ==
  \A s \in DOMAIN databases, m \in Migration : ~Lies(s, m)

\* "Rollback tenant creation if database creation fails": whoever has a user
\* has a database that is ready.
RegisteredTenantsAreReady ==
  \A e \in DOMAIN users : Ready(users[e])

\* One registration at a time and no run of the script.
QuietSpec ==
  Init /\ [][Next /\ UNCHANGED runner /\ Cardinality(DOMAIN calls') <= 1]_vars
=============================================================================
