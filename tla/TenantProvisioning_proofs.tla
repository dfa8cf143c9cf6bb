---------------------- MODULE TenantProvisioning_proofs ----------------------
(***************************************************************************)
(* Proofs about TenantProvisioning, for any slugs, emails, registrations   *)
(* in flight, migration files and mishaps.                                 *)
(***************************************************************************)
EXTENDS TenantProvisioning, Tables_proofs

-----------------------------------------------------------------------------
(* What a step does to the calls.                                          *)

\* The statements of one registration, failures and its death included.
CallStep(c) == Step(c) \/ StatementFails(c) \/ Die(c)

\* The call goes on with the same slug and email.
Continues(c) ==
  /\ calls' = [calls EXCEPT ![c] = calls'[c]] /\ DOMAIN calls' = DOMAIN calls
  /\ \A d \in DOMAIN calls \ {c} : calls'[d] = calls[d]
  /\ calls'[c] \in RegisterCall
  /\ calls'[c].slug = calls[c].slug /\ calls'[c].email = calls[c].email

Rows ==
  /\ IsTable(tenants, Slug, Email)
  /\ IsTable(users, Email, Slug)
  /\ IsTable(databases, Slug, Database)
  /\ IsTable(calls, Call, RegisterCall)
  /\ runner \in Runner
  /\ mishaps \in 0 .. MaxMishaps

CallLabels ==
  {"checkSlug", "createTenant", "findDatabase", "createDatabase", "createLog", "check",
   "execute", "record", "recordExisting", "seed", "rollback", "createUser"}

LEMMA CallIsCall ==
  ASSUME Rows, NEW c \in DOMAIN calls
  PROVE  calls[c] \in RegisterCall /\ c \in Call
BY RowOfTable DEF Rows

LEMMA GotoContinues ==
  ASSUME Rows, NEW c \in DOMAIN calls, NEW label \in CallLabels, Goto(c, label)
  PROVE  /\ Continues(c) /\ calls'[c].pc = label
         /\ calls'[c].m = calls[c].m /\ calls'[c].adopted = calls[c].adopted
BY CallIsCall DEF Goto, Continues, RegisterCall, CallLabels

LEMMA NextMigrationContinues ==
  ASSUME Rows, NEW c \in DOMAIN calls, NextMigration(c)
  PROVE  /\ Continues(c) /\ calls'[c].adopted = calls[c].adopted
         /\ IF calls[c].m = LastMigration
              THEN calls'[c].pc = "seed" /\ calls'[c].m = calls[c].m
              ELSE calls'[c].pc = "check" /\ calls'[c].m = calls[c].m + 1
<1>1. calls[c] \in RegisterCall
  BY CallIsCall
<1>2. calls[c].m # LastMigration => calls[c].m + 1 \in Migration
  BY <1>1, MigrationAssumption DEF RegisterCall, Migration
<1>3. calls'[c] = [calls[c] EXCEPT
                     !.pc = IF calls[c].m = LastMigration THEN "seed" ELSE "check",
                     !.m  = IF @ = LastMigration THEN @ ELSE @ + 1]
  BY DEF NextMigration
<1>4. /\ calls' = [calls EXCEPT ![c] = calls'[c]] /\ DOMAIN calls' = DOMAIN calls
      /\ \A d \in DOMAIN calls \ {c} : calls'[d] = calls[d]
  BY DEF NextMigration
<1> QED  BY <1>1, <1>2, <1>3, <1>4 DEF Continues, RegisterCall

-----------------------------------------------------------------------------
(* Databases only grow.                                                    *)

\* No statement is undone, no entry of the log removed, no log given another
\* layout.
Grows(db, new) ==
  /\ \A m \in Migration : /\ db.done[m] <= new.done[m]
                          /\ db.logged[m] # "none" => new.logged[m] # "none"
  /\ db.admins \subseteq new.admins
  /\ db.log # "none" => new.log = db.log

DatabasesGrow ==
  /\ DOMAIN databases \subseteq DOMAIN databases'
  /\ \A s \in DOMAIN databases : Grows(databases[s], databases'[s])

LEMMA DatabaseIsDatabase ==
  ASSUME Rows, NEW s \in DOMAIN databases
  PROVE  databases[s] \in Database /\ s \in Slug
BY RowOfTable DEF Rows

LEMMA SameGrows ==
  ASSUME Rows, UNCHANGED databases
  PROVE  DatabasesGrow
<1>1. \A s \in DOMAIN databases : databases[s] \in Database
  BY DatabaseIsDatabase
<1> QED  BY <1>1 DEF DatabasesGrow, Grows, Database

\* One database is changed.
LEMMA OneGrows ==
  ASSUME Rows, NEW s \in DOMAIN databases, NEW db \in Database,
         databases' = [databases EXCEPT ![s] = db], Grows(databases[s], db)
  PROVE  DatabasesGrow /\ IsTable(databases', Slug, Database)
<1>1. \A t \in DOMAIN databases : databases[t] \in Database
  BY DatabaseIsDatabase
<1>2. DatabasesGrow
  BY <1>1 DEF DatabasesGrow, Grows, Database
<1>3. IsTable(databases, Slug, Database)
  BY DEF Rows
<1> QED  BY <1>2, <1>3, ExceptIsTable

-----------------------------------------------------------------------------
(* How far a registration and the script have come.                        *)

Working == {"createLog", "check", "execute", "record", "recordExisting", "seed"}

InFiles == {"check", "execute", "record", "recordExisting"}

Early == {"checkSlug", "createTenant", "findDatabase", "createDatabase", "createLog"}

\* Files are logged in order, and those recorded as executed have been.
Progress(call) ==
  /\ call.pc \in Working => call.slug \in DOMAIN databases
  /\ call.adopted => call.pc = "createUser"
  /\ call.pc \in Early => call.m = 1
  /\ call.pc \in InFiles =>
       /\ databases[call.slug].log # "none"
       /\ \A j \in Migration : j < call.m => databases[call.slug].logged[j] # "none"
  /\ call.pc = "record" => Migrated(databases[call.slug], call.m)
  /\ call.pc \in {"seed", "createUser"} /\ ~call.adopted =>
       /\ call.slug \in DOMAIN databases
       /\ \A j \in Migration : databases[call.slug].logged[j] # "none"
  /\ call.pc = "createUser" /\ ~call.adopted =>
       call.email \in databases[call.slug].admins

Bounded ==
  \A s \in DOMAIN databases, m \in Migration : databases[s].done[m] <= Statements[m]

RunnerProgress ==
  /\ runner.pc = "check" => runner.k = 1
  /\ runner.pc \in {"execute", "record", "recordFailed"} => runner.slug \in DOMAIN databases
  /\ runner.pc = "execute" =>
       /\ runner.k <= Statements[runner.m]
       /\ runner.k - 1 <= databases[runner.slug].done[runner.m]
       /\ runner.k > 1 => Applicable(databases[runner.slug], runner.m)
  /\ runner.pc = "record" => Migrated(databases[runner.slug], runner.m)
  /\ runner.pc = "recordFailed" /\ mishaps = 0 => runner.m # 1

DatabaseInv ==
  /\ Rows /\ Bounded /\ RunnerProgress
  /\ \A c \in DOMAIN calls : Progress(calls[c])

\* A statement on one database.
Changes(s, db) ==
  /\ s \in DOMAIN databases /\ db \in Database
  /\ databases' = [databases EXCEPT ![s] = db]
  /\ Grows(databases[s], db)
  /\ \A m \in Migration : db.done[m] <= Statements[m]

LEMMA StatementsAreSome ==
  ASSUME NEW m \in Migration
  PROVE  Statements[m] \in Nat /\ Statements[m] > 0
BY MigrationAssumption

LEMMA ChangesKeep ==
  ASSUME Rows, Bounded, NEW s, NEW db, Changes(s, db)
  PROVE  DatabasesGrow /\ IsTable(databases', Slug, Database) /\ Bounded'
<1>1. DatabasesGrow /\ IsTable(databases', Slug, Database)
  BY OneGrows DEF Changes
<1>2. Bounded'
  BY DEF Changes, Bounded
<1> QED  BY <1>1, <1>2

\* What is known of a database stays true when it grows.
LEMMA MigratedStays ==
  ASSUME Rows, Bounded', IsTable(databases', Slug, Database), DatabasesGrow,
         NEW s \in DOMAIN databases, NEW m \in Migration, Migrated(databases[s], m)
  PROVE  Migrated(databases'[s], m)
<1>1. databases[s] \in Database /\ databases'[s] \in Database
  BY DatabaseIsDatabase, RowOfTable DEF DatabasesGrow
<1>2. /\ databases[s].done[m] <= databases'[s].done[m]
      /\ databases'[s].done[m] <= Statements[m]
  BY DEF DatabasesGrow, Grows, Bounded
<1>3. databases[s].done[m] \in Nat /\ databases'[s].done[m] \in Nat
  BY <1>1 DEF Database
<1> QED  BY <1>2, <1>3, StatementsAreSome DEF Migrated

LEMMA ProgressStays ==
  ASSUME Rows, Bounded', IsTable(databases', Slug, Database), DatabasesGrow,
         NEW call \in RegisterCall, Progress(call)
  PROVE  Progress(call)'
<1>1. call.m \in Migration
  BY DEF RegisterCall
<1>2. call.slug \in DOMAIN databases =>
        /\ call.slug \in DOMAIN databases'
        /\ databases[call.slug].log # "none" => databases'[call.slug].log # "none"
        /\ \A j \in Migration : databases[call.slug].logged[j] # "none" =>
                                databases'[call.slug].logged[j] # "none"
        /\ databases[call.slug].admins \subseteq databases'[call.slug].admins
        /\ Migrated(databases[call.slug], call.m) => Migrated(databases'[call.slug], call.m)
  BY <1>1, MigratedStays DEF DatabasesGrow, Grows
<1>3. \A j : Migrated(databases[call.slug], j)' <=> Migrated(databases'[call.slug], j)
  BY DEF Migrated
<1> QED  BY <1>2, <1>3 DEF Progress, Working, InFiles, Early

\* The script is as far as before when another process has made a database grow.
LEMMA RunnerProgressStays ==
  ASSUME Rows, Bounded', IsTable(databases', Slug, Database), DatabasesGrow,
         RunnerProgress, UNCHANGED runner, mishaps' = 0 => mishaps = 0
  PROVE  RunnerProgress'
<1>1. CASE runner.pc \in {"execute", "record", "recordFailed"}
  <2>1. /\ runner.slug \in DOMAIN databases /\ runner.m \in Migration /\ 1 \in Migration
        /\ runner.k \in Nat
    BY <1>1, MigrationAssumption DEF RunnerProgress, Rows, Runner, Migration
  <2>2. /\ runner.slug \in DOMAIN databases'
        /\ databases[runner.slug].done[runner.m] <= databases'[runner.slug].done[runner.m]
        /\ Migrated(databases[runner.slug], 1) => Migrated(databases'[runner.slug], 1)
        /\ Migrated(databases[runner.slug], runner.m) =>
             Migrated(databases'[runner.slug], runner.m)
    BY <2>1, MigratedStays DEF DatabasesGrow, Grows
  <2>3. /\ databases[runner.slug].done[runner.m] \in Nat
        /\ databases'[runner.slug].done[runner.m] \in Nat
    <3>1. databases[runner.slug] \in Database
      BY <2>1, DatabaseIsDatabase
    <3>2. databases'[runner.slug] \in Database
      BY <2>2, RowOfTable
    <3> QED  BY <2>1, <3>1, <3>2 DEF Database
  <2>4. runner.pc = "execute" => runner.k - 1 <= databases'[runner.slug].done[runner.m]
    BY <2>1, <2>2, <2>3 DEF RunnerProgress
  <2> QED  BY <1>1, <2>1, <2>2, <2>4 DEF RunnerProgress, Applicable, Migrated
<1>2. CASE runner.pc \notin {"execute", "record", "recordFailed"}
  BY <1>2 DEF RunnerProgress
<1> QED  BY <1>1, <1>2

-----------------------------------------------------------------------------
(* The statements of a registration.                                       *)

DatabaseOutcome(s) ==
  \/ UNCHANGED databases
  \/ s \notin DOMAIN databases /\ databases' = Put(databases, s, EmptyDatabase)
  \/ \E db : Changes(s, db)

LEMMA OutcomeKeeps ==
  ASSUME Rows, Bounded, NEW s \in Slug, DatabaseOutcome(s)
  PROVE  DatabasesGrow /\ IsTable(databases', Slug, Database) /\ Bounded'
<1>1. CASE UNCHANGED databases
  BY <1>1, SameGrows DEF Bounded, Rows
<1>2. CASE s \notin DOMAIN databases /\ databases' = Put(databases, s, EmptyDatabase)
  <2>1. EmptyDatabase \in Database
    BY DEF EmptyDatabase, Database, LogLayout
  <2>2. IsTable(databases', Slug, Database)
    BY <1>2, <2>1, PutIsTable DEF Rows
  <2>3. /\ DOMAIN databases' = DOMAIN databases \cup {s}
        /\ \A t \in DOMAIN databases : databases'[t] = databases[t]
        /\ databases'[s] = EmptyDatabase
    BY <1>2 DEF Put
  <2>4. \A t \in DOMAIN databases : databases[t] \in Database
    BY DatabaseIsDatabase
  <2>5. DatabasesGrow
    BY <2>3, <2>4 DEF DatabasesGrow, Grows, Database
  <2>6. Bounded'
    BY <2>3, StatementsAreSome DEF Bounded, EmptyDatabase
  <2> QED  BY <2>2, <2>5, <2>6
<1>3. CASE \E db : Changes(s, db)
  BY <1>3, ChangesKeep
<1> QED  BY <1>1, <1>2, <1>3 DEF DatabaseOutcome

\* What a statement makes of its own call, and of the database.
Outcome(c) ==
  /\ calls' = Drop(calls, c) \/ (Continues(c) /\ Progress(calls[c])')
  /\ DatabaseOutcome(calls[c].slug)

LEMMA OwnFacts ==
  ASSUME DatabaseInv, NEW c \in DOMAIN calls
  PROVE  /\ calls[c] \in RegisterCall /\ Progress(calls[c]) /\ Rows /\ Bounded
         /\ calls[c].slug \in DOMAIN databases => databases[calls[c].slug] \in Database
BY CallIsCall, DatabaseIsDatabase DEF DatabaseInv

LEMMA ThrowOutcome ==
  ASSUME DatabaseInv, NEW c \in DOMAIN calls, calls[c].pc # "createUser", Throw(c),
         UNCHANGED databases
  PROVE  Outcome(c)
<1>1. Progress(calls[c]) /\ Rows
  BY OwnFacts
<1>2. /\ Continues(c) /\ calls'[c].pc = "rollback"
      /\ calls'[c].adopted = calls[c].adopted
  BY <1>1, GotoContinues DEF Throw, CallLabels
<1>3. Progress(calls[c])'
  BY <1>1, <1>2 DEF Progress, Working, InFiles, Early
<1> QED  BY <1>2, <1>3 DEF Outcome, DatabaseOutcome

LEMMA MasterOutcome ==
  ASSUME DatabaseInv, NEW c \in DOMAIN calls,
         CheckSlug(c) \/ CreateTenant(c) \/ Rollback(c) \/ CreateUser(c) \/ FindDatabase(c)
  PROVE  Outcome(c)
<1>1. Progress(calls[c]) /\ Rows /\ calls[c] \in RegisterCall
  BY OwnFacts
<1>2. UNCHANGED databases
  BY DEF CheckSlug, CreateTenant, Rollback, CreateUser, FindDatabase
<1>3. CASE \E label \in {"createTenant", "findDatabase", "createDatabase"} :
             Goto(c, label) /\ calls[c].pc \in Early
  <2>1. PICK label \in {"createTenant", "findDatabase", "createDatabase"} : Goto(c, label)
    BY <1>3
  <2>2. /\ Continues(c) /\ calls'[c].pc = label
        /\ calls'[c].m = calls[c].m /\ calls'[c].adopted = calls[c].adopted
    BY <1>1, <2>1, GotoContinues DEF CallLabels
  <2>3. Progress(calls[c])'
    BY <1>1, <1>3, <2>2 DEF Progress, Working, InFiles, Early
  <2> QED  BY <1>2, <2>2, <2>3 DEF Outcome, DatabaseOutcome
<1>4. CASE calls' = [calls EXCEPT ![c].pc = "createUser", ![c].adopted = TRUE]
  <2>1. Continues(c) /\ calls'[c].pc = "createUser" /\ calls'[c].adopted
    BY <1>1, <1>4 DEF Continues, RegisterCall
  <2>2. Progress(calls[c])'
    BY <2>1 DEF Progress, Working, InFiles, Early
  <2> QED  BY <1>2, <2>1, <2>2 DEF Outcome, DatabaseOutcome
<1>5. CASE Return(c)
  BY <1>2, <1>5 DEF Return, Outcome, DatabaseOutcome
<1> QED
  BY <1>3, <1>4, <1>5 DEF CheckSlug, CreateTenant, Rollback, CreateUser, FindDatabase, At, Early

LEMMA CreateOutcome ==
  ASSUME DatabaseInv, NEW c \in DOMAIN calls, CreateDatabase(c)
  PROVE  Outcome(c)
<1> DEFINE s == calls[c].slug
<1>1. Progress(calls[c]) /\ Rows /\ calls[c].pc = "createDatabase"
  BY OwnFacts DEF CreateDatabase, At
<1>2. CASE Throw(c) /\ UNCHANGED databases
  BY <1>1, <1>2, ThrowOutcome
<1>3. CASE /\ s \notin DOMAIN databases
           /\ databases' = Put(databases, s, EmptyDatabase) /\ Goto(c, "createLog")
  <2>1. /\ Continues(c) /\ calls'[c].pc = "createLog"
        /\ calls'[c].m = calls[c].m /\ calls'[c].adopted = calls[c].adopted
    BY <1>1, <1>3, GotoContinues DEF CallLabels
  <2>2. calls'[c].slug \in DOMAIN databases'
    BY <1>3, <2>1 DEF Continues, Put
  <2>3. Progress(calls[c])'
    BY <1>1, <2>1, <2>2 DEF Progress, Working, InFiles, Early
  <2> QED  BY <1>3, <2>1, <2>3 DEF Outcome, DatabaseOutcome
<1> QED  BY <1>2, <1>3 DEF CreateDatabase

LEMMA CreateLogOutcome ==
  ASSUME DatabaseInv, NEW c \in DOMAIN calls, CreateLog(c)
  PROVE  Outcome(c)
<1> DEFINE s  == calls[c].slug
           db == [databases[s] EXCEPT !.log = IF @ = "none" THEN "status" ELSE @]
<1>1. /\ Progress(calls[c]) /\ Rows /\ Bounded /\ calls[c].pc = "createLog"
      /\ s \in DOMAIN databases /\ databases[s] \in Database /\ calls[c] \in RegisterCall
  BY OwnFacts DEF CreateLog, At, Progress, Working
<1>2. databases' = [databases EXCEPT ![s] = db] /\ Goto(c, "check")
  BY DEF CreateLog
<1>3. Changes(s, db)
  BY <1>1, <1>2 DEF Changes, Grows, Database, LogLayout, Bounded
<1>4. /\ Continues(c) /\ calls'[c].pc = "check"
      /\ calls'[c].m = calls[c].m /\ calls'[c].adopted = calls[c].adopted
  BY <1>1, <1>2, GotoContinues DEF CallLabels
<1>5. databases'[s].log # "none" /\ s \in DOMAIN databases'
  BY <1>1, <1>2 DEF Database, LogLayout
<1>6. \A j \in Migration : ~(j < 1)
  BY DEF Migration
<1>7. calls'[c].m = 1 /\ calls'[c].slug = s /\ ~calls'[c].adopted
  BY <1>1, <1>4 DEF Progress, Early, Continues
<1> HIDE DEF s, db
<1>8. Progress(calls[c])'
  BY <1>4, <1>5, <1>6, <1>7 DEF Progress, Working, InFiles, Early
<1> QED  BY <1>3, <1>4, <1>8 DEF Outcome, DatabaseOutcome, s

\* On to the next file, when this one is in the log.
LEMMA NextMigrationOutcome ==
  ASSUME DatabaseInv, NEW c \in DOMAIN calls, calls[c].pc \in InFiles, NextMigration(c),
         DatabaseOutcome(calls[c].slug),
         databases'[calls[c].slug].logged[calls[c].m] # "none"
  PROVE  Outcome(c)
<1> DEFINE s == calls[c].slug
           m == calls[c].m
<1>1. /\ Progress(calls[c]) /\ Rows /\ Bounded /\ calls[c] \in RegisterCall
      /\ s \in DOMAIN databases /\ s \in Slug /\ m \in Migration /\ ~calls[c].adopted
  BY OwnFacts DEF Progress, Working, InFiles, RegisterCall
<1>2. DatabasesGrow
  BY <1>1, OutcomeKeeps
<1>3. /\ s \in DOMAIN databases' /\ databases'[s].log # "none"
      /\ \A j \in Migration : j < m => databases'[s].logged[j] # "none"
  BY <1>1, <1>2 DEF DatabasesGrow, Grows, Progress
<1>4. /\ Continues(c) /\ ~calls'[c].adopted /\ calls'[c].slug = s
      /\ IF m = LastMigration
           THEN calls'[c].pc = "seed" /\ calls'[c].m = m
           ELSE calls'[c].pc = "check" /\ calls'[c].m = m + 1
  BY <1>1, NextMigrationContinues DEF Continues
<1>5. \A j \in Migration : (j < m + 1 => (j < m \/ j = m)) /\ (m = LastMigration => j < m \/ j = m)
  BY <1>1, MigrationAssumption DEF Migration
<1>6. databases'[s].logged[m] # "none"
  OBVIOUS
<1> HIDE DEF s, m
<1>7. CASE m = LastMigration
  BY <1>3, <1>4, <1>5, <1>6, <1>7 DEF Outcome, Progress, Working, InFiles, Early, s
<1>8. CASE m # LastMigration
  BY <1>3, <1>4, <1>5, <1>6, <1>8 DEF Outcome, Progress, Working, InFiles, Early, s
<1> QED  BY <1>7, <1>8

LEMMA CheckOutcome ==
  ASSUME DatabaseInv, NEW c \in DOMAIN calls, CheckMigration(c)
  PROVE  Outcome(c)
<1>1. /\ Progress(calls[c]) /\ Rows /\ calls[c].pc = "check" /\ UNCHANGED databases
  BY OwnFacts DEF CheckMigration, At
<1>2. CASE NextMigration(c) /\ Db(c).logged[calls[c].m] # "none"
  BY <1>1, <1>2, NextMigrationOutcome DEF Db, InFiles, DatabaseOutcome
<1>3. CASE Goto(c, "execute")
  <2>1. /\ Continues(c) /\ calls'[c].pc = "execute"
        /\ calls'[c].m = calls[c].m /\ calls'[c].adopted = calls[c].adopted
    BY <1>1, <1>3, GotoContinues DEF CallLabels
  <2>2. Progress(calls[c])'
    BY <1>1, <2>1 DEF Progress, Continues, Working, InFiles, Early
  <2> QED  BY <1>1, <2>1, <2>2 DEF Outcome, DatabaseOutcome
<1> QED  BY <1>2, <1>3 DEF CheckMigration

LEMMA ExecuteOutcome ==
  ASSUME DatabaseInv, NEW c \in DOMAIN calls, ExecuteMigration(c)
  PROVE  Outcome(c)
<1> DEFINE s  == calls[c].slug
           m  == calls[c].m
           db == [databases[s] EXCEPT !.done[m] = Statements[m]]
<1>1. /\ Progress(calls[c]) /\ Rows /\ Bounded /\ calls[c].pc = "execute"
      /\ s \in DOMAIN databases /\ databases[s] \in Database
      /\ m \in Migration /\ ~calls[c].adopted /\ s \in Slug
  BY OwnFacts DEF ExecuteMigration, At, Progress, Working, RegisterCall
<1>2. CASE databases' = [databases EXCEPT ![s] = db] /\ Goto(c, "record")
  <2>1. Changes(s, db)
    <3>1. db \in Database
      BY <1>1, StatementsAreSome DEF Database
    <3>2. \A j \in Migration : db.done[j] = IF j = m THEN Statements[m] ELSE databases[s].done[j]
      BY <1>1 DEF Database
    <3>3. \A j \in Migration : /\ databases[s].done[j] <= Statements[j]
                              /\ databases[s].done[j] \in Nat
      BY <1>1 DEF Bounded, Database
    <3>4. Grows(databases[s], db)
      BY <1>1, <3>2, <3>3 DEF Grows, Database
    <3>5. \A j \in Migration : db.done[j] <= Statements[j]
      BY <3>2, <3>3, StatementsAreSome
    <3> QED  BY <1>1, <1>2, <3>1, <3>4, <3>5 DEF Changes
  <2>2. /\ Continues(c) /\ calls'[c].pc = "record" /\ calls'[c].slug = s
        /\ calls'[c].m = m /\ ~calls'[c].adopted
    BY <1>1, <1>2, GotoContinues DEF CallLabels, Continues
  <2>3. /\ s \in DOMAIN databases' /\ databases'[s] = db
        /\ db.log = databases[s].log /\ db.logged = databases[s].logged
        /\ db.done[m] = Statements[m]
    BY <1>1, <1>2 DEF Database
  <2> HIDE DEF s, m, db
  <2>4. Progress(calls[c])'
    BY <1>1, <2>2, <2>3 DEF Progress, Working, InFiles, Early, Migrated, s, m
  <2> QED  BY <2>1, <2>2, <2>4 DEF Outcome, DatabaseOutcome, s
<1>3. CASE Throw(c) /\ UNCHANGED databases
  BY <1>1, <1>3, ThrowOutcome
<1>4. CASE Goto(c, "recordExisting") /\ UNCHANGED databases
  <2>1. /\ Continues(c) /\ calls'[c].pc = "recordExisting"
        /\ calls'[c].m = calls[c].m /\ calls'[c].adopted = calls[c].adopted
    BY <1>1, <1>4, GotoContinues DEF CallLabels
  <2>2. Progress(calls[c])'
    BY <1>1, <1>4, <2>1 DEF Progress, Continues, Working, InFiles, Early
  <2> QED  BY <1>4, <2>1, <2>2 DEF Outcome, DatabaseOutcome
<1>5. databases' = [databases EXCEPT ![s].done[m] = Statements[m]] =>
        databases' = [databases EXCEPT ![s] = db]
  BY <1>1 DEF Database
<1> QED  BY <1>2, <1>3, <1>4, <1>5 DEF ExecuteMigration

\* An entry of the log is written.
LEMMA EntryChanges ==
  ASSUME Rows, Bounded, NEW s \in DOMAIN databases, NEW m \in Migration,
         NEW entry \in {"SUCCESS", "FAILED"},
         databases' = [databases EXCEPT ![s].logged[m] = entry]
  PROVE  /\ DatabaseOutcome(s)
         /\ DOMAIN databases' = DOMAIN databases
         /\ databases'[s].logged = [databases[s].logged EXCEPT ![m] = entry]
         /\ databases'[s].logged[m] = entry
         /\ databases'[s].done = databases[s].done /\ databases'[s].log = databases[s].log
         /\ \A t \in DOMAIN databases \ {s} : databases'[t] = databases[t]
<1> DEFINE db == [databases[s] EXCEPT !.logged[m] = entry]
<1>1. databases[s] \in Database
  BY DatabaseIsDatabase
<1>2. databases' = [databases EXCEPT ![s] = db]
  OBVIOUS
<1>3. /\ db \in Database /\ db.done = databases[s].done /\ db.log = databases[s].log
      /\ db.admins = databases[s].admins
      /\ db.logged = [databases[s].logged EXCEPT ![m] = entry]
  BY <1>1 DEF Database
<1>4. databases[s].logged[m] \in {"none", "SUCCESS", "FAILED"} /\ db.logged[m] = entry
  BY <1>1, <1>3 DEF Database
<1> HIDE DEF db
<1>5. Grows(databases[s], db)
  <2>1. \A j \in Migration : databases[s].done[j] \in Nat
    BY <1>1 DEF Database
  <2>2. \A j \in Migration : databases[s].logged[j] # "none" => db.logged[j] # "none"
    BY <1>1, <1>3 DEF Database
  <2> QED  BY <1>3, <2>1, <2>2 DEF Grows
<1>6. Changes(s, db)
  BY <1>2, <1>3, <1>5 DEF Changes, Bounded
<1> QED  BY <1>2, <1>3, <1>4, <1>6 DEF DatabaseOutcome

LEMMA RecordOutcome ==
  ASSUME DatabaseInv, NEW c \in DOMAIN calls, RecordMigration(c) \/ RecordExisting(c)
  PROVE  Outcome(c)
<1> DEFINE s == calls[c].slug
           m == calls[c].m
<1>1. /\ Rows /\ Bounded /\ calls[c].pc \in InFiles /\ calls[c].pc # "createUser"
      /\ s \in DOMAIN databases /\ databases[s] \in Database /\ m \in Migration
  BY OwnFacts DEF RecordMigration, RecordExisting, At, Progress, Working, InFiles, RegisterCall
<1>2. CASE databases' = [databases EXCEPT ![s].logged[m] = "SUCCESS"] /\ NextMigration(c)
  BY <1>1, <1>2, EntryChanges, NextMigrationOutcome
<1>3. CASE Throw(c) /\ UNCHANGED databases
  BY <1>1, <1>3, ThrowOutcome
<1>4. CASE RecordExisting(c) /\ databases[s].logged[m] # "none"
  <2>1. UNCHANGED databases
    <3> DEFINE logged == [databases[s].logged EXCEPT ![m] = @]
               db     == [databases[s] EXCEPT !.logged = logged]
    <3>1. databases' = [databases EXCEPT ![s] = db]
      BY <1>4 DEF RecordExisting
    <3>2. logged = databases[s].logged
      BY <1>1 DEF Database
    <3>3. db = databases[s]
      BY <1>1, <3>2 DEF Database
    <3>4. databases \in [DOMAIN databases -> Database]
      BY <1>1 DEF Rows, IsTable
    <3> HIDE DEF db, logged
    <3> QED  BY <3>1, <3>3, <3>4
  <2> QED
    BY <1>1, <1>4, <2>1, NextMigrationOutcome DEF RecordExisting, DatabaseOutcome
<1> QED  BY <1>2, <1>3, <1>4 DEF RecordMigration, RecordExisting, Db

LEMMA SeedOutcome ==
  ASSUME DatabaseInv, NEW c \in DOMAIN calls, Seed(c)
  PROVE  Outcome(c)
<1> DEFINE s  == calls[c].slug
           db == [databases[s] EXCEPT !.admins = @ \cup {calls[c].email}]
<1>1. /\ Progress(calls[c]) /\ Rows /\ Bounded /\ calls[c].pc = "seed"
      /\ s \in DOMAIN databases /\ databases[s] \in Database
      /\ calls[c].email \in Email /\ ~calls[c].adopted
  BY OwnFacts DEF Seed, At, Progress, Working, RegisterCall
<1>2. CASE databases' = [databases EXCEPT ![s] = db] /\ Goto(c, "createUser")
  <2>1. Changes(s, db)
    BY <1>1, <1>2 DEF Changes, Grows, Database, Bounded
  <2>2. /\ Continues(c) /\ calls'[c].pc = "createUser" /\ calls'[c].slug = s
        /\ calls'[c].email = calls[c].email /\ ~calls'[c].adopted
    BY <1>1, <1>2, GotoContinues DEF CallLabels, Continues
  <2>3. /\ s \in DOMAIN databases' /\ calls[c].email \in databases'[s].admins
        /\ databases'[s].logged = databases[s].logged
    BY <1>1, <1>2 DEF Database
  <2> HIDE DEF s, db
  <2>4. Progress(calls[c])'
    BY <1>1, <2>2, <2>3 DEF Progress, Working, InFiles, Early, s
  <2> QED  BY <2>1, <2>2, <2>4 DEF Outcome, DatabaseOutcome, s
<1>3. CASE Throw(c) /\ UNCHANGED databases
  BY <1>1, <1>3, ThrowOutcome
<1> QED  BY <1>2, <1>3 DEF Seed

LEMMA CallStepOutcome ==
  ASSUME DatabaseInv, NEW c, CallStep(c)
  PROVE  /\ c \in DOMAIN calls /\ Outcome(c)
         /\ UNCHANGED runner /\ mishaps' \in 0 .. MaxMishaps /\ (mishaps' = 0 => mishaps = 0)
<1>1. c \in DOMAIN calls
  BY DEF CallStep, Step, StatementFails, Die, Free, At, CheckSlug, CreateTenant, FindDatabase,
         CreateDatabase, CreateLog, CheckMigration, ExecuteMigration, RecordMigration,
         RecordExisting, Seed, CreateUser, Rollback
<1>2. mishaps \in Nat /\ mishaps <= MaxMishaps /\ MaxMishaps \in Nat
  BY MigrationAssumption DEF DatabaseInv, Rows
<1>3. CASE Step(c)
  <2>1. Outcome(c)
    BY <1>1, <1>3, MasterOutcome, CreateOutcome, CreateLogOutcome, CheckOutcome,
       ExecuteOutcome, RecordOutcome, SeedOutcome DEF Step
  <2>2. UNCHANGED <<runner, mishaps>>
    BY <1>3 DEF Step, CheckSlug, CreateTenant, FindDatabase, CreateDatabase, CreateLog,
                CheckMigration, ExecuteMigration, RecordMigration, RecordExisting, Seed,
                CreateUser, Rollback
  <2> QED  BY <1>1, <1>2, <2>1, <2>2
<1>4. CASE StatementFails(c)
  <2>1. calls[c].pc # "createUser"
    BY <1>4 DEF StatementFails, InTry, At
  <2> QED  BY <1>1, <1>2, <1>4, <2>1, ThrowOutcome DEF StatementFails
<1>5. CASE Die(c)
  BY <1>1, <1>2, <1>5 DEF Die, Return, Outcome, DatabaseOutcome
<1> QED  BY <1>3, <1>4, <1>5 DEF CallStep

-----------------------------------------------------------------------------
(* The statements of the script.                                           *)

RunnerAction == StartRunner \/ RunnerStep \/ RunnerStatementFails \/ RunnerDies

LEMMA RunnerFields ==
  ASSUME Rows, runner.pc # "idle"
  PROVE  /\ runner.pc \in {"check", "execute", "record", "recordFailed"}
         /\ runner.todo \in SUBSET Slug /\ runner.slug \in Slug
         /\ runner.m \in Migration /\ runner.k \in Nat \ {0}
         /\ \A label \in {"check", "execute", "record", "recordFailed"} :
              /\ [runner EXCEPT !.pc = label] \in Runner
              /\ [runner EXCEPT !.pc = label].slug = runner.slug
              /\ [runner EXCEPT !.pc = label].m = runner.m
              /\ [runner EXCEPT !.pc = label].k = runner.k
              /\ [runner EXCEPT !.pc = label].pc = label
BY DEF Rows, Runner

LEMMA VisitGoesOn ==
  ASSUME NEW todo \in SUBSET Slug, Visit(todo)
  PROVE  /\ runner' \in Runner
         /\ \/ runner'.pc = "check" /\ runner'.m = 1 /\ runner'.k = 1
            \/ runner'.pc = "idle"
<1>1. 1 \in Migration
  BY MigrationAssumption DEF Migration
<1> QED  BY <1>1 DEF Visit, Runner, Idle

\* The next file of the same tenant, or the first of another one.
FileAfter ==
  IF runner.m = LastMigration
    THEN runner'.pc = "idle" \/ (runner'.pc = "check" /\ runner'.m = 1 /\ runner'.k = 1)
    ELSE /\ runner'.pc = "check" /\ runner'.k = 1
         /\ runner'.slug = runner.slug /\ runner'.m = runner.m + 1

LEMMA NextFileGoesOn ==
  ASSUME Rows, runner.pc # "idle", NextFile
  PROVE  runner' \in Runner /\ FileAfter
<1>1. CASE runner.m = LastMigration
  BY <1>1, VisitGoesOn, RunnerFields DEF NextFile, FileAfter
<1>2. CASE runner.m # LastMigration
  <2>1. runner.m + 1 \in Migration
    BY <1>2, RunnerFields, MigrationAssumption DEF Migration
  <2>2. runner' = [runner EXCEPT !.pc = "check", !.m = runner.m + 1, !.k = 1]
    BY <1>2 DEF NextFile
  <2>3. /\ runner' \in Runner /\ runner'.pc = "check" /\ runner'.k = 1
        /\ runner'.slug = runner.slug /\ runner'.m = runner.m + 1
    <3>1. runner \in [pc : {"check", "execute", "record", "recordFailed"}, todo : SUBSET Slug,
                      slug : Slug, m : Migration, k : Nat \ {0}]
      BY DEF Rows, Runner
    <3>2. runner' = [pc |-> "check", todo |-> runner.todo, slug |-> runner.slug,
                     m |-> runner.m + 1, k |-> 1]
      BY <2>2, <3>1
    <3>3. runner.todo \in SUBSET Slug /\ runner.slug \in Slug
      BY <3>1
    <3> QED  BY <2>1, <3>2, <3>3 DEF Runner
  <2> QED  BY <1>2, <2>3 DEF FileAfter
<1> QED  BY <1>1, <1>2

RunnerOutcome ==
  /\ runner' \in Runner /\ RunnerProgress'
  /\ UNCHANGED databases \/ (runner.slug \in Slug /\ DatabaseOutcome(runner.slug))

LEMMA ChecksAreEasy ==
  ASSUME runner'.pc = "idle" \/ (runner'.pc = "check" /\ runner'.k = 1)
  PROVE  RunnerProgress'
BY DEF RunnerProgress

LEMMA CheckRunnerOutcome ==
  ASSUME DatabaseInv, RunnerCheck
  PROVE  RunnerOutcome
<1>1. Rows /\ runner.pc = "check" /\ UNCHANGED databases
  BY DEF DatabaseInv, RunnerCheck, RunnerAt
<1>2. CASE NextFile
  BY <1>1, <1>2, NextFileGoesOn, ChecksAreEasy DEF FileAfter, RunnerOutcome
<1>3. CASE /\ runner' = [runner EXCEPT !.pc = "execute"]
           /\ runner.slug \in DOMAIN databases
  <2>1. /\ runner' \in Runner /\ runner'.pc = "execute" /\ runner'.slug = runner.slug
        /\ runner'.m = runner.m /\ runner'.k = runner.k
    BY <1>1, <1>3, RunnerFields
  <2>2. runner.m \in Migration /\ databases[runner.slug] \in Database
    BY <1>1, <1>3, RunnerFields, DatabaseIsDatabase
  <2>3. databases[runner.slug].done[runner.m] \in Nat
    BY <2>2 DEF Database
  <2>4. runner.k = 1
    BY <1>1 DEF DatabaseInv, RunnerProgress
  <2>5. RunnerProgress'
    BY <1>1, <1>3, <2>1, <2>2, <2>3, <2>4, StatementsAreSome DEF RunnerProgress
  <2> QED  BY <1>1, <2>1, <2>5 DEF RunnerOutcome
<1> QED  BY <1>2, <1>3 DEF RunnerCheck

LEMMA ExecuteRunnerOutcome ==
  ASSUME DatabaseInv, RunnerExecute
  PROVE  RunnerOutcome
<1> DEFINE s    == runner.slug
           m    == runner.m
           k    == runner.k
           n    == IF databases[s].done[m] < k THEN k ELSE databases[s].done[m]
           done == [databases[s].done EXCEPT ![m] = n]
           log  == IF m = LogMigration /\ databases[s].log = "none"
                     THEN "success" ELSE databases[s].log
           db   == [databases[s] EXCEPT !.done = done, !.log = log]
<1>1. /\ Rows /\ Bounded /\ RunnerProgress /\ runner.pc = "execute"
      /\ s \in DOMAIN databases /\ s \in Slug /\ m \in Migration /\ k \in Nat \ {0}
      /\ databases[s] \in Database
  BY RunnerFields, DatabaseIsDatabase
     DEF DatabaseInv, RunnerExecute, RunnerAt, RunnerProgress
<1>2. /\ k <= Statements[m] /\ k - 1 <= databases[s].done[m]
      /\ databases[s].done[m] \in Nat /\ databases[s].done[m] <= Statements[m]
      /\ Statements[m] \in Nat
  BY <1>1, StatementsAreSome DEF RunnerProgress, Bounded, Database
<1>3. CASE ~Applicable(databases[s], m) /\ runner' = [runner EXCEPT !.pc = "recordFailed"]
           /\ UNCHANGED <<databases, mishaps>>
  <2>1. m # 1
    BY <1>3 DEF Applicable
  <2>2. /\ runner' \in Runner /\ runner'.pc = "recordFailed"
        /\ runner'.slug = s /\ runner'.m = m
    BY <1>1, <1>3, RunnerFields
  <2> HIDE DEF s, m, k, db
  <2>3. RunnerProgress'
    BY <1>1, <1>3, <2>1, <2>2 DEF RunnerProgress
  <2> QED  BY <1>3, <2>2, <2>3 DEF RunnerOutcome
<1>4. CASE /\ Applicable(databases[s], m) /\ databases' = [databases EXCEPT ![s] = db]
           /\ runner' = IF k = Statements[m]
                          THEN [runner EXCEPT !.pc = "record"]
                          ELSE [runner EXCEPT !.k = @ + 1]
  <2>1. /\ n \in Nat /\ n <= Statements[m] /\ databases[s].done[m] <= n
        /\ k = Statements[m] => n = Statements[m]
        /\ k # Statements[m] => k + 1 <= Statements[m] /\ (k + 1) - 1 <= n
    BY <1>1, <1>2
  <2>2. /\ db \in Database /\ db.done = done /\ db.log = log
        /\ db.logged = databases[s].logged /\ db.admins = databases[s].admins
    <3> HIDE DEF n, log
    <3>1. done \in [Migration -> Nat]
      BY <1>1, <2>1 DEF Database
    <3>2. log \in LogLayout
      BY <1>1 DEF Database, LogLayout, log
    <3> HIDE DEF done
    <3> QED  BY <1>1, <3>1, <3>2 DEF Database
  <2>3. done[m] = n /\ (\A j \in Migration \ {m} : done[j] = databases[s].done[j])
    BY <1>1 DEF Database
  <2>4. databases[s].log # "none" => log = databases[s].log
    OBVIOUS
  <2> HIDE DEF n, log, done, db
  <2>5. Changes(s, db)
    <3>1. \A j \in Migration : databases[s].done[j] \in Nat /\ databases[s].done[j] <= Statements[j]
      BY <1>1 DEF Database, Bounded
    <3>2. \A j \in Migration : done[j] = IF j = m THEN n ELSE databases[s].done[j]
      BY <2>3
    <3>3. Grows(databases[s], db)
      BY <2>1, <2>2, <2>4, <3>1, <3>2 DEF Grows
    <3> QED  BY <1>1, <1>4, <2>1, <2>2, <3>1, <3>2, <3>3 DEF Changes
  <2>6. DatabaseOutcome(s)
    BY <2>5 DEF DatabaseOutcome
  <2>7. s \in DOMAIN databases' /\ databases'[s].done[m] = n
    BY <1>1, <1>4, <2>2, <2>3
  <2>8. CASE k = Statements[m]
    <3>1. /\ runner' \in Runner /\ runner'.pc = "record" /\ runner'.slug = s /\ runner'.m = m
      BY <1>1, <1>4, <2>8, RunnerFields
    <3> HIDE DEF s, m, k
    <3>2. RunnerProgress'
      BY <2>1, <2>7, <2>8, <3>1 DEF RunnerProgress, Migrated
    <3> QED  BY <1>1, <2>6, <3>1, <3>2 DEF RunnerOutcome, s
  <2>9. CASE k # Statements[m]
    <3>1. /\ runner' \in Runner /\ runner'.pc = "execute" /\ runner'.slug = s
          /\ runner'.m = m /\ runner'.k = k + 1
      BY <1>1, <1>4, <2>9 DEF Rows, Runner
    <3>2. Applicable(databases'[s], m)
      <4>1. Migrated(databases[s], 1) => Migrated(databases'[s], 1)
        <5>1. 1 \in Migration
          BY MigrationAssumption DEF Migration
        <5> QED  BY <1>1, <2>6, <5>1, OutcomeKeeps, MigratedStays
      <4> QED  BY <1>4, <4>1 DEF Applicable
    <3> HIDE DEF s, m, k
    <3>3. RunnerProgress'
      BY <2>1, <2>7, <2>9, <3>1, <3>2 DEF RunnerProgress, Applicable, Migrated
    <3> QED  BY <1>1, <2>6, <3>1, <3>3 DEF RunnerOutcome, s
  <2> QED  BY <2>8, <2>9
<1>5. \/ /\ ~Applicable(databases[s], m) /\ runner' = [runner EXCEPT !.pc = "recordFailed"]
         /\ UNCHANGED databases
      \/ /\ Applicable(databases[s], m)
         /\ databases' = [databases EXCEPT
               ![s].done[m] = IF @ < k THEN k ELSE @,
               ![s].log = IF m = LogMigration /\ @ = "none" THEN "success" ELSE @]
         /\ runner' = IF k = Statements[m]
                        THEN [runner EXCEPT !.pc = "record"]
                        ELSE [runner EXCEPT !.k = @ + 1]
  BY DEF RunnerExecute
<1> QED  BY <1>1, <1>3, <1>4, <1>5 DEF RunnerExecute

LEMMA RecordRunnerOutcome ==
  ASSUME DatabaseInv, RunnerRecord
  PROVE  RunnerOutcome
<1> DEFINE s     == runner.slug
           m     == runner.m
           entry == IF RunnerAt("record") THEN "SUCCESS" ELSE "FAILED"
<1>1. /\ Rows /\ Bounded /\ runner.pc # "idle" /\ s \in DOMAIN databases
      /\ s \in Slug /\ m \in Migration
  BY RunnerFields DEF DatabaseInv, RunnerRecord, RunnerProgress
<1>2. runner' \in Runner /\ RunnerProgress'
  BY <1>1, NextFileGoesOn, ChecksAreEasy DEF RunnerRecord, FileAfter
<1>3. UNCHANGED databases \/ DatabaseOutcome(s)
  <2>1. CASE databases' = [databases EXCEPT ![s].logged[m] = entry]
    BY <1>1, <2>1, EntryChanges
  <2> QED  BY <2>1 DEF RunnerRecord
<1> QED  BY <1>1, <1>2, <1>3 DEF RunnerOutcome

LEMMA RunnerActionOutcome ==
  ASSUME DatabaseInv, RunnerAction
  PROVE  /\ RunnerOutcome /\ UNCHANGED <<tenants, users, calls>>
         /\ mishaps' \in 0 .. MaxMishaps /\ (mishaps' = 0 => mishaps = 0)
<1>1. Rows /\ mishaps \in Nat /\ mishaps <= MaxMishaps /\ MaxMishaps \in Nat
  BY MigrationAssumption DEF DatabaseInv, Rows
<1>2. CASE StartRunner
  <2>1. DOMAIN tenants \in SUBSET Slug
    BY <1>1 DEF Rows, IsTable
  <2> QED
    BY <1>1, <1>2, <2>1, VisitGoesOn, ChecksAreEasy DEF StartRunner, RunnerOutcome
<1>3. CASE RunnerStep
  BY <1>1, <1>3, CheckRunnerOutcome, ExecuteRunnerOutcome, RecordRunnerOutcome
     DEF RunnerStep, RunnerCheck, RunnerExecute, RunnerRecord
<1>4. CASE RunnerStatementFails
  <2>1. /\ runner.pc = "execute" /\ runner' = [runner EXCEPT !.pc = "recordFailed"]
        /\ mishaps' = mishaps + 1 /\ UNCHANGED databases
        /\ UNCHANGED <<tenants, users, calls>> /\ mishaps < MaxMishaps
    BY <1>4 DEF RunnerStatementFails, RunnerAt
  <2>2. runner' \in Runner /\ runner'.pc = "recordFailed" /\ runner'.slug = runner.slug
    BY <1>1, <2>1, RunnerFields
  <2>3. RunnerProgress'
    BY <1>1, <2>1, <2>2 DEF RunnerProgress, DatabaseInv
  <2> QED  BY <1>1, <2>1, <2>2, <2>3 DEF RunnerOutcome
<1>5. CASE RunnerDies
  <2>1. runner' \in Runner /\ runner'.pc = "idle"
    BY <1>5 DEF RunnerDies, Idle, Runner
  <2> QED
    BY <1>1, <1>5, <2>1, ChecksAreEasy DEF RunnerDies, RunnerOutcome
<1> QED  BY <1>2, <1>3, <1>4, <1>5 DEF RunnerAction

-----------------------------------------------------------------------------
(* The tenant databases.                                                   *)

\* The rows of the master database are written with the right types.
LEMMA MasterRows ==
  ASSUME DatabaseInv, NEW c, CallStep(c)
  PROVE  IsTable(tenants', Slug, Email) /\ IsTable(users', Email, Slug)
<1>1. /\ c \in DOMAIN calls /\ calls[c] \in RegisterCall
      /\ IsTable(tenants, Slug, Email) /\ IsTable(users, Email, Slug)
  BY CallStepOutcome, OwnFacts DEF DatabaseInv, Rows
<1>2. calls[c].slug \in Slug /\ calls[c].email \in Email
  BY <1>1 DEF RegisterCall
<1>3. CASE CreateTenant(c)
  BY <1>1, <1>2, <1>3, PutIsTable DEF CreateTenant
<1>4. CASE Rollback(c)
  BY <1>1, <1>4, DropIsTable DEF Rollback, IsTable
<1>5. CASE CreateUser(c)
  BY <1>1, <1>2, <1>5, PutIsTable DEF CreateUser
<1>6. CASE ~(CreateTenant(c) \/ Rollback(c) \/ CreateUser(c))
  BY <1>1, <1>6 DEF CallStep, Step, StatementFails, Die, CheckSlug, FindDatabase, CreateDatabase,
                    CreateLog, CheckMigration, ExecuteMigration, RecordMigration,
                    RecordExisting, Seed
<1> QED  BY <1>3, <1>4, <1>5, <1>6

LEMMA CallStepKeeps ==
  ASSUME DatabaseInv, NEW c, CallStep(c)
  PROVE  DatabaseInv' /\ DatabasesGrow
<1>1. /\ c \in DOMAIN calls /\ Outcome(c) /\ UNCHANGED runner
      /\ mishaps' \in 0 .. MaxMishaps /\ (mishaps' = 0 => mishaps = 0)
  BY CallStepOutcome
<1>2. Rows /\ Bounded /\ calls[c].slug \in Slug
  BY <1>1, OwnFacts DEF RegisterCall
<1>3. DatabasesGrow /\ IsTable(databases', Slug, Database) /\ Bounded'
  BY <1>1, <1>2, OutcomeKeeps DEF Outcome
<1>4. IsTable(calls', Call, RegisterCall)
  <2>1. CASE calls' = Drop(calls, c)
    BY <1>2, <2>1, DropIsTable DEF Rows
  <2>2. CASE Continues(c)
    <3>1. PICK call \in RegisterCall : calls' = [calls EXCEPT ![c] = call]
      BY <1>1, <2>2 DEF Continues
    <3> QED  BY <1>1, <1>2, <3>1, ExceptIsTable DEF Rows
  <2> QED  BY <1>1, <2>1, <2>2 DEF Outcome
<1>5. Rows'
  BY <1>1, <1>2, <1>3, <1>4, MasterRows DEF Rows
<1>6. ASSUME NEW d \in DOMAIN calls'
      PROVE  Progress(calls[d])'
  <2>1. CASE d = c
    BY <1>1, <1>6, <2>1 DEF Outcome, Drop
  <2>2. CASE d # c
    <3>1. d \in DOMAIN calls /\ calls'[d] = calls[d]
      BY <1>1, <1>6, <2>2 DEF Outcome, Drop, Continues
    <3>2. calls[d] \in RegisterCall /\ Progress(calls[d])
      BY <3>1, OwnFacts
    <3>3. PICK call \in RegisterCall : call = calls[d]
      BY <3>2
    <3>4. Progress(call)'
      BY <1>2, <1>3, <3>2, <3>3, ProgressStays
    <3> QED  BY <3>1, <3>3, <3>4 DEF Progress
  <2> QED  BY <2>1, <2>2
<1>7. RunnerProgress'
  BY <1>1, <1>2, <1>3, RunnerProgressStays DEF DatabaseInv
<1> QED  BY <1>3, <1>5, <1>6, <1>7 DEF DatabaseInv

LEMMA RegisterKeeps ==
  ASSUME DatabaseInv, NEW c \in Call, NEW s \in Slug, NEW e \in Email, Register(c, s, e)
  PROVE  DatabaseInv' /\ DatabasesGrow
<1> DEFINE call == [pc |-> "checkSlug", slug |-> s, email |-> e, m |-> 1, adopted |-> FALSE]
<1>1. /\ calls' = Put(calls, c, call)
      /\ UNCHANGED <<tenants, users, databases, runner, mishaps>>
  BY DEF Register
<1>2. call \in RegisterCall
  BY MigrationAssumption DEF RegisterCall, Migration
<1>3. Rows /\ Bounded /\ RunnerProgress
  BY DEF DatabaseInv
<1>4. Rows'
  BY <1>1, <1>2, <1>3, PutIsTable DEF Rows
<1>5. \A d \in DOMAIN calls' : calls'[d] = call \/ (d \in DOMAIN calls /\ calls'[d] = calls[d])
  BY <1>1 DEF Put
<1>6. ASSUME NEW d \in DOMAIN calls'
      PROVE  Progress(calls[d])'
  <2>1. CASE calls'[d] = call
    BY <2>1 DEF Progress, Working, InFiles, Early
  <2>2. CASE d \in DOMAIN calls /\ calls'[d] = calls[d]
    <3>1. Progress(calls[d])
      BY <2>2 DEF DatabaseInv
    <3> QED  BY <1>1, <2>2, <3>1 DEF Progress, Migrated
  <2> QED  BY <1>5, <1>6, <2>1, <2>2
<1>7. Bounded' /\ RunnerProgress' /\ DatabasesGrow
  BY <1>1, <1>3, SameGrows DEF Bounded, RunnerProgress, Migrated, Applicable
<1> QED  BY <1>4, <1>6, <1>7 DEF DatabaseInv

LEMMA RunnerActionKeeps ==
  ASSUME DatabaseInv, RunnerAction
  PROVE  DatabaseInv' /\ DatabasesGrow
<1>1. /\ RunnerOutcome /\ UNCHANGED <<tenants, users, calls>>
      /\ mishaps' \in 0 .. MaxMishaps
  BY RunnerActionOutcome
<1>2. Rows /\ Bounded
  BY DEF DatabaseInv
<1>3. DatabasesGrow /\ IsTable(databases', Slug, Database) /\ Bounded'
  BY <1>1, <1>2, SameGrows, OutcomeKeeps DEF RunnerOutcome, Rows, Bounded
<1>4. Rows'
  BY <1>1, <1>2, <1>3 DEF Rows, RunnerOutcome
<1>5. ASSUME NEW d \in DOMAIN calls
      PROVE  Progress(calls[d])'
  <2>1. PICK call \in RegisterCall : call = calls[d] /\ Progress(call)
    BY OwnFacts
  <2>2. Progress(call)'
    BY <1>2, <1>3, <2>1, ProgressStays
  <2> QED  BY <1>1, <2>1, <2>2 DEF Progress
<1> QED  BY <1>1, <1>3, <1>4, <1>5 DEF DatabaseInv, RunnerOutcome

\* The steps of the specification.
LEMMA NextIsOneOfThree ==
  ASSUME [Next]_vars
  PROVE  \/ \E c \in Call, s \in Slug, e \in Email : Register(c, s, e)
         \/ \E c \in Call : CallStep(c)
         \/ RunnerAction
         \/ UNCHANGED vars
BY DEF Next, Mishap, CallStep, RunnerAction

LEMMA DatabaseKept ==
  ASSUME DatabaseInv, [Next]_vars
  PROVE  DatabaseInv' /\ DatabasesGrow
<1>1. CASE UNCHANGED vars
  <2>1. DatabasesGrow
    BY <1>1, SameGrows DEF DatabaseInv, vars
  <2>2. DatabaseInv'
    BY <1>1 DEF vars, DatabaseInv, Rows, Bounded, RunnerProgress, Progress, Migrated, Applicable
  <2> QED  BY <2>1, <2>2
<1> QED  BY <1>1, NextIsOneOfThree, RegisterKeeps, CallStepKeeps, RunnerActionKeeps

LEMMA DatabaseInit == Init => DatabaseInv
<1>1. SUFFICES ASSUME Init
               PROVE  DatabaseInv
  OBVIOUS
<1>2. Rows
  BY <1>1, EmptyTable, MigrationAssumption DEF Init, Rows, Runner
<1> QED  BY <1>1, <1>2 DEF Init, DatabaseInv, Bounded, RunnerProgress

-----------------------------------------------------------------------------
(* The rows of the master database.                                        *)

\* A registration that has written its tenant.
Owner(c) == calls[c].pc \notin {"checkSlug", "createTenant"}

\* A tenant belongs to one registration at a time, and a user to the tenant of
\* the same email.
MasterInv ==
  /\ \A c \in DOMAIN calls :
       Owner(c) => /\ calls[c].slug \in DOMAIN tenants
                   /\ tenants[calls[c].slug] = calls[c].email
  /\ \A c, d \in DOMAIN calls :
       Owner(c) /\ Owner(d) /\ calls[c].slug = calls[d].slug => c = d
  /\ \A s, t \in DOMAIN tenants : tenants[s] = tenants[t] => s = t
  /\ \A e \in DOMAIN users : users[e] \in DOMAIN tenants /\ tenants[users[e]] = e

\* Only the INSERT of the tenant makes an owner.
LEMMA OwnersStay ==
  ASSUME DatabaseInv, NEW c, CallStep(c), ~CreateTenant(c)
  PROVE  \A d \in DOMAIN calls' :
           /\ d \in DOMAIN calls
           /\ calls'[d].slug = calls[d].slug /\ calls'[d].email = calls[d].email
           /\ Owner(d)' => Owner(d)
<1>1. c \in DOMAIN calls /\ Outcome(c) /\ Rows
  BY CallStepOutcome DEF DatabaseInv
<1>2. CASE calls' = Drop(calls, c)
  BY <1>2 DEF Drop, Owner
<1>3. CASE Continues(c)
  <2>1. ~Owner(c) => ~Owner(c)'
    <3>1. ~Owner(c) => CheckSlug(c) \/ Die(c)
      BY DEF Owner, CallStep, Step, StatementFails, InTry, At, FindDatabase, CreateDatabase,
             CreateLog, CheckMigration, ExecuteMigration, RecordMigration, RecordExisting,
             Seed, CreateUser, Rollback
    <3>2. CheckSlug(c) \/ Die(c) => Goto(c, "createTenant")
      BY <1>1, <1>3 DEF CheckSlug, Die, Return, Drop, Continues
    <3>3. Goto(c, "createTenant") => calls'[c].pc = "createTenant"
      BY <1>1, GotoContinues DEF CallLabels
    <3> QED  BY <3>1, <3>2, <3>3 DEF Owner
  <2> QED  BY <1>3, <2>1 DEF Continues, Owner
<1> QED  BY <1>1, <1>2, <1>3 DEF Outcome

LEMMA CallStepKeepsMaster ==
  ASSUME DatabaseInv, MasterInv, NEW c, CallStep(c)
  PROVE  MasterInv'
<1>1. c \in DOMAIN calls /\ Rows
  BY CallStepOutcome DEF DatabaseInv
<1>2. CASE CreateTenant(c) /\ tenants' = Put(tenants, calls[c].slug, calls[c].email)
           /\ Goto(c, "findDatabase")
  <2>1. /\ calls[c].slug \notin DOMAIN tenants
        /\ \A s \in DOMAIN tenants : tenants[s] # calls[c].email
    <3>1. calls'[c].pc = "findDatabase" /\ c \in DOMAIN calls'
      BY <1>1, <1>2, GotoContinues DEF CallLabels, Continues
    <3> QED  BY <1>2, <3>1 DEF CreateTenant, Return, Drop
  <2>2. Continues(c) /\ UNCHANGED users
    BY <1>1, <1>2, GotoContinues DEF CallLabels, CreateTenant
  <2>3. /\ DOMAIN tenants' = DOMAIN tenants \cup {calls[c].slug}
        /\ \A s \in DOMAIN tenants : tenants'[s] = tenants[s]
        /\ tenants'[calls[c].slug] = calls[c].email
    BY <1>2, <2>1 DEF Put
  <2>4. \A d \in DOMAIN calls' :
          /\ d \in DOMAIN calls
          /\ calls'[d].slug = calls[d].slug /\ calls'[d].email = calls[d].email
          /\ d # c => (Owner(d)' <=> Owner(d))
    BY <2>2 DEF Continues, Owner
  <2>5. \A d \in DOMAIN calls : Owner(d) => calls[d].slug # calls[c].slug
    BY <2>1 DEF MasterInv
  <2>6. \A d \in DOMAIN calls' :
          Owner(d)' => /\ calls'[d].slug \in DOMAIN tenants'
                       /\ tenants'[calls'[d].slug] = calls'[d].email
    BY <2>3, <2>4 DEF MasterInv
  <2>7. \A d1, d2 \in DOMAIN calls' :
          Owner(d1)' /\ Owner(d2)' /\ calls'[d1].slug = calls'[d2].slug => d1 = d2
    BY <2>4, <2>5 DEF MasterInv
  <2>8. /\ \A s, t \in DOMAIN tenants' : tenants'[s] = tenants'[t] => s = t
        /\ \A e \in DOMAIN users' : users'[e] \in DOMAIN tenants' /\ tenants'[users'[e]] = e
    BY <2>1, <2>2, <2>3 DEF MasterInv
  <2> QED  BY <2>6, <2>7, <2>8 DEF MasterInv
<1>3. CASE CreateTenant(c) /\ Return(c) /\ UNCHANGED tenants
  BY <1>3 DEF CreateTenant, Return, Drop, MasterInv, Owner
<1>4. CASE Rollback(c)
  <2>1. /\ DOMAIN tenants' = DOMAIN tenants \ {calls[c].slug}
        /\ \A s \in DOMAIN tenants' : tenants'[s] = tenants[s]
        /\ DOMAIN users' = {e \in DOMAIN users : users[e] # calls[c].slug}
        /\ \A e \in DOMAIN users' : users'[e] = users[e]
        /\ DOMAIN calls' = DOMAIN calls \ {c}
        /\ \A d \in DOMAIN calls' : calls'[d] = calls[d] /\ (Owner(d)' <=> Owner(d))
    BY <1>4 DEF Rollback, Drop, Return, Owner
  <2>2. Owner(c)
    BY <1>4 DEF Rollback, At, Owner
  <2>3. \A d \in DOMAIN calls' : Owner(d) => calls[d].slug # calls[c].slug
    BY <1>1, <2>1, <2>2 DEF MasterInv
  <2> QED  BY <2>1, <2>3 DEF MasterInv
<1>5. CASE CreateUser(c)
  <2>1. Owner(c)
    BY <1>5 DEF CreateUser, At, Owner
  <2>2. calls[c].slug \in DOMAIN tenants /\ tenants[calls[c].slug] = calls[c].email
    BY <1>1, <2>1 DEF MasterInv
  <2>3. /\ UNCHANGED tenants /\ DOMAIN calls' = DOMAIN calls \ {c}
        /\ \A d \in DOMAIN calls' : calls'[d] = calls[d] /\ (Owner(d)' <=> Owner(d))
    BY <1>5 DEF CreateUser, Return, Drop, Owner
  <2>4. \A e \in DOMAIN users' :
          \/ e = calls[c].email /\ users'[e] = calls[c].slug
          \/ e \in DOMAIN users /\ users'[e] = users[e]
    BY <1>5 DEF CreateUser, Put
  <2> QED  BY <2>2, <2>3, <2>4 DEF MasterInv
<1>6. CASE ~(CreateTenant(c) \/ Rollback(c) \/ CreateUser(c))
  <2>1. UNCHANGED <<tenants, users>>
    BY <1>6 DEF CallStep, Step, StatementFails, Die, CheckSlug, FindDatabase, CreateDatabase,
                CreateLog, CheckMigration, ExecuteMigration, RecordMigration,
                RecordExisting, Seed
  <2> QED  BY <1>6, <2>1, OwnersStay DEF MasterInv
<1> QED  BY <1>2, <1>3, <1>4, <1>5, <1>6 DEF CreateTenant

LEMMA MasterKept ==
  ASSUME DatabaseInv, MasterInv, [Next]_vars
  PROVE  MasterInv'
<1>1. ASSUME NEW c \in Call, NEW s \in Slug, NEW e \in Email, Register(c, s, e)
      PROVE  MasterInv'
  <2>1. /\ UNCHANGED <<tenants, users>> /\ calls'[c].pc = "checkSlug"
        /\ \A d \in DOMAIN calls' \ {c} : d \in DOMAIN calls /\ calls'[d] = calls[d]
    BY <1>1 DEF Register, Put
  <2>2. \A d \in DOMAIN calls' : Owner(d)' =>
          d \in DOMAIN calls /\ calls'[d] = calls[d] /\ Owner(d)
    BY <2>1 DEF Owner
  <2> QED  BY <2>1, <2>2 DEF MasterInv
<1>2. CASE RunnerAction
  <2>1. UNCHANGED <<tenants, users, calls>>
    BY <1>2, RunnerActionOutcome
  <2> QED  BY <2>1 DEF MasterInv, Owner
<1>3. CASE UNCHANGED vars
  BY <1>3 DEF MasterInv, Owner, vars
<1> QED  BY <1>1, <1>2, <1>3, NextIsOneOfThree, CallStepKeepsMaster

LEMMA MasterInit == Init => MasterInv
BY DEF Init, MasterInv

\* The two halves together are inductive.
LEMMA Invariant == Spec => [](DatabaseInv /\ MasterInv)
<1>1. Init => DatabaseInv /\ MasterInv
  BY DatabaseInit, MasterInit
<1>2. DatabaseInv /\ MasterInv /\ [Next]_vars => (DatabaseInv /\ MasterInv)'
  BY DatabaseKept, MasterKept
<1> QED  BY <1>1, <1>2, PTL DEF Spec

\* Every row has its type, a user of the master database has a tenant there,
\* and no file has more statements executed than it has.
THEOREM TypesAreRight == Spec => []TypeOK
<1>1. DatabaseInv /\ MasterInv => TypeOK
  BY DEF DatabaseInv, MasterInv, Rows, Bounded, TypeOK
<1> QED  BY <1>1, Invariant, PTL

-----------------------------------------------------------------------------
(* Tenants have their user.                                                *)

\* A registration that has written its tenant goes on, apart from its last
\* write and its rollback.
LEMMA OwnersRemain ==
  ASSUME DatabaseInv, NEW c, CallStep(c), mishaps' = 0,
         ~(CreateTenant(c) \/ Rollback(c) \/ CreateUser(c))
  PROVE  \A d \in DOMAIN calls :
           Owner(d) => d \in DOMAIN calls' /\ calls'[d].slug = calls[d].slug /\ Owner(d)'
<1>1. c \in DOMAIN calls /\ Rows /\ calls[c] \in RegisterCall /\ mishaps \in Nat
  BY CallStepOutcome, OwnFacts DEF Rows
<1>2. ~StatementFails(c) /\ ~Die(c)
  BY <1>1 DEF StatementFails, Die
<1>3. CASE CheckSlug(c)
  <2>1. \A d \in DOMAIN calls \ {c} : d \in DOMAIN calls' /\ calls'[d] = calls[d]
    BY <1>3 DEF CheckSlug, Return, Drop, Goto
  <2>2. ~Owner(c)
    BY <1>3 DEF CheckSlug, At, Owner
  <2> QED  BY <2>1, <2>2 DEF Owner
<1>4. CASE FindDatabase(c) /\ ~Goto(c, "createDatabase")
  <2>1. calls' = [calls EXCEPT ![c].pc = "createUser", ![c].adopted = TRUE]
    BY <1>4 DEF FindDatabase
  <2>2. /\ DOMAIN calls' = DOMAIN calls
        /\ calls'[c].slug = calls[c].slug /\ calls'[c].pc = "createUser"
        /\ \A d \in DOMAIN calls \ {c} : calls'[d] = calls[d]
    BY <1>1, <2>1 DEF RegisterCall
  <2> QED  BY <2>2 DEF Owner
<1>5. CASE NextMigration(c) \/ \E label \in CallLabels \ {"checkSlug", "createTenant"} :
                                 Goto(c, label)
  <2>1. Continues(c) /\ calls'[c].pc \notin {"checkSlug", "createTenant"}
    BY <1>1, <1>5, GotoContinues, NextMigrationContinues
  <2> QED  BY <1>1, <2>1 DEF Continues, Owner
<1> QED
  BY <1>2, <1>3, <1>4, <1>5
     DEF CallStep, Step, Throw, FindDatabase, CreateDatabase, CreateLog, CheckMigration,
         ExecuteMigration, RecordMigration, RecordExisting, Seed, CallLabels

LEMMA UsersKept ==
  ASSUME DatabaseInv, MasterInv, TenantsHaveTheirUser, NEW c, CallStep(c)
  PROVE  TenantsHaveTheirUser'
<1> SUFFICES ASSUME mishaps' = 0, NEW s \in DOMAIN tenants'
             PROVE  \/ \E e \in DOMAIN users' : users'[e] = s
                    \/ \E d \in DOMAIN calls' : calls'[d].slug = s /\ Owner(d)'
  <2>1. mishaps' \in Nat
    BY CallStepOutcome
  <2> QED  BY <2>1 DEF TenantsHaveTheirUser, Owner
<1>1. c \in DOMAIN calls /\ Rows /\ mishaps = 0
  BY CallStepOutcome DEF DatabaseInv
<1>2. s \in DOMAIN tenants =>
        \/ \E e \in DOMAIN users : users[e] = s
        \/ \E d \in DOMAIN calls : calls[d].slug = s /\ Owner(d)
  BY <1>1 DEF TenantsHaveTheirUser, Owner
<1>3. CASE CreateTenant(c)
  <2>1. UNCHANGED users /\ ~Owner(c)
    BY <1>3 DEF CreateTenant, At, Owner
  <2>2. \A d \in DOMAIN calls \ {c} : d \in DOMAIN calls' /\ calls'[d] = calls[d]
    BY <1>3 DEF CreateTenant, Return, Drop, Goto
  <2>3. CASE s \in DOMAIN tenants
    BY <1>2, <2>1, <2>2, <2>3 DEF Owner
  <2>4. CASE s \notin DOMAIN tenants
    <3>1. s = calls[c].slug /\ Goto(c, "findDatabase")
      BY <1>3, <2>4 DEF CreateTenant, Put
    <3>2. c \in DOMAIN calls' /\ calls'[c].slug = s /\ calls'[c].pc = "findDatabase"
      BY <1>1, <3>1, GotoContinues DEF CallLabels, Continues
    <3> QED  BY <3>2 DEF Owner
  <2> QED  BY <2>3, <2>4
<1>4. CASE Rollback(c)
  <2>1. /\ s \in DOMAIN tenants /\ s # calls[c].slug
        /\ \A e \in DOMAIN users : users[e] = s => e \in DOMAIN users' /\ users'[e] = s
        /\ \A d \in DOMAIN calls \ {c} : d \in DOMAIN calls' /\ calls'[d] = calls[d]
    BY <1>4 DEF Rollback, Return, Drop
  <2> QED  BY <1>2, <2>1 DEF Owner
<1>5. CASE CreateUser(c)
  <2>1. /\ s \in DOMAIN tenants
        /\ \A e \in DOMAIN users : e \in DOMAIN users' /\ users'[e] = users[e]
        /\ \A d \in DOMAIN calls \ {c} : d \in DOMAIN calls' /\ calls'[d] = calls[d]
        /\ calls[c].email \in DOMAIN users'
        /\ calls[c].email \in DOMAIN users \/ users'[calls[c].email] = calls[c].slug
    BY <1>5 DEF CreateUser, Return, Drop, Put
  <2>2. calls[c].slug \in DOMAIN tenants /\ tenants[calls[c].slug] = calls[c].email
    BY <1>1, <1>5 DEF MasterInv, CreateUser, At, Owner
  <2>3. users'[calls[c].email] = calls[c].slug
    BY <2>1, <2>2 DEF MasterInv
  <2> QED  BY <1>2, <2>1, <2>3 DEF Owner
<1>6. CASE ~(CreateTenant(c) \/ Rollback(c) \/ CreateUser(c))
  <2>1. UNCHANGED <<tenants, users>>
    BY <1>6 DEF CallStep, Step, StatementFails, Die, CheckSlug, FindDatabase, CreateDatabase,
                CreateLog, CheckMigration, ExecuteMigration, RecordMigration,
                RecordExisting, Seed
  <2> QED  BY <1>2, <1>6, <2>1, OwnersRemain
<1> QED  BY <1>3, <1>4, <1>5, <1>6

\* Registrations that interleave as they like never leave a tenant without a
\* login, as long as nothing fails: whoever has written the tenant's row is
\* still at it, has written the user or has taken the row back.
THEOREM TenantsGetTheirUser == Spec => []TenantsHaveTheirUser
<1>1. Init => TenantsHaveTheirUser
  BY DEF Init, TenantsHaveTheirUser
<1>2. DatabaseInv /\ MasterInv /\ TenantsHaveTheirUser /\ [Next]_vars => TenantsHaveTheirUser'
  <2> SUFFICES ASSUME DatabaseInv, MasterInv, TenantsHaveTheirUser, [Next]_vars
               PROVE  TenantsHaveTheirUser'
    OBVIOUS
  <2>1. ASSUME NEW c \in Call, NEW s \in Slug, NEW e \in Email, Register(c, s, e)
        PROVE  TenantsHaveTheirUser'
    <3>1. /\ UNCHANGED <<tenants, users, mishaps>>
          /\ \A d \in DOMAIN calls : d \in DOMAIN calls' /\ calls'[d] = calls[d]
      BY <2>1 DEF Register, Put, Free
    <3> QED  BY <3>1 DEF TenantsHaveTheirUser
  <2>2. CASE RunnerAction
    <3>1. /\ UNCHANGED <<tenants, users, calls>>
          /\ mishaps' \in 0 .. MaxMishaps /\ (mishaps' = 0 => mishaps = 0)
      BY <2>2, RunnerActionOutcome
    <3>2. mishaps \in Nat /\ mishaps' \in Nat
      BY <3>1, MigrationAssumption DEF DatabaseInv, Rows
    <3> QED  BY <3>1, <3>2 DEF TenantsHaveTheirUser
  <2>3. CASE UNCHANGED vars
    BY <2>3 DEF TenantsHaveTheirUser, vars
  <2> QED  BY <2>1, <2>2, <2>3, NextIsOneOfThree, UsersKept
<1> QED  BY <1>1, <1>2, Invariant, PTL DEF Spec

-----------------------------------------------------------------------------
(* What the log says.                                                      *)

\* The registration is about to log the file as executed because of an error.
Recording(c, s, m) == At(c, "recordExisting") /\ calls[c].slug = s /\ calls[c].m = m

\* Logging the file is harmless, or the script is at work.
Excused(s, m) ==
  \E n \in Twins(m) :
    \/ Migrated(databases[s], n)
    \/ Executing(s, n) /\ Applicable(databases[s], n)

\* Only the script is ever in the middle of a file.
Clean(s) ==
  /\ databases[s].logged[1] # "FAILED"
  /\ databases[s].logged[1] = "SUCCESS" => Migrated(databases[s], 1)
  /\ \A m \in Migration :
       0 < databases[s].done[m] /\ databases[s].done[m] < Statements[m] =>
         Executing(s, m) /\ databases[s].done[m] < runner.k
  /\ \A m \in Migration : databases[s].logged[m] = "SUCCESS" => Excused(s, m)

\* The base schema, which can be executed again, meets no error.
RaceInv ==
  /\ \A c \in DOMAIN calls, s \in Slug : ~Recording(c, s, 1)
  /\ mishaps = 0 =>
       /\ \A s \in DOMAIN databases : Clean(s)
       /\ \A c \in DOMAIN calls, s \in Slug, m \in Migration :
            Recording(c, s, m) => Excused(s, m)

LEMMA TwinsAreFiles ==
  ASSUME NEW m \in Migration
  PROVE  Twins(m) \subseteq Migration /\ m \in Twins(m) /\ Repeats[m] \subseteq Twins(m)
BY MigrationAssumption DEF Twins

\* What a registration makes of a database.
CallEffect(c) ==
  /\ \A s \in DOMAIN databases' \ DOMAIN databases : databases'[s] = EmptyDatabase
  /\ \A s \in DOMAIN databases, m \in Migration :
       /\ databases'[s].done[m] \in {databases[s].done[m], Statements[m]}
       /\ \/ databases'[s].logged[m] = databases[s].logged[m]
          \/ /\ databases'[s].logged[m] = "SUCCESS"
             /\ databases[s].logged[m] = "none"
             /\ Migrated(databases[s], m) \/ Recording(c, s, m)

LEMMA CallStepEffect ==
  ASSUME DatabaseInv, NEW c, CallStep(c)
  PROVE  CallEffect(c)
<1> DEFINE s == calls[c].slug
           m == calls[c].m
<1>1. c \in DOMAIN calls /\ Rows /\ Bounded /\ Progress(calls[c]) /\ calls[c] \in RegisterCall
  BY CallStepOutcome, OwnFacts
<1>2. \A t \in DOMAIN databases : databases[t] \in Database
  BY <1>1, DatabaseIsDatabase
<1>3. s \in Slug /\ m \in Migration
  BY <1>1 DEF RegisterCall
<1>4. CASE UNCHANGED databases
  BY <1>4 DEF CallEffect
<1>5. CASE CreateDatabase(c) /\ ~UNCHANGED databases
  BY <1>5 DEF CreateDatabase, Put, CallEffect
<1>6. CASE CreateLog(c)
  BY <1>1, <1>2, <1>6 DEF CreateLog, At, Progress, Working, CallEffect, Database
<1>7. CASE ExecuteMigration(c) /\ ~UNCHANGED databases
  <2>1. /\ s \in DOMAIN databases
        /\ databases' = [databases EXCEPT ![s].done[m] = Statements[m]]
    BY <1>1, <1>7 DEF ExecuteMigration, At, Progress, Working
  <2>2. /\ DOMAIN databases' = DOMAIN databases
        /\ \A t \in DOMAIN databases \ {s} : databases'[t] = databases[t]
        /\ databases'[s] = [databases[s] EXCEPT !.done[m] = Statements[m]]
    BY <2>1
  <2>3. /\ databases'[s].log = databases[s].log /\ databases'[s].logged = databases[s].logged
        /\ \A j \in Migration : databases'[s].done[j] \in {databases[s].done[j], Statements[j]}
    BY <1>2, <1>3, <2>1, <2>2 DEF Database
  <2> QED  BY <2>2, <2>3 DEF CallEffect
<1>8. CASE (RecordMigration(c) \/ RecordExisting(c)) /\ ~UNCHANGED databases
  <2>1. /\ s \in DOMAIN databases /\ databases[s].logged[m] = "none"
        /\ databases' = [databases EXCEPT ![s].logged[m] = "SUCCESS"]
        /\ Migrated(databases[s], m) \/ Recording(c, s, m)
    <3>1. s \in DOMAIN databases
      BY <1>1, <1>8 DEF RecordMigration, RecordExisting, At, Progress, Working
    <3>2. CASE RecordMigration(c)
      BY <1>1, <1>8, <3>1, <3>2 DEF RecordMigration, At, Progress, Db
    <3>3. CASE RecordExisting(c)
      <4>1. Recording(c, s, m)
        BY <3>3 DEF RecordExisting, Recording
      <4>2. CASE databases[s].logged[m] = "none"
        BY <3>1, <3>3, <4>1, <4>2 DEF RecordExisting
      <4>3. CASE databases[s].logged[m] # "none"
        <5> DEFINE logged == [databases[s].logged EXCEPT ![m] = @]
                   db     == [databases[s] EXCEPT !.logged = logged]
        <5>1. databases' = [databases EXCEPT ![s] = db]
          BY <3>3, <4>3 DEF RecordExisting
        <5>2. logged = databases[s].logged
          BY <1>2, <3>1 DEF Database
        <5>3. db = databases[s]
          BY <1>2, <3>1, <5>2 DEF Database
        <5>4. databases \in [DOMAIN databases -> Database]
          BY <1>1 DEF Rows, IsTable
        <5> HIDE DEF db, logged
        <5> QED  BY <1>8, <5>1, <5>3, <5>4
      <4> QED  BY <4>2, <4>3
    <3> QED  BY <1>8, <3>2, <3>3
  <2>2. /\ DOMAIN databases' = DOMAIN databases
        /\ databases'[s].logged = [databases[s].logged EXCEPT ![m] = "SUCCESS"]
        /\ databases'[s].done = databases[s].done /\ databases'[s].log = databases[s].log
        /\ \A t \in DOMAIN databases \ {s} : databases'[t] = databases[t]
    BY <1>1, <1>3, <2>1, EntryChanges
  <2>3. \A j \in Migration :
          databases'[s].logged[j] = IF j = m THEN "SUCCESS" ELSE databases[s].logged[j]
    BY <1>2, <2>1, <2>2 DEF Database
  <2> HIDE DEF s, m
  <2> QED  BY <2>1, <2>2, <2>3 DEF CallEffect
<1>9. CASE Seed(c) /\ ~UNCHANGED databases
  <2>1. /\ s \in DOMAIN databases
        /\ databases' = [databases EXCEPT ![s].admins = @ \cup {calls[c].email}]
    BY <1>1, <1>9 DEF Seed, At, Progress, Working
  <2>2. /\ DOMAIN databases' = DOMAIN databases
        /\ \A t \in DOMAIN databases \ {s} : databases'[t] = databases[t]
        /\ databases'[s].log = databases[s].log /\ databases'[s].done = databases[s].done
        /\ databases'[s].logged = databases[s].logged
    BY <1>2, <2>1 DEF Database
  <2> QED  BY <2>2 DEF CallEffect
<1> QED
  BY <1>4, <1>5, <1>6, <1>7, <1>8, <1>9
     DEF CallStep, Step, StatementFails, Die, CheckSlug, CreateTenant, FindDatabase,
         CheckMigration, Rollback, CreateUser

\* What the script makes of a database.
RunnerEffect ==
  /\ DOMAIN databases' = DOMAIN databases
  /\ \A s \in DOMAIN databases :
       (s = runner.slug /\ runner.pc # "idle") \/ databases'[s] = databases[s]
  /\ \A s \in DOMAIN databases, m \in Migration :
       /\ \/ databases'[s].done[m] = databases[s].done[m]
          \/ /\ Executing(s, m) /\ Applicable(databases[s], m)
             /\ databases[s].done[m] < runner.k /\ databases'[s].done[m] = runner.k
       /\ \/ databases'[s].logged[m] = databases[s].logged[m]
          \/ /\ runner.slug = s /\ runner.m = m
             /\ \/ runner.pc = "record" /\ databases'[s].logged[m] = "SUCCESS"
                \/ runner.pc = "recordFailed" /\ databases'[s].logged[m] = "FAILED"

LEMMA RunnerActionEffect ==
  ASSUME DatabaseInv, RunnerAction
  PROVE  RunnerEffect
<1> DEFINE s == runner.slug
           m == runner.m
<1>1. Rows /\ Bounded
  BY DEF DatabaseInv
<1>2. \A t \in DOMAIN databases : databases[t] \in Database
  BY <1>1, DatabaseIsDatabase
<1>3. CASE UNCHANGED databases
  BY <1>3 DEF RunnerEffect
<1>4. CASE RunnerExecute /\ ~UNCHANGED databases
  <2>1. /\ s \in DOMAIN databases /\ m \in Migration /\ runner.k \in Nat
        /\ runner.pc = "execute" /\ Applicable(databases[s], m)
    BY <1>1, <1>4, RunnerFields DEF RunnerExecute, RunnerAt, RunnerProgress, DatabaseInv
  <2> DEFINE n    == IF databases[s].done[m] < runner.k THEN runner.k ELSE databases[s].done[m]
             done == [databases[s].done EXCEPT ![m] = n]
             log  == IF m = LogMigration /\ databases[s].log = "none"
                       THEN "success" ELSE databases[s].log
             db   == [databases[s] EXCEPT !.done = done, !.log = log]
  <2>2. databases' = [databases EXCEPT ![s] = db]
    BY <1>4 DEF RunnerExecute
  <2>3. db.done = done /\ db.logged = databases[s].logged
    BY <1>2, <2>1 DEF Database
  <2>4. \A j \in Migration : done[j] = IF j = m THEN n ELSE databases[s].done[j]
    BY <1>2, <2>1 DEF Database
  <2>5. /\ DOMAIN databases' = DOMAIN databases /\ databases'[s] = db
        /\ \A t \in DOMAIN databases \ {s} : databases'[t] = databases[t]
    BY <2>1, <2>2
  <2>6. \/ n = databases[s].done[m]
        \/ databases[s].done[m] < runner.k /\ n = runner.k
    OBVIOUS
  <2> HIDE DEF n, done, log, db
  <2> QED  BY <2>1, <2>3, <2>4, <2>5, <2>6 DEF RunnerEffect, Executing, RunnerAt
<1>5. CASE RunnerRecord /\ ~UNCHANGED databases
  <2>1. /\ s \in DOMAIN databases /\ m \in Migration
        /\ runner.pc \in {"record", "recordFailed"}
    BY <1>1, <1>5, RunnerFields DEF RunnerRecord, RunnerProgress, DatabaseInv
  <2>2. databases' = [databases EXCEPT ![s].logged[m] =
                        IF RunnerAt("record") THEN "SUCCESS" ELSE "FAILED"]
    BY <1>5 DEF RunnerRecord
  <2>3. ASSUME NEW entry \in {"SUCCESS", "FAILED"},
               databases' = [databases EXCEPT ![s].logged[m] = entry]
        PROVE  /\ DOMAIN databases' = DOMAIN databases
               /\ \A t \in DOMAIN databases \ {s} : databases'[t] = databases[t]
               /\ databases'[s].log = databases[s].log
               /\ databases'[s].done = databases[s].done
               /\ \A j \in Migration :
                    databases'[s].logged[j] = IF j = m THEN entry ELSE databases[s].logged[j]
    <3>1. databases[s] \in Database
      BY <1>2, <2>1
    <3> QED  BY <2>1, <2>3, <3>1 DEF Database
  <2>4. CASE RunnerAt("record")
    <3>1. databases' = [databases EXCEPT ![s].logged[m] = "SUCCESS"]
      BY <2>2, <2>4
    <3> QED  BY <2>1, <2>3, <2>4, <3>1 DEF RunnerEffect, RunnerAt
  <2>5. CASE ~RunnerAt("record")
    <3>1. databases' = [databases EXCEPT ![s].logged[m] = "FAILED"]
      BY <2>2, <2>5
    <3> QED  BY <2>1, <2>3, <2>5, <3>1 DEF RunnerEffect, RunnerAt
  <2> QED  BY <2>4, <2>5
<1> QED
  BY <1>3, <1>4, <1>5
     DEF RunnerAction, RunnerStep, StartRunner, RunnerCheck, RunnerStatementFails, RunnerDies

\* A call is about to log a file as executed when the file has just met an error.
LEMMA BecomesRecording ==
  ASSUME DatabaseInv, NEW c, CallStep(c), NEW d, NEW s, NEW m, Recording(d, s, m)'
  PROVE  \/ Recording(d, s, m)
         \/ /\ d \in DOMAIN calls /\ UNCHANGED databases
            /\ calls[d].pc = "execute" /\ calls[d].slug = s /\ calls[d].m = m
            /\ \/ ~Applicable(databases[s], m)
               \/ m \notin Rerunnable /\ \E n \in Twins(m) : databases[s].done[n] > 0
<1>1. c \in DOMAIN calls /\ Rows /\ Outcome(c) /\ calls[c] \in RegisterCall
  BY CallStepOutcome, OwnFacts
<1>2. d \in DOMAIN calls' /\ calls'[d].pc = "recordExisting"
      /\ calls'[d].slug = s /\ calls'[d].m = m
  BY DEF Recording, At
<1>3. CASE d # c
  BY <1>1, <1>2, <1>3 DEF Outcome, Drop, Continues, Recording, At
<1>4. CASE d = c
  <2>1. calls' # Drop(calls, c)
    BY <1>2, <1>4 DEF Drop
  <2>2. ~CheckSlug(c) /\ ~CreateTenant(c) /\ ~CreateUser(c) /\ ~Rollback(c) /\ ~Die(c)
    <3>1. \A label \in {"createTenant", "findDatabase"} : ~Goto(c, label)
      BY <1>1, <1>2, <1>4, GotoContinues DEF CallLabels
    <3> QED  BY <2>1, <3>1 DEF CheckSlug, CreateTenant, CreateUser, Rollback, Die, Return
  <2>3. ~NextMigration(c)
    BY <1>1, <1>2, <1>4, NextMigrationContinues
  <2>4. \A label \in CallLabels \ {"recordExisting"} : ~Goto(c, label)
    BY <1>1, <1>2, <1>4, GotoContinues
  <2>5. ~FindDatabase(c)
    <3>1. calls' # [calls EXCEPT ![c].pc = "createUser", ![c].adopted = TRUE]
      BY <1>1, <1>2, <1>4 DEF RegisterCall
    <3> QED  BY <2>4, <3>1 DEF FindDatabase, CallLabels
  <2>6. ExecuteMigration(c) /\ Goto(c, "recordExisting") /\ UNCHANGED databases
    BY <2>2, <2>3, <2>4, <2>5
       DEF CallStep, Step, StatementFails, Throw, CreateDatabase, CreateLog, CheckMigration,
           ExecuteMigration, RecordMigration, RecordExisting, Seed, CallLabels
  <2>7. calls[c].slug = s /\ calls[c].m = m /\ calls[c].pc = "execute"
    <3>1. calls'[c].slug = calls[c].slug /\ calls'[c].m = calls[c].m
      BY <1>1, <2>6, GotoContinues DEF CallLabels, Continues
    <3> QED  BY <1>2, <1>4, <2>6, <3>1 DEF ExecuteMigration, At
  <2>8. \/ ~Applicable(databases[s], m)
        \/ m \notin Rerunnable /\ \E n \in Twins(m) : databases[s].done[n] > 0
    BY <2>4, <2>6, <2>7 DEF ExecuteMigration, Throw, Db, CallLabels
  <2> QED  BY <1>1, <1>4, <2>6, <2>7, <2>8
<1> QED  BY <1>3, <1>4

\* Such an error is excused.
LEMMA ErrorIsExcused ==
  ASSUME DatabaseInv, RaceInv, mishaps = 0, NEW c \in DOMAIN calls,
         calls[c].pc = "execute", NEW s, NEW m, calls[c].slug = s, calls[c].m = m,
         ~Applicable(databases[s], m) \/ \E n \in Twins(m) : databases[s].done[n] > 0
  PROVE  Excused(s, m)
<1>1. /\ s \in DOMAIN databases /\ m \in Migration /\ databases[s] \in Database
      /\ \A j \in Migration : j < m => databases[s].logged[j] # "none"
  BY OwnFacts, DatabaseIsDatabase DEF Progress, Working, InFiles, RegisterCall
<1>2. Clean(s)
  BY <1>1 DEF RaceInv
<1>3. 1 \in Migration /\ (m # 1 => 1 < m)
  BY <1>1, MigrationAssumption DEF Migration
<1>4. Applicable(databases[s], m)
  <2>1. m # 1 => databases[s].logged[1] = "SUCCESS"
    BY <1>1, <1>2, <1>3 DEF Clean, Database
  <2> QED  BY <1>2, <2>1 DEF Clean, Applicable
<1>5. PICK n \in Twins(m) : databases[s].done[n] > 0
  BY <1>4
<1>6. n \in Migration
  BY <1>1, TwinsAreFiles
<1>7. databases[s].done[n] \in Nat /\ databases[s].done[n] <= Statements[n]
      /\ Statements[n] \in Nat
  BY <1>1, <1>6, StatementsAreSome DEF Database, DatabaseInv, Bounded
<1>8. CASE databases[s].done[n] = Statements[n]
  BY <1>5, <1>8 DEF Excused, Migrated
<1>9. CASE databases[s].done[n] # Statements[n]
  <2>1. Executing(s, n) /\ databases[s].done[n] < runner.k
    BY <1>2, <1>5, <1>6, <1>7, <1>9 DEF Clean
  <2>2. runner.k \in Nat
    BY <2>1, RunnerFields DEF Executing, RunnerAt, DatabaseInv
  <2>3. Applicable(databases[s], n)
    BY <1>5, <1>7, <2>1, <2>2 DEF DatabaseInv, RunnerProgress, Executing, RunnerAt
  <2> QED  BY <1>5, <2>1, <2>3 DEF Excused
<1> QED  BY <1>8, <1>9

\* What excuses a call still does after a statement of a registration.
LEMMA ExcusedStays ==
  ASSUME DatabaseInv, DatabaseInv', DatabasesGrow, UNCHANGED runner,
         NEW s \in DOMAIN databases, NEW m \in Migration, Excused(s, m)
  PROVE  Excused(s, m)'
<1>1. \A n \in Migration : Migrated(databases[s], n) => Migrated(databases'[s], n)
  BY MigratedStays DEF DatabaseInv, Rows
<1>2. 1 \in Migration /\ Twins(m) \subseteq Migration
  BY TwinsAreFiles, MigrationAssumption DEF Migration
<1>3. \A n : Executing(s, n) <=> Executing(s, n)'
  BY DEF Executing, RunnerAt
<1> QED  BY <1>1, <1>2, <1>3 DEF Excused, Applicable, Migrated, Twins

LEMMA CallStepKeepsRace ==
  ASSUME DatabaseInv, RaceInv, NEW c, CallStep(c)
  PROVE  RaceInv'
<1>1. /\ DatabaseInv' /\ DatabasesGrow /\ CallEffect(c) /\ UNCHANGED runner
      /\ mishaps' = 0 => mishaps = 0
  BY CallStepKeeps, CallStepEffect, CallStepOutcome
<1>2. 1 \in Migration
  BY MigrationAssumption DEF Migration
<1>3. \A s \in DOMAIN databases, m \in Migration :
        Migrated(databases[s], m) => Migrated(databases'[s], m)
  BY <1>1, MigratedStays DEF DatabaseInv, Rows
<1>4. ASSUME NEW d \in DOMAIN calls', NEW s \in Slug, Recording(d, s, 1)'
      PROVE  FALSE
  <2>1. 1 \in Rerunnable /\ Applicable(databases[s], 1)
    BY MigrationAssumption DEF Applicable
  <2>2. Recording(d, s, 1)
    BY <1>4, <2>1, BecomesRecording
  <2> QED  BY <2>2 DEF RaceInv, Recording, At
<1>5. ASSUME mishaps' = 0, NEW s \in DOMAIN databases'
      PROVE  Clean(s)'
  <2>1. CASE s \notin DOMAIN databases
    <3>1. databases'[s] = EmptyDatabase
      BY <1>1, <1>5, <2>1 DEF CallEffect
    <3>2. \A m \in Migration : databases'[s].logged[m] = "none" /\ databases'[s].done[m] = 0
      BY <3>1 DEF EmptyDatabase
    <3> QED  BY <1>2, <3>2 DEF Clean
  <2>2. CASE s \in DOMAIN databases
    <3>1. Clean(s) /\ mishaps = 0
      BY <1>1, <1>5, <2>2 DEF RaceInv
    <3>2. databases'[s].logged[1] # "FAILED"
      BY <1>1, <1>2, <2>2, <3>1 DEF CallEffect, Clean
    <3>3. databases'[s].logged[1] = "SUCCESS" => Migrated(databases'[s], 1)
      <4>1. ~Recording(c, s, 1)
        BY <2>2, DatabaseIsDatabase DEF RaceInv, Recording, At, DatabaseInv
      <4> QED  BY <1>1, <1>2, <1>3, <2>2, <3>1, <4>1 DEF CallEffect, Clean
    <3>4. ASSUME NEW m \in Migration, 0 < databases'[s].done[m],
                 databases'[s].done[m] < Statements[m]
          PROVE  Executing(s, m) /\ databases'[s].done[m] < runner.k
      <4>1. databases'[s].done[m] = databases[s].done[m]
        BY <1>1, <2>2, <3>4, StatementsAreSome DEF CallEffect
      <4> QED  BY <3>1, <3>4, <4>1 DEF Clean
    <3>5. ASSUME NEW m \in Migration, databases'[s].logged[m] = "SUCCESS"
          PROVE  Excused(s, m)'
      <4>1. Excused(s, m)
        <5>1. CASE databases[s].logged[m] = "SUCCESS"
          BY <3>1, <5>1 DEF Clean
        <5>2. CASE Migrated(databases[s], m)
          BY <5>2, TwinsAreFiles DEF Excused
        <5>3. CASE Recording(c, s, m)
          BY <2>2, <3>1, <5>3, DatabaseIsDatabase DEF RaceInv, Recording, At, DatabaseInv
        <5> QED  BY <1>1, <2>2, <3>5, <5>1, <5>2, <5>3 DEF CallEffect
      <4> QED  BY <1>1, <2>2, <4>1, ExcusedStays
    <3> QED  BY <1>1, <3>2, <3>3, <3>4, <3>5 DEF Clean, Executing, RunnerAt, Migrated
  <2> QED  BY <2>1, <2>2
<1>6. ASSUME mishaps' = 0, NEW d, NEW s \in Slug, NEW m \in Migration, Recording(d, s, m)'
      PROVE  Excused(s, m)'
  <2>1. mishaps = 0
    BY <1>1, <1>6
  <2>2. d \in DOMAIN calls /\ calls[d].slug = s /\ calls[d].pc \in Working
    BY <1>6, BecomesRecording DEF Recording, At, Working
  <2>3. s \in DOMAIN databases
    BY <2>2 DEF DatabaseInv, Progress
  <2>4. Excused(s, m)
    BY <1>6, <2>1, <2>2, BecomesRecording, ErrorIsExcused DEF RaceInv
  <2> QED  BY <1>1, <2>3, <2>4, ExcusedStays
<1> QED  BY <1>4, <1>5, <1>6 DEF RaceInv

\* When the script is not in the middle of a file, nobody is.
LEMMA ScriptGoesOn ==
  ASSUME DatabaseInv, DatabaseInv', RaceInv, RunnerAction, mishaps = 0,
         runner.pc # "execute", StartRunner \/ RunnerCheck \/ RunnerRecord
  PROVE  /\ \A s \in DOMAIN databases : Clean(s)'
         /\ \A s \in DOMAIN databases, m \in Migration : Excused(s, m) => Excused(s, m)'
<1>1. /\ RunnerEffect /\ DatabasesGrow /\ RunnerProgress
      /\ 1 \in Migration /\ Rows
  BY RunnerActionEffect, RunnerActionKeeps, MigrationAssumption DEF DatabaseInv, Migration
<1>2. \A s \in DOMAIN databases, m \in Migration :
        /\ Migrated(databases[s], m) => Migrated(databases'[s], m)
        /\ databases'[s].done[m] = databases[s].done[m]
        /\ ~Executing(s, m)
  <2>1. \A s \in DOMAIN databases, m \in Migration :
          Migrated(databases[s], m) => Migrated(databases'[s], m)
    BY <1>1, MigratedStays DEF DatabaseInv, Rows
  <2> QED  BY <1>1, <2>1 DEF RunnerEffect, Executing, RunnerAt
<1>3. ASSUME NEW s \in DOMAIN databases, NEW m \in Migration, Excused(s, m)
      PROVE  Excused(s, m)'
  BY <1>2, <1>3, TwinsAreFiles DEF Excused, Migrated, Twins
<1>4. ASSUME NEW s \in DOMAIN databases
      PROVE  Clean(s)'
  <2>1. Clean(s)
    BY DEF RaceInv
  <2>2. databases'[s].logged[1] # "FAILED"
    BY <1>1, <2>1 DEF RunnerEffect, Clean, RunnerProgress
  <2>3. ASSUME NEW m \in Migration, databases'[s].logged[m] = "SUCCESS"
        PROVE  databases[s].logged[m] = "SUCCESS" \/ Migrated(databases[s], m)
    BY <1>1, <2>3 DEF RunnerEffect, RunnerProgress
  <2>4. databases'[s].logged[1] = "SUCCESS" => Migrated(databases'[s], 1)
    BY <1>1, <1>2, <2>1, <2>3 DEF Clean
  <2>5. \A m \in Migration : databases'[s].logged[m] = "SUCCESS" => Excused(s, m)'
    <3>1. \A m \in Migration : Migrated(databases[s], m) => Excused(s, m)
      BY TwinsAreFiles DEF Excused
    <3> QED  BY <1>3, <2>1, <2>3, <3>1 DEF Clean
  <2>6. \A m \in Migration :
          ~(0 < databases'[s].done[m] /\ databases'[s].done[m] < Statements[m])
    BY <1>2, <2>1 DEF Clean
  <2> QED  BY <2>2, <2>4, <2>5, <2>6 DEF Clean, Migrated
<1> QED  BY <1>3, <1>4

\* In the middle of a file it executes the next statement of it.
LEMMA ScriptExecutes ==
  ASSUME DatabaseInv, DatabaseInv', RaceInv, mishaps = 0, RunnerExecute
  PROVE  /\ \A s \in DOMAIN databases : Clean(s)'
         /\ \A s \in DOMAIN databases, m \in Migration : Excused(s, m) => Excused(s, m)'
<1>1. /\ RunnerEffect /\ DatabasesGrow /\ RunnerProgress
      /\ 1 \in Migration /\ Rows /\ runner.pc = "execute" /\ runner.pc # "idle"
  BY RunnerActionEffect, RunnerActionKeeps, MigrationAssumption
     DEF DatabaseInv, Migration, RunnerAction, RunnerStep, RunnerExecute, RunnerAt
<1>2. /\ runner.slug \in DOMAIN databases /\ runner.m \in Migration /\ runner.k \in Nat \ {0}
      /\ runner.k <= Statements[runner.m]
      /\ runner.k - 1 <= databases[runner.slug].done[runner.m]
      /\ runner.k > 1 => Applicable(databases[runner.slug], runner.m)
  BY <1>1, RunnerFields DEF RunnerProgress
<1>3. \A s \in DOMAIN databases, m \in Migration :
        /\ Migrated(databases[s], m) => Migrated(databases'[s], m)
        /\ databases'[s].logged[m] = databases[s].logged[m]
        /\ databases[s].done[m] \in Nat /\ databases[s].done[m] <= Statements[m]
        /\ Statements[m] \in Nat
  <2>1. \A s \in DOMAIN databases : databases[s] \in Database
    BY <1>1, DatabaseIsDatabase
  <2>2. \A s \in DOMAIN databases, m \in Migration :
          Migrated(databases[s], m) => Migrated(databases'[s], m)
    BY <1>1, MigratedStays DEF DatabaseInv, Rows
  <2>3. \A s \in DOMAIN databases, m \in Migration :
          databases'[s].logged[m] = databases[s].logged[m]
    BY <1>1 DEF RunnerEffect
  <2>4. \A s \in DOMAIN databases, m \in Migration :
          databases[s].done[m] \in Nat /\ databases[s].done[m] <= Statements[m]
    BY <2>1 DEF DatabaseInv, Database, Bounded
  <2> QED  BY <2>2, <2>3, <2>4, StatementsAreSome
<1>4. CASE ~Applicable(databases[runner.slug], runner.m)
  <2>1. /\ UNCHANGED databases /\ runner.k = 1
        /\ \A s, m : Executing(s, m) => ~Applicable(databases[s], m)
    BY <1>2, <1>4 DEF RunnerExecute, Executing
  <2>2. \A s \in DOMAIN databases, m \in Migration : Excused(s, m) => Excused(s, m)'
    BY <2>1 DEF Excused, Migrated, Twins
  <2>3. ASSUME NEW s \in DOMAIN databases
        PROVE  Clean(s)'
    <3>1. Clean(s)
      BY DEF RaceInv
    <3>2. ASSUME NEW m \in Migration
          PROVE  ~(0 < databases[s].done[m] /\ databases[s].done[m] < Statements[m])
      BY <1>3, <2>1, <3>1 DEF Clean
    <3> QED  BY <2>1, <2>2, <3>1, <3>2 DEF Clean, Migrated
  <2> QED  BY <2>2, <2>3
<1>5. CASE Applicable(databases[runner.slug], runner.m)
  <2>1. \A s, m : Executing(s, m) =>
          \/ Executing(s, m)' /\ runner'.k = runner.k + 1 /\ runner.k # Statements[runner.m]
          \/ Migrated(databases'[s], m)
    <3>1. CASE runner.k = Statements[runner.m]
      <4>1. runner'.pc = "record" /\ runner'.slug = runner.slug /\ runner'.m = runner.m
        BY <1>1, <1>5, <3>1, RunnerFields DEF RunnerExecute
      <4> QED  BY <4>1 DEF DatabaseInv, RunnerProgress, Migrated, Executing
    <3>2. CASE runner.k # Statements[runner.m]
      <4>1. /\ runner'.pc = "execute" /\ runner'.slug = runner.slug /\ runner'.m = runner.m
            /\ runner'.k = runner.k + 1
        BY <1>1, <1>5, <3>2 DEF RunnerExecute, Rows, Runner
      <4> QED  BY <3>2, <4>1 DEF Executing, RunnerAt
    <3> QED  BY <3>1, <3>2
  <2>2. ASSUME NEW s \in DOMAIN databases, NEW m \in Migration, Excused(s, m)
        PROVE  Excused(s, m)'
    <3>1. PICK n \in Twins(m) :
            \/ Migrated(databases[s], n)
            \/ Executing(s, n) /\ Applicable(databases[s], n)
      BY <2>2 DEF Excused
    <3>2. n \in Migration
      BY TwinsAreFiles
    <3>3. Applicable(databases[s], n) => Applicable(databases'[s], n)
      BY <1>1, <1>3 DEF Applicable
    <3> QED  BY <1>3, <2>1, <3>1, <3>2, <3>3 DEF Excused, Applicable, Migrated, Twins
  <2>3. ASSUME NEW s \in DOMAIN databases
        PROVE  Clean(s)'
    <3>1. Clean(s)
      BY DEF RaceInv
    <3>2. ASSUME NEW m \in Migration, 0 < databases'[s].done[m],
                 databases'[s].done[m] < Statements[m]
          PROVE  Executing(s, m)' /\ databases'[s].done[m] < runner'.k
      <4>1. CASE databases'[s].done[m] = databases[s].done[m]
        <5>1. Executing(s, m) /\ databases[s].done[m] < runner.k
          BY <3>1, <3>2, <4>1 DEF Clean
        <5> QED  BY <1>2, <1>3, <2>1, <3>2, <4>1, <5>1 DEF Migrated
      <4>2. CASE Executing(s, m) /\ databases'[s].done[m] = runner.k
        BY <1>2, <2>1, <3>2, <4>2 DEF Migrated
      <4> QED  BY <1>1, <4>1, <4>2 DEF RunnerEffect
    <3>3. /\ databases'[s].logged[1] # "FAILED"
          /\ databases'[s].logged[1] = "SUCCESS" => Migrated(databases'[s], 1)
          /\ \A m \in Migration : databases'[s].logged[m] = "SUCCESS" => Excused(s, m)'
      BY <1>1, <1>3, <2>2, <3>1 DEF Clean
    <3> QED  BY <3>2, <3>3 DEF Clean, Migrated
  <2> QED  BY <2>2, <2>3
<1> QED  BY <1>4, <1>5

LEMMA RunnerKeepsRace ==
  ASSUME DatabaseInv, RaceInv, RunnerAction
  PROVE  RaceInv'
<1>1. /\ RunnerEffect /\ DatabasesGrow /\ DatabaseInv' /\ 1 \in Migration
      /\ UNCHANGED calls /\ (mishaps' = 0 => mishaps = 0)
  BY RunnerActionEffect, RunnerActionKeeps, RunnerActionOutcome, MigrationAssumption
     DEF Migration
<1>2. ASSUME NEW c \in DOMAIN calls', NEW s \in Slug, Recording(c, s, 1)'
      PROVE  FALSE
  BY <1>1, <1>2 DEF RaceInv, Recording, At
<1>3. ASSUME mishaps' = 0
      PROVE  /\ \A s \in DOMAIN databases : Clean(s)'
             /\ \A s \in DOMAIN databases, m \in Migration : Excused(s, m) => Excused(s, m)'
  <2>1. mishaps = 0 /\ ~RunnerStatementFails /\ ~RunnerDies
    BY <1>1, <1>3 DEF RunnerStatementFails, RunnerDies
  <2>2. CASE RunnerExecute
    BY <1>1, <2>1, <2>2, ScriptExecutes
  <2>3. CASE StartRunner \/ RunnerCheck \/ RunnerRecord
    <3>1. runner.pc # "execute"
      BY <2>3 DEF StartRunner, RunnerCheck, RunnerRecord, RunnerAt, Idle
    <3> QED  BY <1>1, <2>1, <2>3, <3>1, ScriptGoesOn
  <2> QED  BY <2>1, <2>2, <2>3 DEF RunnerAction, RunnerStep
<1>4. ASSUME mishaps' = 0, NEW c \in DOMAIN calls', NEW s \in Slug, NEW m \in Migration,
             Recording(c, s, m)'
      PROVE  Excused(s, m)'
  <2>1. Recording(c, s, m) /\ mishaps = 0 /\ c \in DOMAIN calls
    BY <1>1, <1>4 DEF Recording, At
  <2>2. s \in DOMAIN databases
    BY <2>1 DEF Recording, At, DatabaseInv, Progress, Working
  <2> QED  BY <1>3, <1>4, <2>1, <2>2 DEF RaceInv
<1> QED  BY <1>1, <1>2, <1>3, <1>4 DEF RaceInv, RunnerEffect

LEMMA RaceKept ==
  ASSUME DatabaseInv, RaceInv, [Next]_vars
  PROVE  RaceInv'
<1>1. ASSUME NEW c \in Call, NEW s \in Slug, NEW e \in Email, Register(c, s, e)
      PROVE  RaceInv'
  <2>1. /\ UNCHANGED <<databases, runner, mishaps>> /\ calls'[c].pc = "checkSlug"
        /\ \A d \in DOMAIN calls' \ {c} : d \in DOMAIN calls /\ calls'[d] = calls[d]
    BY <1>1 DEF Register, Put
  <2>2. \A d, t, m : Recording(d, t, m)' => Recording(d, t, m)
    BY <2>1 DEF Recording, At
  <2>3. /\ \A t : Clean(t) <=> Clean(t)'
        /\ \A t, m : Excused(t, m) <=> Excused(t, m)'
    BY <2>1 DEF Clean, Excused, Executing, RunnerAt, Applicable, Migrated, Twins
  <2> QED  BY <2>1, <2>2, <2>3 DEF RaceInv, Recording, At, Migrated
<1>2. CASE UNCHANGED vars
  BY <1>2 DEF RaceInv, Recording, At, Clean, Excused, Executing, RunnerAt, Applicable,
              Migrated, Twins, vars
<1> QED  BY <1>1, <1>2, NextIsOneOfThree, CallStepKeepsRace, RunnerKeepsRace

LEMMA RaceInit == Init => RaceInv
BY DEF Init, RaceInv

LEMMA NothingRaced == Spec => [](DatabaseInv /\ MasterInv /\ RaceInv)
<1>1. Init => RaceInv
  BY RaceInit
<1>2. DatabaseInv /\ RaceInv /\ [Next]_vars => RaceInv'
  BY RaceKept
<1> QED  BY <1>1, <1>2, Invariant, PTL DEF Spec

\* The log begins to lie only by a registration that takes an error for a file
\* that has been executed.
LEMMA LiarIsRecording ==
  ASSUME DatabaseInv, [Next]_vars, NEW s \in DOMAIN databases, NEW m \in Migration,
         ~Lies(s, m), Lies(s, m)'
  PROVE  (\E c \in Call : Recording(c, s, m)) /\ ~Migrated(databases[s], m)
<1>1. DatabaseInv' /\ DatabasesGrow
  BY DatabaseKept
<1>2. databases'[s].logged[m] = "SUCCESS" /\ ~Migrated(databases'[s], m)
  BY DEF Lies, Migrated
<1>3. ~Migrated(databases[s], m) /\ databases[s].logged[m] # "SUCCESS"
  BY <1>1, <1>2, MigratedStays DEF DatabaseInv, Rows, Lies
<1>4. CASE \E c \in Call : CallStep(c)
  BY <1>2, <1>3, <1>4, CallStepEffect DEF CallEffect
<1>5. ~RunnerAction
  BY <1>2, <1>3, RunnerActionEffect DEF RunnerEffect, DatabaseInv, RunnerProgress
<1>6. ~UNCHANGED databases
  BY <1>2, <1>3
<1> QED  BY <1>3, <1>4, <1>5, <1>6, NextIsOneOfThree DEF Register, vars

\* Whatever fails and however registrations and the script interleave:
\* migrations_log begins to claim a file that is not there only when a
\* registration logs it because of an error, and without a failure before that
\* only because of a file that repeats it, or of the script amidst the two.
THEOREM LogIsTruthful == Spec => LogLiesHaveACause
<1> DEFINE A ==
      \A s \in DOMAIN databases, m \in Migration :
        (~Lies(s, m) /\ Lies(s, m)') =>
          /\ \E c \in Call : At(c, "recordExisting") /\ calls[c].slug = s /\ calls[c].m = m
          /\ \/ \E n \in Repeats[m] : Migrated(databases[s], n)
             \/ \E n \in Twins(m) : Executing(s, n)
             \/ mishaps > 0
<1>1. DatabaseInv /\ RaceInv /\ [Next]_vars => A
  <2> SUFFICES ASSUME DatabaseInv, RaceInv, [Next]_vars, NEW s \in DOMAIN databases,
                      NEW m \in Migration, ~Lies(s, m), Lies(s, m)'
               PROVE  /\ \E c \in Call :
                           At(c, "recordExisting") /\ calls[c].slug = s /\ calls[c].m = m
                      /\ \/ \E n \in Repeats[m] : Migrated(databases[s], n)
                         \/ \E n \in Twins(m) : Executing(s, n)
                         \/ mishaps > 0
    OBVIOUS
  <2>1. PICK c \in Call : Recording(c, s, m) /\ ~Migrated(databases[s], m)
    BY LiarIsRecording
  <2>2. s \in Slug /\ mishaps \in Nat /\ c \in DOMAIN calls
    BY <2>1, DatabaseIsDatabase DEF DatabaseInv, Rows, Recording, At
  <2>3. mishaps = 0 => Excused(s, m)
    BY <2>1, <2>2 DEF RaceInv
  <2>4. mishaps = 0 => \/ \E n \in Repeats[m] : Migrated(databases[s], n)
                       \/ \E n \in Twins(m) : Executing(s, n)
    BY <2>1, <2>3 DEF Excused, Twins
  <2>5. mishaps = 0 \/ mishaps > 0
    BY <2>2
  <2> QED  BY <2>1, <2>4, <2>5 DEF Recording
<1>2. Spec => [][A]_vars
  <2> HIDE DEF A
  <2> QED  BY <1>1, NothingRaced, PTL DEF Spec
<1> QED  BY <1>2 DEF LogLiesHaveACause

-----------------------------------------------------------------------------
(* A registration's own database is ready.                                 *)

LEMMA OwnDatabaseIsReady ==
  ASSUME DatabaseInv, MasterInv, RaceInv, NEW c, At(c, "createUser"),
         NEW s \in Slug, calls[c].slug = s, ~calls[c].adopted
  PROVE  /\ tenants[s] \in databases[s].admins
         /\ \A m \in Migration :
              /\ databases[s].logged[m] # "none"
              /\ \/ Served(databases[s], m)
                 \/ databases[s].logged[m] = "FAILED"
                 \/ \E n \in Twins(m) : Executing(s, n)
                 \/ mishaps > 0
<1>1. c \in DOMAIN calls /\ Owner(c) /\ Progress(calls[c])
  BY DEF At, Owner, DatabaseInv
<1>2. /\ s \in DOMAIN databases /\ calls[c].email \in databases[s].admins
      /\ \A m \in Migration : databases[s].logged[m] # "none"
  BY <1>1 DEF Progress, At
<1>3. tenants[s] = calls[c].email
  BY <1>1 DEF MasterInv
<1>4. databases[s] \in Database /\ mishaps \in Nat
  BY <1>2, DatabaseIsDatabase DEF DatabaseInv, Rows
<1>5. mishaps = 0 \/ mishaps > 0
  BY <1>4
<1>6. ASSUME NEW m \in Migration, mishaps = 0, databases[s].logged[m] # "FAILED"
      PROVE  Served(databases[s], m) \/ \E n \in Twins(m) : Executing(s, n)
  <2>1. databases[s].logged[m] = "SUCCESS"
    BY <1>2, <1>4, <1>6 DEF Database
  <2>2. Excused(s, m)
    BY <1>2, <1>6, <2>1 DEF RaceInv, Clean
  <2> QED  BY <2>2 DEF Excused, Served
<1> QED  BY <1>2, <1>3, <1>5, <1>6

\* However registrations, the script and failures interleave: a registration
\* that made its database itself and comes to write the user leaves the admin
\* in the database and every file in its log, and without a failure the tables
\* of every file, unless the script logged it as failed or is in its midst.
THEOREM OwnDatabasesAreReady == Spec => OnlyAdoptedDatabasesAreUnready
<1> DEFINE A ==
      \A c \in Call, s \in Slug :
        (/\ At(c, "createUser") /\ calls[c].slug = s /\ ~calls[c].adopted
         /\ users' # users)
        => /\ tenants[s] \in databases[s].admins
           /\ \A m \in Migration :
                /\ databases[s].logged[m] # "none"
                /\ \/ Served(databases[s], m)
                   \/ databases[s].logged[m] = "FAILED"
                   \/ \E n \in Twins(m) : Executing(s, n)
                   \/ mishaps > 0
<1>1. DatabaseInv /\ MasterInv /\ RaceInv => A
  BY OwnDatabaseIsReady
<1>2. A => [A]_vars
  OBVIOUS
<1>3. Spec => [][A]_vars
  <2> HIDE DEF A
  <2> QED  BY <1>1, <1>2, NothingRaced, PTL
<1> QED  BY <1>3 DEF OnlyAdoptedDatabasesAreUnready
=============================================================================
