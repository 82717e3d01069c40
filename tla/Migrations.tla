------------------------------ MODULE Migrations ------------------------------
(***************************************************************************)
(* Bootstrap of the platform's schemas (platform/bootstrap.py) by          *)
(* versioned migrations (platform/migrations.py): hosts of one or several  *)
(* releases, at the same time, against PostgreSQL, where a migration and   *)
(* its record are one transaction, and against ClickHouse, where each      *)
(* statement is its own and nothing keeps a version from being recorded    *)
(* twice.                                                                  *)
(*                                                                         *)
(* Left out: the bucket, and what the statements do; a migration is told   *)
(* from another text of the same version by its checksum.                  *)
(***************************************************************************)
EXTENDS Integers, Sequences, FiniteSetsExt

CONSTANTS
  Hosts,
  Releases,     \* of each host: the schema version it expects, the checksums of its migrations
  Statements,   \* statements in a migration
  MaxBootstraps, MaxBreaks \* bounds: bootstraps and doctors begun, exceptions

ASSUME MigrationsAssumption ==
  /\ Releases \in [Hosts -> [expects : Nat \ {0}, sums : Seq(Nat)]]
  /\ Statements \in Nat \ {0} /\ MaxBootstraps \in Nat /\ MaxBreaks \in Nat

Stores == {"postgres", "clickhouse"}
Expected(h) == Releases[h].expects
Sum(h, v) == Releases[h].sums[v]
Available(h) == Len(Releases[h].sums)

VARIABLES
  schema,      \* of each store: the rows of its migrations table, and the statements that ran
  host,        \* what each host is at: the store it checks, and with what left to apply
  bootstraps, breaks

migrationVars == <<schema, host, bootstraps, breaks>>

Idler == [stage |-> "none", store |-> "postgres", apply |-> FALSE, pending |-> {}, ran |-> 0,
          healthy |-> {}]

MigrationsInit ==
  /\ schema = [s \in Stores |-> [rows |-> {}, ran |-> {}]]
  /\ host = [h \in Hosts |-> Idler]
  /\ bootstraps = 0 /\ breaks = 0

-----------------------------------------------------------------------------
Rows(h) == schema[host[h].store].rows
Versions(rows) == {x[1] : x \in rows}

\* fetch_applied_versions: one checksum a version, whichever row comes last.
Reads(rows) == {R \in SUBSET rows : /\ Versions(R) = Versions(rows)
                                    /\ \A x, y \in R : x[1] = y[1] => x = y}
Mismatched(h, R) == \E x \in R : x[1] <= Available(h) /\ x[2] # Sum(h, x[1])
PendingIn(h, R) == {v \in 1..Expected(h) : v \notin Versions(R)}

Healthy(h, R) ==
  /\ Versions(R) = 1..Expected(h)
  /\ ~Mismatched(h, R)

\* The next store: ClickHouse is checked whatever PostgreSQL said.
Checked(h, healthy) ==
  LET told == IF healthy THEN host[h].healthy \cup {host[h].store} ELSE host[h].healthy
  IN IF host[h].store = "postgres"
       THEN [host[h] EXCEPT !.stage = "read", !.store = "clickhouse", !.pending = {}, !.ran = 0,
                            !.healthy = told]
     ELSE [Idler EXCEPT !.healthy = told]

\* bootstrap applies what is pending; doctor only looks.
BootstrapBegins(h) ==
  /\ host[h].stage = "none" /\ bootstraps < MaxBootstraps
  /\ bootstraps' = bootstraps + 1
  /\ \E apply \in BOOLEAN : host' = [host EXCEPT ![h] = [Idler EXCEPT !.stage = "read", !.apply = apply]]
  /\ UNCHANGED <<schema, breaks>>

ReadVersions(h) ==
  /\ host[h].stage = "read"
  /\ \E R \in Reads(Rows(h)) :
       host' = [host EXCEPT ![h] =
         IF Available(h) < Expected(h) \/ (host[h].apply /\ Mismatched(h, R)) THEN Checked(h, FALSE)
         ELSE IF host[h].apply THEN [@ EXCEPT !.stage = "apply", !.pending = PendingIn(h, R)]
         ELSE Checked(h, Healthy(h, R))]
  /\ UNCHANGED <<schema, bootstraps, breaks>>

\* Mutant: the migrations are run in the wrong order.
NextUpLast(h) == Max(host[h].pending)
NextUp(h) == Min(host[h].pending)

Applying(h, store) == host[h].stage = "apply" /\ host[h].pending # {} /\ host[h].store = store

Text(h, v) == <<v, Sum(h, v)>>
AllOf(h, v) == {<<v, Sum(h, v), i>> : i \in 1..Statements}
With(s, rows, ran) == [schema EXCEPT ![s] = [rows |-> @.rows \cup rows, ran |-> @.ran \cup ran]]
Done(h, v) == [host EXCEPT ![h].pending = @ \ {v}, ![h].ran = 0]

\* PostgreSQL: a version that another host has recorded meanwhile is refused by the primary key.
ApplyPostgres(h) ==
  /\ Applying(h, "postgres")
  /\ LET v == NextUp(h)
     IN \/ /\ v \notin Versions(Rows(h))
           /\ schema' = With("postgres", {Text(h, v)}, AllOf(h, v))
           /\ host' = Done(h, v)
        \/ /\ v \in Versions(Rows(h))
           /\ host' = [host EXCEPT ![h] = Checked(h, FALSE)]
           /\ UNCHANGED schema
  /\ UNCHANGED <<bootstraps, breaks>>

\* ClickHouse: a statement, or, after the last one, the record; the mutant records first.
RecordableFirst(h) == host[h].ran = 0
Recordable(h) == host[h].ran = Statements

ApplyClickHouse(h) ==
  /\ Applying(h, "clickhouse")
  /\ LET v == NextUp(h)
     IN \/ /\ Recordable(h)
           /\ schema' = With("clickhouse", {Text(h, v)}, {})
           /\ host' = Done(h, v)
        \/ /\ host[h].ran < Statements
           /\ schema' = With("clickhouse", {}, {<<v, Sum(h, v), host[h].ran + 1>>})
           /\ host' = [host EXCEPT ![h].ran = @ + 1]
  /\ UNCHANGED <<bootstraps, breaks>>

ReadAgain(h) ==
  /\ host[h].stage = "apply" /\ host[h].pending = {}
  /\ \E R \in Reads(Rows(h)) : host' = [host EXCEPT ![h] = Checked(h, Healthy(h, R))]
  /\ UNCHANGED <<schema, bootstraps, breaks>>

\* An exception ends the check of the store; a death, the bootstrap.
Breaks(h) ==
  /\ host[h].stage # "none" /\ breaks < MaxBreaks
  /\ breaks' = breaks + 1
  /\ \E x \in {Checked(h, FALSE), Idler} : host' = [host EXCEPT ![h] = x]
  /\ UNCHANGED <<schema, bootstraps>>

MigrationsNext == \E h \in Hosts : \/ BootstrapBegins(h) \/ ReadVersions(h) \/ ApplyPostgres(h)
                                   \/ ApplyClickHouse(h) \/ ReadAgain(h) \/ Breaks(h)

MigrationsSpec == MigrationsInit /\ [][MigrationsNext]_migrationVars

-----------------------------------------------------------------------------
MigrationsTypeOK ==
  /\ bootstraps \in 0..MaxBootstraps /\ breaks \in 0..MaxBreaks
  /\ \A h \in Hosts : /\ host[h].stage \in {"none", "read", "apply"} /\ host[h].store \in Stores
                      /\ host[h].pending \subseteq 1..Expected(h) /\ host[h].ran \in 0..Statements
                      /\ host[h].healthy \subseteq Stores

\* What a host was told is healthy has been built: every statement of every version it expects, in
\* the text it has of them, ran in that store, though hosts of other releases bootstrapped at the
\* same time and broke off anywhere.  (MigrationRunResult.healthy.)
HealthyMeansBuilt ==
  \A h \in Hosts : \A v \in 1..Expected(h) :
    \A s \in host[h].healthy : AllOf(h, v) \subseteq schema[s].ran

\* No statement of a version runs in a store before the versions below it are recorded there.
VersionsInOrder ==
  [][\A s \in Stores : \A x \in schema'[s].ran \ schema[s].ran :
       1..(x[1] - 1) \subseteq Versions(schema[s].rows)]_schema
=============================================================================
