----------------------------- MODULE MCDatabase -----------------------------
(* Those who wait for the database's locks: the migrators of Migrations, or  *)
(* the transactions of RowLocks.  A behaviour has the steps of one of the    *)
(* two; the other stays where it begins.                                     *)
EXTENDS Migrations

CONSTANTS Workers, Operators, Runs, None, MaxVersion, MaxAttempts, MaxFaults

VARIABLES
  system,
  active, version, run, tx, held, worker, faults \* RowLocks

Rows == INSTANCE RowLocks

ASSUME Rows!ConstantsAssumption

rowVars == <<active, version, run, tx, held, worker, faults>>
allVars == <<system, vars, rowVars>>

\* A release, its successor, a successor whose second migration was edited,
\* and one configured with another minimum score.
MCReleases == {
  [sums |-> <<"a", "b">>,      profile |-> "p"],
  [sums |-> <<"a", "b", "c">>, profile |-> "p"],
  [sums |-> <<"a", "x">>,      profile |-> "p"],
  [sums |-> <<"a", "b", "c">>, profile |-> "q"]}

MCInit ==
  /\ system \in {"schema", "rows"}
  /\ Init /\ Rows!Init
  /\ system = "rows" => db.schema = {}

InSchema(A) == system = "schema" /\ A /\ UNCHANGED <<system, rowVars>>
InRows(A)   == system = "rows" /\ A /\ UNCHANGED <<system, vars>>

MCSpec == MCInit /\ [][InSchema(Next) \/ InRows(Rows!Next)]_allVars

\* The fairness of the two modules.
MCFairness ==
  /\ \A m \in Migrators : WF_allVars(InSchema(Step(m))) /\ SF_allVars(InSchema(Lock(m)))
  /\ \A t \in Rows!Sessions : /\ SF_allVars(InRows(Rows!Statement(t)))
                              /\ WF_allVars(InRows(Rows!Commit(t)))
                              /\ WF_allVars(InRows(Rows!DeadlockVictim(t)))

MCFairSpec == MCSpec /\ MCFairness

\* No transaction of the store and no migrator waits for ever.
EveryWaitEnds == Rows!EveryTransactionEnds /\ EveryMigratorEnds
=============================================================================
