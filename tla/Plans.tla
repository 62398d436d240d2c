-------------------------------- MODULE Plans --------------------------------
(***************************************************************************)
(* The catalog, the plans and their versions, as they are written by the   *)
(* API of the administrators and by scripts/seed_plans.py and seed.py.     *)
(* Each of them works through a list of jobs; a job is a few statements,   *)
(* each a transaction of its own.  One feature stands for all.             *)
(***************************************************************************)
EXTENDS Integers, Sequences, FiniteSets

CONSTANTS
    Caller,     \* concurrent calls
    Backends,   \* what DATABASE_BACKEND may be: "supabase", "postgres"
    Plan,       \* the names of the plans
    Script,     \* the plans of seed_plans.py in order, <<plan, limit>>
    MaxFaults   \* bound on the statements that raise

ASSUME PlansAssumption ==
    /\ Backends \subseteq {"supabase", "postgres"}
    /\ Plan # {}
    /\ Script \in Seq(Plan \X (Nat \ {0}))
    /\ MaxFaults \in Nat

VARIABLES
    backend,    \* the setting, fixed
    catalog,    \* whether the feature is in features_catalog
    plans,      \* rows of plans
    versions,   \* rows of plan_versions of each plan
    offers,     \* quota_limit of the row of plan_features, 0: no row
    jobs,       \* what each caller has still to do
    at,         \* its next statement
    got,        \* what its last query found
    lost,       \* whether one of its jobs failed
    faults

planVars == <<catalog, plans, versions, offers>>
jobVars  == <<jobs, at, got, lost>>

Version == [number: Nat, active: BOOLEAN]

PlansTypeOK ==
    /\ backend \in Backends
    /\ catalog \in BOOLEAN
    /\ plans \subseteq Plan
    /\ versions \in [Plan -> Seq(Version)]
    /\ offers \in [Plan -> Nat]
    /\ got \in [Caller -> Nat]
    /\ lost \in [Caller -> BOOLEAN]
    /\ faults \in 0 .. MaxFaults
    /\ \A p \in Plan : p \notin plans => versions[p] = <<>> /\ offers[p] = 0

Job(do, p, limit) == [do |-> do, plan |-> p, limit |-> limit]

AnyPlan == CHOOSE p \in Plan : TRUE

\* seed_plans: the catalog, then every plan and its features.
SeedCatalog == Job("feature", AnyPlan, 0)

SeedPlan(entry) == <<Job("plan", entry[1], 0), Job("offer", entry[1], entry[2])>>

SeedJobs ==
    [i \in 1 .. 2 * Len(Script) + 1 |->
        IF i = 1 THEN SeedCatalog ELSE SeedPlan(Script[i \div 2])[1 + (i % 2)]]

Doing(c, do, where) == jobs[c] # <<>> /\ Head(jobs[c]).do = do /\ at[c] = where

It(c) == Head(jobs[c]).plan

At(c, where) == at' = [at EXCEPT ![c] = where] /\ UNCHANGED <<jobs, lost>>

NextJob(c) ==
    /\ jobs' = [jobs EXCEPT ![c] = Tail(@)]
    /\ at' = [at EXCEPT ![c] = "start"]
    /\ UNCHANGED lost

\* The seed takes an offer that failed for a duplicate and goes on; anything
\* else ends it, and an error of the API is the client's.
Fail(c) ==
    /\ jobs' = [jobs EXCEPT ![c] = IF Head(@).do = "offer" THEN Tail(@) ELSE <<>>]
    /\ at' = [at EXCEPT ![c] = "start"]
    /\ lost' = [lost EXCEPT ![c] = TRUE]
-----------------------------------------------------------------------------
(***************************************************************************)
(* create_feature                                                          *)
(***************************************************************************)
FindFeature(c) ==
    /\ Doing(c, "feature", "start")
    /\ IF catalog THEN NextJob(c) ELSE At(c, "insert")
    /\ UNCHANGED <<got, planVars, faults>>

\* feature_key is UNIQUE.
InsertFeature(c) ==
    /\ Doing(c, "feature", "insert")
    /\ IF catalog THEN Fail(c) ELSE NextJob(c)
    /\ catalog' = TRUE
    /\ UNCHANGED <<got, plans, versions, offers, faults>>
-----------------------------------------------------------------------------
(***************************************************************************)
(* create_plan, which the seed calls for a plan it does not find           *)
(***************************************************************************)
\* Mutant: a plan that is there is taken for seeded.
FindPlan_Skips(c) ==
    /\ Doing(c, "plan", "start")
    /\ IF It(c) \in plans
       THEN /\ jobs' = [jobs EXCEPT ![c] = Tail(Tail(@))]
            /\ UNCHANGED <<at, lost>>
       ELSE At(c, "insert")
    /\ UNCHANGED <<got, planVars, faults>>

FindPlan(c) ==
    /\ Doing(c, "plan", "start")
    /\ IF It(c) \in plans THEN NextJob(c) ELSE At(c, "insert")
    /\ UNCHANGED <<got, planVars, faults>>

\* name is UNIQUE.
InsertPlan(c) ==
    /\ Doing(c, "plan", "insert") \/ Doing(c, "create", "start")
    /\ IF It(c) \in plans THEN Fail(c) ELSE At(c, "version")
    /\ plans' = plans \cup {It(c)}
    /\ UNCHANGED <<got, catalog, versions, offers, faults>>

InsertVersion(c) ==
    /\ Doing(c, "plan", "version") \/ Doing(c, "create", "version")
    /\ versions' = [versions EXCEPT ![It(c)] = Append(@, [number |-> 1, active |-> TRUE])]
    /\ NextJob(c)
    /\ UNCHANGED <<got, catalog, plans, offers, faults>>
-----------------------------------------------------------------------------
(***************************************************************************)
(* add_feature_to_plan                                                     *)
(***************************************************************************)
FindKey(c) ==
    /\ Doing(c, "offer", "start")
    /\ IF catalog THEN At(c, "pair") ELSE Fail(c)
    /\ UNCHANGED <<got, planVars, faults>>

FindPair(c) ==
    /\ Doing(c, "offer", "pair")
    /\ got' = [got EXCEPT ![c] = offers[It(c)]]
    /\ At(c, "write")
    /\ UNCHANGED <<planVars, faults>>

\* An update of the row found, or an insert: UNIQUE (plan_id, feature_id),
\* and plan_id refers to a plan.
WriteOffer(c) ==
    /\ Doing(c, "offer", "write")
    /\ IF got[c] = 0 /\ (offers[It(c)] # 0 \/ It(c) \notin plans)
       THEN UNCHANGED offers
       ELSE offers' = [offers EXCEPT ![It(c)] = Head(jobs[c]).limit]
    \* A duplicate is refused, but the row is there.
    /\ IF It(c) \in plans THEN NextJob(c) ELSE Fail(c)
    /\ UNCHANGED <<got, catalog, plans, versions, faults>>
-----------------------------------------------------------------------------
(***************************************************************************)
(* create_plan_version                                                     *)
(***************************************************************************)
Active(p) == {i \in DOMAIN versions[p] : versions[p][i].active}

FindCurrent(c) ==
    /\ Doing(c, "version", "start")
    /\ \E i \in Active(It(c)) \cup {0} :
          /\ i = 0 => Active(It(c)) = {}
          /\ got' = [got EXCEPT ![c] = i]
    /\ At(c, "plan")
    /\ UNCHANGED <<planVars, faults>>

\* get_plan: the Postgres repository asks for a column "id", which is not there.
LoadPlan(c) ==
    /\ Doing(c, "version", "plan")
    /\ IF backend = "postgres" \/ It(c) \notin plans THEN Fail(c)
       ELSE At(c, IF got[c] = 0 THEN "insert" ELSE "deactivate")
    /\ UNCHANGED <<got, planVars, faults>>

Deactivate(c) ==
    /\ Doing(c, "version", "deactivate")
    /\ versions' = [versions EXCEPT ![It(c)][got[c]].active = FALSE]
    /\ At(c, "insert")
    /\ UNCHANGED <<got, catalog, plans, offers, faults>>

\* The table's CHECK does not know the change_type "update".
InsertNext(c) ==
    /\ Doing(c, "version", "insert")
    /\ Fail(c)
    /\ UNCHANGED <<got, planVars, faults>>
-----------------------------------------------------------------------------
Queries == {<<"feature", "start">>, <<"plan", "start">>, <<"offer", "start">>,
            <<"offer", "pair">>, <<"version", "start">>}

\* The finders of the Supabase repositories answer an error with "not found".
QueryFails(c) ==
    /\ backend = "supabase"
    /\ jobs[c] # <<>> /\ <<Head(jobs[c]).do, at[c]>> \in Queries
    /\ faults < MaxFaults
    /\ faults' = faults + 1
    /\ got' = [got EXCEPT ![c] = 0]
    /\ CASE Doing(c, "offer", "start")   -> Fail(c)
         [] Doing(c, "offer", "pair")    -> At(c, "write")
         [] Doing(c, "version", "start") -> At(c, "plan")
         [] OTHER                        -> At(c, "insert")
    /\ UNCHANGED planVars

\* A statement raises, or the process ends.
JobFails(c) ==
    /\ jobs[c] # <<>>
    /\ faults < MaxFaults
    /\ faults' = faults + 1
    /\ \/ Fail(c)
       \/ /\ jobs' = [jobs EXCEPT ![c] = <<>>]
          /\ lost' = [lost EXCEPT ![c] = TRUE]
          /\ UNCHANGED at
    /\ UNCHANGED <<got, planVars>>

PlanStep(c) ==
    \/ FindFeature(c)
    \/ InsertFeature(c)
    \/ FindPlan(c)
    \/ InsertPlan(c)
    \/ InsertVersion(c)
    \/ FindKey(c)
    \/ FindPair(c)
    \/ WriteOffer(c)
    \/ FindCurrent(c)
    \/ LoadPlan(c)
    \/ Deactivate(c)
    \/ InsertNext(c)
=============================================================================
