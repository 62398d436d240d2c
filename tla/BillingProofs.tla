---------------------------- MODULE BillingProofs ----------------------------
(***************************************************************************)
(* Theorems about Billing and the plans it extends, for any finite number  *)
(* of callers, whatever they do, any plans, script, amounts and failures.  *)
(***************************************************************************)
EXTENDS Billing, FiniteSetTheorems, WellFoundedInduction, TLAPS

-----------------------------------------------------------------------------
(***************************************************************************)
(* What holds of the plans and of the jobs that work on them.              *)
(***************************************************************************)
AJob ==
    {j \in [do : {"feature", "plan", "offer", "create", "version"}, plan : Plan, limit : Nat] :
        j.do = "offer" => j.limit # 0}

Statement == {"start", "insert", "version", "pair", "write", "plan", "deactivate"}

JobsTyped ==
    /\ jobs \in [Caller -> Seq(AJob)]
    /\ at \in [Caller -> Statement]

\* What a caller has found out about the plan of its job stays true.
PlanThere(c) ==
    jobs[c] # <<>> /\ (at[c] \in {"version", "deactivate"} \/ (at[c] = "write" /\ got[c] # 0))
        => It(c) \in plans

\* What a job of the seed leaves behind.
Done(j) ==
    /\ j.do = "plan"  => j.plan \in plans
    /\ j.do = "offer" => offers[j.plan] # 0

\* How many of its jobs a seed is through with.
Through(c) == Len(SeedJobs) - Len(jobs[c])

\* A seed that has lost nothing is at the end of its script, and what comes
\* before is done.
OnScript(c) ==
    call[c].kind = "seed" /\ ~ lost[c] =>
        /\ Through(c) \in Nat
        /\ \A i \in 1 .. Len(jobs[c]) : jobs[c][i] = SeedJobs[Through(c) + i]
        /\ \A i \in 1 .. Through(c) : Done(SeedJobs[i])

PlansInv ==
    /\ PlansTypeOK /\ JobsTyped
    /\ \A c \in Caller : PlanThere(c) /\ OnScript(c)

\* Plans and offers stay.
Grows ==
    /\ plans \subseteq plans'
    /\ \A p \in Plan : offers[p] # 0 => offers'[p] # 0

-----------------------------------------------------------------------------
(***************************************************************************)
(* The script of the seed.                                                 *)
(***************************************************************************)
LEMMA Halves ==
    ASSUME NEW k \in Nat
    PROVE  /\ (2 * k) \div 2 = k /\ (2 * k + 1) \div 2 = k
           /\ (2 * k) % 2 = 0 /\ (2 * k + 1) % 2 = 1
  OBVIOUS

LEMMA EvenOrOdd ==
    ASSUME NEW i \in Nat, NEW n \in Nat, 2 <= i, i <= 2 * n + 1
    PROVE  \E k \in 1 .. n : i = 2 * k \/ i = 2 * k + 1
<1> DEFINE k == i \div 2
<1>1. k \in 1 .. n /\ (i = 2 * k \/ i = 2 * k + 1)
  OBVIOUS
<1> QED
  BY <1>1

LEMMA ScriptType == Script \in Seq(Plan \X (Nat \ {0})) /\ Len(Script) \in Nat
  BY PlansAssumption

\* The job that creates a plan of the script, and the one that offers its
\* feature.
LEMMA JobsOfPlan ==
    ASSUME NEW k \in 1 .. Len(Script)
    PROVE  /\ 2 * k \in 1 .. Len(SeedJobs) /\ 2 * k + 1 \in 1 .. Len(SeedJobs)
           /\ SeedJobs[2 * k] = Job("plan", Script[k][1], 0)
           /\ SeedJobs[2 * k + 1] = Job("offer", Script[k][1], Script[k][2])
<1>1. Len(Script) \in Nat /\ k \in Nat
  BY ScriptType
<1>2. /\ (2 * k) \div 2 = k /\ (2 * k + 1) \div 2 = k
      /\ 1 + ((2 * k) % 2) = 1 /\ 1 + ((2 * k + 1) % 2) = 2
  BY <1>1, Halves
<1>3. /\ 2 * k \in 1 .. (2 * Len(Script) + 1) /\ 2 * k # 1
      /\ 2 * k + 1 \in 1 .. (2 * Len(Script) + 1) /\ 2 * k + 1 # 1
  BY <1>1
<1>4. Len(SeedJobs) = 2 * Len(Script) + 1
  BY <1>1 DEF SeedJobs
<1>5. SeedPlan(Script[k])[1] = Job("plan", Script[k][1], 0)
      /\ SeedPlan(Script[k])[2] = Job("offer", Script[k][1], Script[k][2])
  BY DEF SeedPlan
<1>6. /\ SeedJobs[2 * k] = SeedPlan(Script[k])[1]
      /\ SeedJobs[2 * k + 1] = SeedPlan(Script[k])[2]
  BY <1>2, <1>3 DEF SeedJobs
<1> QED
  BY <1>3, <1>4, <1>5, <1>6

LEMMA SeedType == SeedJobs \in Seq(AJob) /\ Len(SeedJobs) \in Nat
<1>1. Len(Script) \in Nat
  BY ScriptType
<1>2. DOMAIN SeedJobs = 1 .. (2 * Len(Script) + 1) /\ Len(SeedJobs) = 2 * Len(Script) + 1
  BY <1>1 DEF SeedJobs
<1>3. SeedJobs[1] \in AJob
  <2>1. AnyPlan \in Plan
    BY PlansAssumption DEF AnyPlan
  <2>2. SeedJobs[1] = Job("feature", AnyPlan, 0)
    BY <1>1 DEF SeedJobs, SeedCatalog
  <2> QED
    BY <2>1, <2>2 DEF Job, AJob
<1>4. ASSUME NEW k \in 1 .. Len(Script)
      PROVE  SeedJobs[2 * k] \in AJob /\ SeedJobs[2 * k + 1] \in AJob
  <2>1. Script[k][1] \in Plan /\ Script[k][2] \in Nat \ {0}
    BY ScriptType
  <2>2. Job("plan", Script[k][1], 0) \in AJob
    BY <2>1 DEF Job, AJob
  <2>3. Job("offer", Script[k][1], Script[k][2]) \in AJob
    BY <2>1 DEF Job, AJob
  <2> QED
    BY <2>2, <2>3, JobsOfPlan
<1>5. \A i \in 1 .. (2 * Len(Script) + 1) : SeedJobs[i] \in AJob
  <2> SUFFICES ASSUME NEW i \in 1 .. (2 * Len(Script) + 1), i # 1 PROVE SeedJobs[i] \in AJob
    BY <1>3
  <2>1. \E k \in 1 .. Len(Script) : i = 2 * k \/ i = 2 * k + 1
    <3>1. i \in Nat /\ 2 <= i /\ i <= 2 * Len(Script) + 1
      BY <1>1
    <3> QED
      BY <1>1, <3>1, EvenOrOdd
  <2> QED
    BY <2>1, <1>4
<1>6. SeedJobs = [i \in 1 .. (2 * Len(Script) + 1) |-> SeedJobs[i]]
  BY DEF SeedJobs
<1> QED
  BY <1>1, <1>2, <1>5, <1>6

LEMMA Tails ==
    ASSUME NEW S, NEW s \in Seq(S), s # <<>>
    PROVE  /\ Tail(s) \in Seq(S) /\ Len(Tail(s)) = Len(s) - 1 /\ Len(s) \in Nat \ {0}
           /\ Head(s) \in S /\ Head(s) = s[1]
           /\ \A i \in 1 .. (Len(s) - 1) : Tail(s)[i] = s[i + 1]
  OBVIOUS

-----------------------------------------------------------------------------
(***************************************************************************)
(* A step of caller c: it goes on in its job, is through with it, or loses *)
(* it; the other callers' jobs stay as they are.                           *)
(***************************************************************************)
Alone(c) ==
    \A u \in Caller : u # c =>
        jobs'[u] = jobs[u] /\ at'[u] = at[u] /\ got'[u] = got[u] /\ lost'[u] = lost[u]

LEMMA JobStepKeeps ==
    ASSUME PlansInv, NEW c \in Caller, UNCHANGED call, PlansTypeOK', JobsTyped',
           Alone(c), Grows, PlanThere(c)',
           \/ jobs'[c] = jobs[c] /\ lost'[c] = lost[c]
           \/ /\ jobs[c] # <<>> /\ jobs'[c] = Tail(jobs[c]) /\ lost'[c] = lost[c]
              /\ \E j \in AJob : j = Head(jobs[c]) /\ Done(j)'
           \/ lost'[c]
    PROVE  PlansInv'
<1> USE DEF PlansInv
<1>1. ASSUME NEW j \in AJob, Done(j) PROVE Done(j)'
  <2>1. j.plan \in Plan
    BY DEF AJob
  <2> QED
    BY <1>1, <2>1 DEF Done, Grows
<1>2. \A i \in 1 .. Len(SeedJobs) : SeedJobs[i] \in AJob
  BY SeedType
<1>3. ASSUME NEW u \in Caller, jobs'[u] = jobs[u], lost'[u] = lost[u]
      PROVE  OnScript(u)'
  <2> SUFFICES ASSUME call[u].kind = "seed", ~ lost[u]
               PROVE  /\ Through(u)' \in Nat
                      /\ \A i \in 1 .. Len(jobs'[u]) : jobs'[u][i] = SeedJobs[Through(u)' + i]
                      /\ \A i \in 1 .. Through(u)' : Done(SeedJobs[i])'
    BY <1>3 DEF OnScript
  <2>1. /\ Through(u)' = Through(u) /\ Through(u) \in Nat
        /\ \A i \in 1 .. Len(jobs[u]) : jobs[u][i] = SeedJobs[Through(u) + i]
        /\ \A i \in 1 .. Through(u) : Done(SeedJobs[i])
    BY <1>3 DEF OnScript, Through
  <2>2. \A i \in 1 .. Through(u) : i \in 1 .. Len(SeedJobs)
    <3>1. Len(jobs[u]) \in Nat /\ Len(SeedJobs) \in Nat
      BY SeedType DEF JobsTyped
    <3> QED
      BY <3>1, <2>1 DEF Through
  <2>3. \A i \in 1 .. Through(u) : Done(SeedJobs[i])'
    BY <1>1, <1>2, <2>1, <2>2
  <2> QED
    BY <1>3, <2>1, <2>3
<1>4. OnScript(c)'
  <2>1. CASE jobs'[c] = jobs[c] /\ lost'[c] = lost[c]
    BY <2>1, <1>3
  <2>2. CASE /\ jobs[c] # <<>> /\ jobs'[c] = Tail(jobs[c]) /\ lost'[c] = lost[c]
             /\ \E j \in AJob : j = Head(jobs[c]) /\ Done(j)'
    <3> SUFFICES ASSUME call[c].kind = "seed", ~ lost[c]
                 PROVE  /\ Through(c)' \in Nat
                        /\ \A i \in 1 .. Len(jobs'[c]) : jobs'[c][i] = SeedJobs[Through(c)' + i]
                        /\ \A i \in 1 .. Through(c)' : Done(SeedJobs[i])'
      BY <2>2 DEF OnScript
    <3> DEFINE s == jobs[c]
               d == Through(c)
    <3>1. s \in Seq(AJob) /\ s # <<>>
      BY <2>2 DEF JobsTyped
    <3>2. /\ Len(jobs'[c]) = Len(s) - 1 /\ Len(s) \in Nat \ {0} /\ Head(s) = s[1]
          /\ \A i \in 1 .. (Len(s) - 1) : jobs'[c][i] = s[i + 1]
      BY <2>2, <3>1, Tails
    <3>3. /\ d \in Nat /\ d = Len(SeedJobs) - Len(s) /\ Len(SeedJobs) \in Nat
          /\ \A i \in 1 .. Len(s) : s[i] = SeedJobs[d + i]
          /\ \A i \in 1 .. d : Done(SeedJobs[i])
      BY SeedType DEF OnScript, Through
    <3>4. Through(c)' = d + 1
      BY <3>2, <3>3 DEF Through
    <3>5. PICK j \in AJob : j = Head(s) /\ Done(j)'
      BY <2>2
    <3> HIDE DEF s, d
    <3>6. PICK e \in Nat : e = d
      BY <3>3
    <3>7. /\ Len(s) \in Nat \ {0} /\ e + Len(s) = Len(SeedJobs) /\ Len(SeedJobs) \in Nat
          /\ Through(c)' = e + 1
      BY <3>2, <3>3, <3>4, <3>6
    <3>8. Done(SeedJobs[e + 1])'
      <4>1. 1 \in 1 .. Len(s)
        BY <3>7
      <4>2. j = SeedJobs[e + 1]
        BY <4>1, <3>2, <3>3, <3>5, <3>6
      <4> QED
        BY <4>2, <3>5
    <3>9. \A i \in 1 .. (e + 1) : Done(SeedJobs[i])'
      <4> SUFFICES ASSUME NEW i \in 1 .. (e + 1) PROVE Done(SeedJobs[i])'
        OBVIOUS
      <4>1. CASE i = e + 1
        BY <4>1, <3>8
      <4>2. CASE i # e + 1
        <5>1. i \in 1 .. e /\ i \in 1 .. Len(SeedJobs)
          BY <4>2, <3>7
        <5> QED
          BY <5>1, <3>3, <3>6, <1>1, <1>2
      <4> QED
        BY <4>1, <4>2
    <3>10. ASSUME NEW i \in 1 .. (Len(s) - 1)
           PROVE  jobs'[c][i] = SeedJobs[(e + 1) + i]
      <4>1. i + 1 \in 1 .. Len(s) /\ e + (i + 1) = (e + 1) + i
        BY <3>7
      <4>2. jobs'[c][i] = s[i + 1]
        BY <3>2
      <4>3. s[i + 1] = SeedJobs[e + (i + 1)]
        BY <4>1, <3>3, <3>6
      <4> QED
        BY <4>1, <4>2, <4>3
    <3> QED
      BY <3>2, <3>7, <3>9, <3>10
  <2>3. CASE lost'[c]
    BY <2>3 DEF OnScript
  <2> QED
    BY <2>1, <2>2, <2>3
<1>5. \A u \in Caller : OnScript(u)'
  BY <1>3, <1>4 DEF Alone
<1>6. ASSUME NEW u \in Caller, u # c PROVE PlanThere(u)'
  <2>1. jobs'[u] = jobs[u] /\ at'[u] = at[u] /\ got'[u] = got[u] /\ plans \subseteq plans'
    BY <1>6 DEF Alone, Grows
  <2> QED
    BY <2>1 DEF PlanThere, It
<1> QED
  BY <1>5, <1>6

\* What is typed besides the callers.
Tables ==
    /\ backend \in Backends
    /\ catalog \in BOOLEAN
    /\ plans \subseteq Plan
    /\ versions \in [Plan -> Seq(Version)]
    /\ offers \in [Plan -> Nat]
    /\ faults \in 0 .. MaxFaults
    /\ \A p \in Plan : p \notin plans => versions[p] = <<>> /\ offers[p] = 0

LEMMA ItsJob ==
    ASSUME PlansInv, NEW c \in Caller, jobs[c] # <<>>
    PROVE  /\ Head(jobs[c]) \in AJob /\ It(c) \in Plan
           /\ Head(jobs[c]).limit \in Nat
           /\ Head(jobs[c]).do = "offer" => Head(jobs[c]).limit # 0
<1>1. jobs[c] \in Seq(AJob)
  BY DEF PlansInv, JobsTyped
<1>2. Head(jobs[c]) \in AJob
  BY <1>1, Tails
<1> QED
  BY <1>2 DEF AJob, It

LEMMA FoundKeeps ==
    ASSUME PlansInv, NEW c \in Caller, UNCHANGED call, Tables', Grows,
           got' \in [Caller -> Nat], \A u \in Caller : u # c => got'[u] = got[u],
           NEW w \in Statement, At(c, w),
           w \in {"version", "deactivate"} \/ (w = "write" /\ got'[c] # 0) => It(c) \in plans'
    PROVE  PlansInv'
<1> USE DEF PlansInv
<1>1. JobsTyped' /\ at'[c] = w /\ Alone(c) /\ jobs' = jobs /\ lost' = lost
  BY DEF At, JobsTyped, Alone
<1>2. PlansTypeOK'
  BY <1>1 DEF PlansTypeOK, Tables
<1>3. PlanThere(c)'
  BY <1>1 DEF PlanThere, It
<1> QED
  BY <1>1, <1>2, <1>3, JobStepKeeps

LEMMA AtKeeps ==
    ASSUME PlansInv, NEW c \in Caller, UNCHANGED <<call, got>>, Tables', Grows,
           NEW w \in Statement, At(c, w),
           w \in {"version", "deactivate"} \/ (w = "write" /\ got[c] # 0) => It(c) \in plans'
    PROVE  PlansInv'
<1>1. got' \in [Caller -> Nat]
  BY DEF PlansInv, PlansTypeOK
<1> QED
  BY <1>1, FoundKeeps

LEMMA NextJobKeeps ==
    ASSUME PlansInv, NEW c \in Caller, jobs[c] # <<>>, UNCHANGED <<call, got>>, Tables', Grows,
           NextJob(c), \E j \in AJob : j = Head(jobs[c]) /\ Done(j)'
    PROVE  PlansInv'
<1> USE DEF PlansInv
<1>1. Tail(jobs[c]) \in Seq(AJob)
  BY Tails DEF JobsTyped
<1>2. /\ jobs' \in [Caller -> Seq(AJob)] /\ jobs'[c] = Tail(jobs[c])
      /\ \A u \in Caller : u # c => jobs'[u] = jobs[u]
  BY <1>1 DEF NextJob, JobsTyped
<1>3. /\ at' \in [Caller -> Statement] /\ at'[c] = "start" /\ lost' = lost
      /\ \A u \in Caller : u # c => at'[u] = at[u]
  BY DEF NextJob, JobsTyped, Statement
<1>4. JobsTyped' /\ Alone(c)
  BY <1>2, <1>3 DEF JobsTyped, Alone
<1>5. PlansTypeOK'
  BY <1>3 DEF PlansTypeOK, Tables
<1>6. PlanThere(c)'
  BY <1>3 DEF PlanThere
<1> QED
  BY <1>2, <1>3, <1>4, <1>5, <1>6, JobStepKeeps

LEMMA FailKeeps ==
    ASSUME PlansInv, NEW c \in Caller, jobs[c] # <<>>, UNCHANGED call, Tables', Grows,
           got' \in [Caller -> Nat], \A u \in Caller : u # c => got'[u] = got[u],
           Fail(c)
    PROVE  PlansInv'
<1> USE DEF PlansInv
<1>1. Tail(jobs[c]) \in Seq(AJob) /\ <<>> \in Seq(AJob)
  BY Tails DEF JobsTyped
<1>2. /\ jobs' \in [Caller -> Seq(AJob)]
      /\ \A u \in Caller : u # c => jobs'[u] = jobs[u]
  BY <1>1 DEF Fail, JobsTyped
<1>3. /\ at' \in [Caller -> Statement] /\ at'[c] = "start"
      /\ \A u \in Caller : u # c => at'[u] = at[u]
  BY DEF Fail, JobsTyped, Statement
<1>4. lost' \in [Caller -> BOOLEAN] /\ lost'[c] /\ \A u \in Caller : u # c => lost'[u] = lost[u]
  BY DEF Fail, PlansTypeOK
<1>5. JobsTyped' /\ Alone(c)
  BY <1>2, <1>3, <1>4 DEF JobsTyped, Alone
<1>6. PlansTypeOK'
  BY <1>4 DEF PlansTypeOK, Tables
<1>7. PlanThere(c)'
  BY <1>3 DEF PlanThere
<1> QED
  BY <1>4, <1>5, <1>6, <1>7, JobStepKeeps

-----------------------------------------------------------------------------
(***************************************************************************)
(* The statements of the jobs.                                             *)
(***************************************************************************)
LEMMA TablesStay ==
    ASSUME PlansInv, UNCHANGED planVars, UNCHANGED backend, faults' \in 0 .. MaxFaults
    PROVE  Tables' /\ Grows
  BY DEF PlansInv, PlansTypeOK, Tables, Grows, planVars

LEMMA FeatureKeeps ==
    ASSUME PlansInv, NEW c \in Caller, UNCHANGED <<call, backend>>,
           FindFeature(c) \/ InsertFeature(c)
    PROVE  PlansInv'
<1>1. /\ jobs[c] # <<>> /\ Head(jobs[c]).do = "feature" /\ UNCHANGED <<got, plans, versions, offers, faults>>
      /\ catalog' \in {catalog, TRUE}
  BY DEF FindFeature, InsertFeature, Doing, planVars
<1>2. Tables' /\ Grows
  <2>1. catalog' \in BOOLEAN
    BY <1>1 DEF PlansInv, PlansTypeOK
  <2> QED
    BY <1>1, <2>1 DEF PlansInv, PlansTypeOK, Tables, Grows
<1>3. \E j \in AJob : j = Head(jobs[c]) /\ Done(j)'
  <2>1. PICK j \in AJob : j = Head(jobs[c])
    BY <1>1, ItsJob
  <2>2. Done(j)'
    BY <1>1, <2>1 DEF Done
  <2> QED
    BY <2>1, <2>2
<1>4. NextJob(c) \/ Fail(c) \/ At(c, "insert")
  BY DEF FindFeature, InsertFeature
<1>5. got' \in [Caller -> Nat] /\ "insert" \in Statement
  BY <1>1 DEF PlansInv, PlansTypeOK, Statement
<1> QED
  BY <1>1, <1>2, <1>3, <1>4, <1>5, NextJobKeeps, FailKeeps, AtKeeps

LEMMA FindPlanKeeps ==
    ASSUME PlansInv, NEW c \in Caller, UNCHANGED <<call, backend>>, FindPlan(c)
    PROVE  PlansInv'
<1>1. /\ jobs[c] # <<>> /\ Head(jobs[c]).do = "plan"
      /\ UNCHANGED planVars /\ UNCHANGED <<got, faults>>
      /\ IF It(c) \in plans THEN NextJob(c) ELSE At(c, "insert")
  BY DEF FindPlan, Doing
<1>2. Tables' /\ Grows
  BY <1>1, TablesStay DEF PlansInv, PlansTypeOK
<1>3. CASE It(c) \in plans
  <2>1. PICK j \in AJob : j = Head(jobs[c])
    BY <1>1, ItsJob
  <2>2. Done(j)'
    BY <1>1, <1>3, <2>1 DEF Done, It, planVars
  <2> QED
    BY <1>1, <1>2, <1>3, <2>1, <2>2, NextJobKeeps
<1>4. CASE It(c) \notin plans
  <2>1. "insert" \in Statement
    BY DEF Statement
  <2> QED
    BY <1>1, <1>2, <1>4, <2>1, AtKeeps
<1> QED
  BY <1>3, <1>4

LEMMA InsertPlanKeeps ==
    ASSUME PlansInv, NEW c \in Caller, UNCHANGED <<call, backend>>, InsertPlan(c)
    PROVE  PlansInv'
<1>1. /\ jobs[c] # <<>> /\ plans' = plans \cup {It(c)}
      /\ UNCHANGED <<got, catalog, versions, offers, faults>>
      /\ IF It(c) \in plans THEN Fail(c) ELSE At(c, "version")
  BY DEF InsertPlan, Doing
<1>2. It(c) \in Plan
  BY <1>1, ItsJob
<1>3. Tables' /\ Grows
  BY <1>1, <1>2 DEF PlansInv, PlansTypeOK, Tables, Grows
<1>4. got' \in [Caller -> Nat] /\ "version" \in Statement /\ It(c) \in plans'
  BY <1>1 DEF PlansInv, PlansTypeOK, Statement
<1> QED
  BY <1>1, <1>3, <1>4, FailKeeps, AtKeeps

LEMMA InsertVersionKeeps ==
    ASSUME PlansInv, NEW c \in Caller, UNCHANGED <<call, backend>>, InsertVersion(c)
    PROVE  PlansInv'
<1>1. /\ jobs[c] # <<>> /\ at[c] = "version" /\ Head(jobs[c]).do \in {"plan", "create"}
      /\ versions' = [versions EXCEPT ![It(c)] = Append(@, [number |-> 1, active |-> TRUE])]
      /\ UNCHANGED <<got, catalog, plans, offers, faults>> /\ NextJob(c)
  BY DEF InsertVersion, Doing
<1>2. It(c) \in Plan /\ It(c) \in plans
  BY <1>1, ItsJob DEF PlansInv, PlanThere
<1>3. Tables' /\ Grows
  <2>1. versions \in [Plan -> Seq(Version)] /\ [number |-> 1, active |-> TRUE] \in Version
    BY DEF PlansInv, PlansTypeOK, Version
  <2>2. Append(versions[It(c)], [number |-> 1, active |-> TRUE]) \in Seq(Version)
    BY <1>2, <2>1
  <2>3. versions' \in [Plan -> Seq(Version)] /\ \A p \in Plan : p # It(c) => versions'[p] = versions[p]
    BY <1>1, <2>1, <2>2
  <2> QED
    BY <1>1, <1>2, <2>3 DEF PlansInv, PlansTypeOK, Tables, Grows
<1>4. PICK j \in AJob : j = Head(jobs[c])
  BY <1>1, ItsJob
<1>5. Done(j)'
  BY <1>1, <1>2, <1>4 DEF Done, It
<1> QED
  BY <1>1, <1>3, <1>4, <1>5, NextJobKeeps

LEMMA FindKeyKeeps ==
    ASSUME PlansInv, NEW c \in Caller, UNCHANGED <<call, backend>>, FindKey(c)
    PROVE  PlansInv'
<1>1. /\ jobs[c] # <<>> /\ UNCHANGED planVars /\ UNCHANGED <<got, faults>>
      /\ Fail(c) \/ At(c, "pair")
  BY DEF FindKey, Doing
<1>2. Tables' /\ Grows
  BY <1>1, TablesStay DEF PlansInv, PlansTypeOK
<1>3. got' \in [Caller -> Nat] /\ "pair" \in Statement
  BY <1>1 DEF PlansInv, PlansTypeOK, Statement
<1> QED
  BY <1>1, <1>2, <1>3, FailKeeps, AtKeeps

LEMMA FindPairKeeps ==
    ASSUME PlansInv, NEW c \in Caller, UNCHANGED <<call, backend>>, FindPair(c)
    PROVE  PlansInv'
<1>1. /\ jobs[c] # <<>> /\ UNCHANGED planVars /\ UNCHANGED faults
      /\ got' = [got EXCEPT ![c] = offers[It(c)]] /\ At(c, "write")
  BY DEF FindPair, Doing
<1>2. Tables' /\ Grows
  BY <1>1, TablesStay DEF PlansInv, PlansTypeOK
<1>3. It(c) \in Plan
  BY <1>1, ItsJob
<1>4. /\ got' \in [Caller -> Nat] /\ got'[c] = offers[It(c)]
      /\ \A u \in Caller : u # c => got'[u] = got[u]
  BY <1>1, <1>3 DEF PlansInv, PlansTypeOK
<1>5. "write" \in Statement /\ (got'[c] # 0 => It(c) \in plans')
  BY <1>1, <1>3, <1>4 DEF PlansInv, PlansTypeOK, Statement, planVars
<1> QED
  BY <1>1, <1>2, <1>4, <1>5, FoundKeeps

\* An offer is written for a plan that is there, or not at all.
LEMMA WriteOfferKeeps ==
    ASSUME PlansInv, NEW c \in Caller, UNCHANGED <<call, backend>>, WriteOffer(c)
    PROVE  PlansInv'
<1> DEFINE p == It(c)
           l == Head(jobs[c]).limit
<1>1. /\ jobs[c] # <<>> /\ at[c] = "write" /\ Head(jobs[c]).do = "offer"
      /\ \/ /\ got[c] = 0 /\ (offers[p] # 0 \/ p \notin plans)
            /\ UNCHANGED offers
         \/ /\ ~ (got[c] = 0 /\ (offers[p] # 0 \/ p \notin plans))
            /\ offers' = [offers EXCEPT ![p] = l]
      /\ IF p \in plans THEN NextJob(c) ELSE Fail(c)
      /\ UNCHANGED <<got, catalog, plans, versions, faults>>
  BY DEF WriteOffer, Doing
<1>2. p \in Plan /\ l \in Nat /\ l # 0
  BY <1>1, ItsJob
<1>3. got[c] # 0 => p \in plans
  BY <1>1 DEF PlansInv, PlanThere
<1>4. offers \in [Plan -> Nat] /\ got[c] \in Nat
  BY DEF PlansInv, PlansTypeOK
<1> HIDE DEF p, l
<1>5. /\ offers' \in [Plan -> Nat] /\ (p \in plans => offers'[p] # 0)
      /\ \A q \in Plan : offers[q] # 0 => offers'[q] # 0
      /\ \A q \in Plan : q \notin plans => offers'[q] = offers[q]
  <2>1. CASE UNCHANGED offers /\ got[c] = 0 /\ (offers[p] # 0 \/ p \notin plans)
    BY <2>1, <1>4
  <2>2. CASE offers' = [offers EXCEPT ![p] = l] /\ p \in plans
    BY <2>2, <1>2, <1>4
  <2> QED
    BY <1>1, <1>3, <2>1, <2>2
<1>6. Tables' /\ Grows
  BY <1>1, <1>5 DEF PlansInv, PlansTypeOK, Tables, Grows
<1>7. CASE p \in plans
  <2>1. PICK j \in AJob : j = Head(jobs[c])
    BY <1>1, ItsJob
  <2>2. PICK q \in Plan : q = p
    BY <1>2
  <2>3. offers'[q] # 0 /\ j.plan = q
    BY <1>5, <1>7, <2>1, <2>2 DEF p, It
  <2>4. Done(j)'
    BY <1>1, <2>1, <2>3 DEF Done
  <2> QED
    BY <1>1, <1>6, <1>7, <2>1, <2>4, NextJobKeeps
<1>8. CASE p \notin plans
  <2>1. got' \in [Caller -> Nat]
    BY <1>1 DEF PlansInv, PlansTypeOK
  <2> QED
    BY <1>1, <1>6, <1>8, <2>1, FailKeeps
<1> QED
  BY <1>7, <1>8

LEMMA FindCurrentKeeps ==
    ASSUME PlansInv, NEW c \in Caller, UNCHANGED <<call, backend>>, FindCurrent(c)
    PROVE  PlansInv'
<1>1. /\ jobs[c] # <<>> /\ UNCHANGED planVars /\ UNCHANGED faults /\ At(c, "plan")
      /\ \E i \in Active(It(c)) \cup {0} : got' = [got EXCEPT ![c] = i]
  BY DEF FindCurrent, Doing
<1>2. Tables' /\ Grows
  BY <1>1, TablesStay DEF PlansInv, PlansTypeOK
<1>3. Active(It(c)) \subseteq Nat
  <2>1. It(c) \in Plan
    BY <1>1, ItsJob
  <2>2. versions[It(c)] \in Seq(Version)
    BY <2>1 DEF PlansInv, PlansTypeOK
  <2>3. DOMAIN versions[It(c)] \subseteq Nat
    BY <2>2
  <2> QED
    BY <2>3 DEF Active
<1>4. got' \in [Caller -> Nat] /\ \A u \in Caller : u # c => got'[u] = got[u]
  <2>1. \A i \in Active(It(c)) \cup {0} : i \in Nat
    BY <1>3
  <2> QED
    BY <1>1, <2>1 DEF PlansInv, PlansTypeOK
<1>5. "plan" \in Statement
  BY DEF Statement
<1> QED
  BY <1>1, <1>2, <1>4, <1>5, FoundKeeps

LEMMA LoadPlanKeeps ==
    ASSUME PlansInv, NEW c \in Caller, UNCHANGED <<call, backend>>, LoadPlan(c)
    PROVE  PlansInv'
<1>1. /\ jobs[c] # <<>> /\ UNCHANGED planVars /\ UNCHANGED <<got, faults>>
      /\ Fail(c) \/ (It(c) \in plans /\ \E w \in {"insert", "deactivate"} : At(c, w))
  BY DEF LoadPlan, Doing
<1>2. Tables' /\ Grows
  BY <1>1, TablesStay DEF PlansInv, PlansTypeOK
<1>3. got' \in [Caller -> Nat] /\ plans' = plans
  BY <1>1 DEF PlansInv, PlansTypeOK, planVars
<1>4. \A w \in {"insert", "deactivate"} : w \in Statement
  BY DEF Statement
<1> QED
  BY <1>1, <1>2, <1>3, <1>4, FailKeeps, AtKeeps

\* A version that is taken out of force, if it is there.
LEMMA Deactivated ==
    ASSUME NEW v \in Seq(Version), NEW g
    PROVE  [v EXCEPT ![g] = [@ EXCEPT !.active = FALSE]] \in Seq(Version)
<1>1. Len(v) \in Nat /\ DOMAIN v = 1 .. Len(v) /\ v \in [1 .. Len(v) -> Version]
  OBVIOUS
<1>2. CASE g \in 1 .. Len(v)
  <2> DEFINE r == [v[g] EXCEPT !.active = FALSE]
  <2>1. v[g] \in Version
    BY <1>2
  <2>2. r \in Version
    BY <2>1 DEF Version
  <2> HIDE DEF r
  <2>3. [v EXCEPT ![g] = r] \in Seq(Version)
    BY <1>2, <2>2
  <2> QED
    BY <2>3 DEF r
<1>3. CASE g \notin 1 .. Len(v)
  <2>1. [v EXCEPT ![g] = [@ EXCEPT !.active = FALSE]] = v
    BY <1>1, <1>3
  <2> QED
    BY <2>1
<1> QED
  BY <1>2, <1>3

LEMMA DeactivateKeeps ==
    ASSUME PlansInv, NEW c \in Caller, UNCHANGED <<call, backend>>, Deactivate(c)
    PROVE  PlansInv'
<1> DEFINE p == It(c)
           v == [versions[p] EXCEPT ![got[c]] = [@ EXCEPT !.active = FALSE]]
<1>1. /\ jobs[c] # <<>> /\ at[c] = "deactivate"
      /\ versions' = [versions EXCEPT ![p] = v]
      /\ At(c, "insert") /\ UNCHANGED <<got, catalog, plans, offers, faults>>
  BY DEF Deactivate, Doing
<1>2. p \in Plan /\ p \in plans
  BY <1>1, ItsJob DEF PlansInv, PlanThere
<1>3. versions \in [Plan -> Seq(Version)]
  BY DEF PlansInv, PlansTypeOK
<1>4. v \in Seq(Version)
  BY <1>2, <1>3, Deactivated
<1> HIDE DEF v, p
<1>5. versions' \in [Plan -> Seq(Version)] /\ \A q \in Plan : q # p => versions'[q] = versions[q]
  BY <1>1, <1>2, <1>3, <1>4
<1>6. Tables' /\ Grows
  BY <1>1, <1>2, <1>5 DEF PlansInv, PlansTypeOK, Tables, Grows
<1>7. "insert" \in Statement
  BY DEF Statement
<1> QED
  BY <1>1, <1>6, <1>7, AtKeeps

LEMMA InsertNextKeeps ==
    ASSUME PlansInv, NEW c \in Caller, UNCHANGED <<call, backend>>, InsertNext(c)
    PROVE  PlansInv'
<1>1. jobs[c] # <<>> /\ UNCHANGED planVars /\ UNCHANGED <<got, faults>> /\ Fail(c)
  BY DEF InsertNext, Doing
<1>2. Tables' /\ Grows
  BY <1>1, TablesStay DEF PlansInv, PlansTypeOK
<1>3. got' \in [Caller -> Nat]
  BY <1>1 DEF PlansInv, PlansTypeOK
<1> QED
  BY <1>1, <1>2, <1>3, FailKeeps

-----------------------------------------------------------------------------
(***************************************************************************)
(* What fails.                                                             *)
(***************************************************************************)
LEMMA OneFault ==
    ASSUME PlansInv, faults < MaxFaults, faults' = faults + 1
    PROVE  faults' \in 0 .. MaxFaults
  BY PlansAssumption DEF PlansInv, PlansTypeOK

LEMMA QueryFailsKeeps ==
    ASSUME PlansInv, NEW c \in Caller, UNCHANGED <<call, backend>>, QueryFails(c)
    PROVE  PlansInv'
<1>1. /\ jobs[c] # <<>> /\ UNCHANGED planVars /\ faults < MaxFaults /\ faults' = faults + 1
      /\ got' = [got EXCEPT ![c] = 0]
      /\ Fail(c) \/ \E w \in {"write", "plan", "insert"} : At(c, w)
  BY DEF QueryFails
<1>2. Tables' /\ Grows
  BY <1>1, OneFault, TablesStay
<1>3. got' \in [Caller -> Nat] /\ got'[c] = 0 /\ \A u \in Caller : u # c => got'[u] = got[u]
  BY <1>1 DEF PlansInv, PlansTypeOK
<1>4. \A w \in {"write", "plan", "insert"} : w \in Statement
  BY DEF Statement
<1> QED
  BY <1>1, <1>2, <1>3, <1>4, FailKeeps, FoundKeeps

LEMMA JobFailsKeeps ==
    ASSUME PlansInv, NEW c \in Caller, UNCHANGED <<call, backend>>, JobFails(c)
    PROVE  PlansInv'
<1>1. /\ jobs[c] # <<>> /\ UNCHANGED planVars /\ UNCHANGED got
      /\ faults < MaxFaults /\ faults' = faults + 1
  BY DEF JobFails
<1>2. Tables' /\ Grows
  BY <1>1, OneFault, TablesStay
<1>3. got' \in [Caller -> Nat]
  BY <1>1 DEF PlansInv, PlansTypeOK
<1>4. CASE Fail(c)
  BY <1>1, <1>2, <1>3, <1>4, FailKeeps
<1>5. CASE /\ jobs' = [jobs EXCEPT ![c] = <<>>] /\ UNCHANGED at
           /\ lost' = [lost EXCEPT ![c] = TRUE]
  <2>1. <<>> \in Seq(AJob)
    OBVIOUS
  <2>2. jobs' \in [Caller -> Seq(AJob)] /\ jobs'[c] = <<>>
        /\ \A u \in Caller : u # c => jobs'[u] = jobs[u]
    BY <1>5, <2>1 DEF PlansInv, JobsTyped
  <2>3. lost' \in [Caller -> BOOLEAN] /\ lost'[c] /\ \A u \in Caller : u # c => lost'[u] = lost[u]
    BY <1>5 DEF PlansInv, PlansTypeOK
  <2>4. JobsTyped' /\ Alone(c)
    BY <1>1, <1>5, <2>2, <2>3 DEF PlansInv, JobsTyped, Alone
  <2>5. PlansTypeOK'
    BY <1>2, <1>3, <2>3 DEF PlansTypeOK, Tables
  <2>6. PlanThere(c)'
    BY <2>2 DEF PlanThere
  <2> QED
    BY <1>2, <2>3, <2>4, <2>5, <2>6, JobStepKeeps
<1> QED
  BY <1>4, <1>5 DEF JobFails

LEMMA PlansKeep ==
    ASSUME PlansInv, NEW c \in Caller, OfPlans(c)
    PROVE  PlansInv'
<1>1. UNCHANGED <<call, backend>>
  BY DEF OfPlans, locals
<1>2. PlanStep(c) \/ QueryFails(c) \/ JobFails(c)
  BY DEF OfPlans
<1>3. CASE PlanStep(c)
  BY <1>1, <1>3, FeatureKeeps, FindPlanKeeps, InsertPlanKeeps, InsertVersionKeeps, FindKeyKeeps,
     FindPairKeeps, WriteOfferKeeps, FindCurrentKeeps, LoadPlanKeeps, DeactivateKeeps,
     InsertNextKeeps DEF PlanStep
<1> QED
  BY <1>1, <1>2, <1>3, QueryFailsKeeps, JobFailsKeeps

-----------------------------------------------------------------------------
(***************************************************************************)
(* What holds of the calls, the subscriptions and the usage.               *)
(***************************************************************************)
Row == [status : Status, plan : Plan, stripe : Stripe]

UsageType == [used : Nat, limit : Nat \cup {NoUsage.limit, Unlimited}, active : BOOLEAN]

\* Where a call may begin.
Begin == {"plan", "look", "check", "find", "enable", "done"}

Place == Begin \cup {"insert", "update", "features", "log", "create", "look for usage",
                    "upsert", "read", "count"}

CallsTyped ==
    /\ call \in Mixes
    /\ subs \in Seq(Row)
    /\ sub \in [Caller -> 0 .. Len(subs)]
    /\ events \in Seq(Nat) /\ Len(events) = Len(subs)
    /\ amount \in [Caller -> 0 .. MaxAmount] /\ read \in [Caller -> Nat]
    /\ uses \in [Caller -> 0 .. MaxUses]
    /\ usage \in UsageType
    /\ consumed \in Nat
    /\ pc \in [Caller -> Place]

\* A call that works on a subscription has one.
HasRow(c) ==
    pc[c] \in {"update", "features", "log"} \/ (pc[c] \in {"look", "plan"} /\ call[c].kind = "upgrade")
        => sub[c] # 0

\* The users that have passed the check and have not counted yet.
Inside == {c \in Users : pc[c] = "count"}

\* Of the Postgres repository: the usage is what was consumed, and there is
\* room for what the users inside will take.
Room ==
    /\ consumed = usage.used
    /\ \A c \in Caller : pc[c] # "read"
    /\ usage.limit >= 0 =>
          consumed + Cardinality(Inside) * MaxAmount
              < Max({1, usage.limit}) + Cardinality(Users) * MaxAmount

IInv ==
    /\ PlansInv /\ CallsTyped
    /\ \A c \in Caller : HasRow(c)
    /\ backend = "postgres" => Room

-----------------------------------------------------------------------------
LEMMA MaxOfTwo ==
    ASSUME NEW a \in Int, NEW b \in Int
    PROVE  Max({a, b}) = IF a >= b THEN a ELSE b
<1> DEFINE m == IF a >= b THEN a ELSE b
<1>1. m \in {a, b} /\ \A y \in {a, b} : m >= y
  OBVIOUS
<1>2. \A x \in {a, b} : (\A y \in {a, b} : x >= y) => x = m
  OBVIOUS
<1> HIDE DEF m
<1>3. Max({a, b}) = m
  BY <1>1, <1>2 DEF Max
<1> QED
  BY <1>3 DEF m

\* The place of the last entry of the script for a plan is one of its entries.
LEMMA GreatestPlace ==
    ASSUME NEW n \in Nat, NEW S, S \subseteq 1 .. n, S # {}
    PROVE  Max(S) \in S
<1> DEFINE Distance == {n - i : i \in S}
<1>1. Distance \subseteq Nat /\ Distance # {}
  <2>1. \A i \in S : n - i \in Nat
    OBVIOUS
  <2>2. \E i \in S : n - i \in Distance
    BY Zenon
  <2> QED
    BY <2>1, <2>2
<1> HIDE DEF Distance
<1>2. PICK d \in Distance : \A e \in Distance : ~ (<<e, d>> \in OpToRel(<, Nat))
  BY <1>1, NatLessThanWellFounded, WFMin, Zenon
<1>3. \A e \in Distance : ~ (e < d)
  BY <1>1, <1>2 DEF OpToRel
<1>4. \E i \in S : \A j \in S : i >= j
  <2>1. PICK i \in S : d = n - i
    BY DEF Distance
  <2>2. ASSUME NEW j \in S PROVE i >= j
    <3>1. n - j \in Distance
      BY DEF Distance
    <3> QED
      BY <3>1, <2>1, <1>3
  <2> QED
    BY <2>2
<1> QED
  BY <1>4, Zenon DEF Max

LEMMA LimitType ==
    ASSUME NEW p \in Plan
    PROVE  Limit(p) \in Nat
<1> DEFINE S == {j \in DOMAIN Script : Script[j][1] = p}
<1>1. S \subseteq 1 .. Len(Script) /\ Len(Script) \in Nat
  BY ScriptType
<1>2. CASE S = {}
  BY <1>2 DEF Limit
<1>3. CASE S # {}
  <2>1. Limit(p) = Script[Max(S)][2]
    BY <1>3 DEF Limit
  <2> HIDE DEF S
  <2>2. Max(S) \in S
    BY <1>1, <1>3, GreatestPlace
  <2>3. Max(S) \in 1 .. Len(Script)
    BY <1>1, <2>2
  <2>4. \A i \in 1 .. Len(Script) : Script[i][2] \in Nat
    BY ScriptType
  <2> QED
    BY <2>1, <2>3, <2>4
<1> QED
  BY <1>2, <1>3

\* Where a call begins, nothing has been found or checked yet.
LEMMA Begins ==
    ASSUME NEW kind
    PROVE  Start(kind) \in Begin /\ (Start(kind) \in {"look", "plan"} => kind # "upgrade")
  BY DEF Start, Begin

LEMMA RaisedTo ==
    ASSUME NEW c \in Caller, CallsTyped, Raised(c)
    PROVE  /\ \E l \in Begin : pc' = [pc EXCEPT ![c] = l] /\ (l \in {"look", "plan"} => call[c].kind # "upgrade")
           /\ UNCHANGED backend /\ UNCHANGED planVars /\ UNCHANGED jobVars
<1>1. Start(call[c].kind) \in Begin /\ (Start(call[c].kind) \in {"look", "plan"} => call[c].kind # "upgrade")
  BY Begins
<1>2. "done" \in Begin
  BY DEF Begin
<1> QED
  BY <1>1, <1>2 DEF Raised, Goto

LEMMA QuietPlans ==
    ASSUME PlansInv, UNCHANGED <<call, backend, plans, versions, offers>>, UNCHANGED jobVars,
           catalog' \in BOOLEAN, faults' \in 0 .. MaxFaults
    PROVE  PlansInv'
<1>1. UNCHANGED <<jobs, at, got, lost>>
  BY DEF jobVars
<1>2. PlansTypeOK'
  BY <1>1 DEF PlansInv, PlansTypeOK
<1>3. JobsTyped'
  BY <1>1 DEF PlansInv, JobsTyped
<1>4. ASSUME NEW c \in Caller PROVE PlanThere(c)' /\ OnScript(c)'
  <2>1. PlanThere(c) /\ OnScript(c)
    BY DEF PlansInv
  <2>2. PlanThere(c)'
    BY <1>1, <2>1 DEF PlanThere, It
  <2>3. OnScript(c)'
    BY <1>1, <2>1 DEF OnScript, Through, Done
  <2> QED
    BY <2>2, <2>3
<1> QED
  BY <1>2, <1>3, <1>4 DEF PlansInv

-----------------------------------------------------------------------------
(***************************************************************************)
(* Counting the users inside.                                              *)
(***************************************************************************)
LEMMA Times ==
    ASSUME NEW a \in Nat, NEW b \in Nat, NEW m \in Nat
    PROVE  /\ a * m \in Nat /\ (a + 1) * m = a * m + m
           /\ a <= b => a * m <= b * m
<1>1. a * m \in Nat /\ (a + 1) * m = a * m + m
  OBVIOUS
<1>2. ASSUME a <= b PROVE a * m <= b * m
  <2>1. PICK k \in Nat : b = a + k
    <3>1. b - a \in Nat /\ b = a + (b - a)
      BY <1>2
    <3> QED
      BY <3>1
  <2>2. (a + k) * m = a * m + k * m /\ k * m \in Nat
    OBVIOUS
  <2> QED
    BY <1>1, <2>1, <2>2
<1> QED
  BY <1>1, <1>2

LEMMA Crowd ==
    ASSUME NEW A, NEW B, IsFiniteSet(A), B \subseteq A
    PROVE  IsFiniteSet(B) /\ Cardinality(B) \in Nat /\ Cardinality(A) \in Nat
           /\ Cardinality(B) <= Cardinality(A)
  BY FS_Subset, FS_CardinalityType

LEMMA UsersFinite == IsFiniteSet(Users) /\ Cardinality(Users) \in Nat /\ MaxAmount \in Nat \ {0}
<1>1. Users \subseteq Caller
  BY DEF Users
<1> QED
  BY <1>1, BillingAssumption, Crowd

LEMMA InsideFinite == /\ IsFiniteSet(Inside) /\ Cardinality(Inside) \in Nat
                      /\ Cardinality(Inside) <= Cardinality(Users)
<1>1. Inside \subseteq Users
  BY DEF Inside
<1> QED
  BY <1>1, UsersFinite, Crowd

LEMMA Below ==
    ASSUME NEW x \in Int, NEW y \in Int, NEW z \in Int, x <= y, y < z
    PROVE  x < z
  OBVIOUS

LEMMA LimitIsInt ==
    ASSUME NEW u \in UsageType
    PROVE  /\ u.limit \in Int /\ u.used \in Nat /\ Max({1, u.limit}) \in Int
           /\ Max({1, u.limit}) >= 1 /\ Max({1, u.limit}) >= u.limit
<1>1. u.limit \in Int /\ u.used \in Nat
  BY DEF UsageType, NoUsage, Unlimited
<1> QED
  BY <1>1, MaxOfTwo

\* What was consumed and what may still be does not grow: the room is kept.
LEMMA RoomKept ==
    ASSUME Room, usage \in UsageType, consumed \in Nat, consumed' \in Nat, UNCHANGED call,
           usage'.limit = usage.limit, usage'.used = consumed',
           \A u \in Caller : pc'[u] # "read",
           consumed' + Cardinality(Inside') * MaxAmount
               <= consumed + Cardinality(Inside) * MaxAmount
    PROVE  Room'
<1> DEFINE A == Cardinality(Inside) * MaxAmount
           B == Cardinality(Inside') * MaxAmount
           U == Cardinality(Users) * MaxAmount
           M == Max({1, usage.limit})
<1>1. Inside' \subseteq Users
  BY DEF Inside, Users
<1>2. A \in Nat /\ B \in Nat /\ U \in Nat
  BY <1>1, InsideFinite, UsersFinite, Crowd, Times
<1>3. M \in Int
  BY LimitIsInt
<1>4. usage.limit >= 0 => consumed + A < M + U
  BY DEF Room
<1>5. Users' = Users
  BY DEF Users
<1>6. Max({1, usage'.limit}) = M /\ (Cardinality(Users) * MaxAmount)' = U
  BY <1>5
<1> HIDE DEF A, B, U, M
<1>7. usage.limit >= 0 => consumed' + B < M + U
  <2> SUFFICES ASSUME usage.limit >= 0 PROVE consumed' + B < M + U
    OBVIOUS
  <2>1. consumed' + B <= consumed + A
    BY DEF A, B
  <2>2. consumed + A < M + U
    BY <1>4
  <2>3. consumed' + B \in Int /\ consumed + A \in Int /\ M + U \in Int
    BY <1>2, <1>3
  <2> QED
    BY <2>1, <2>2, <2>3, Below
<1>8. usage'.limit >= 0 =>
          consumed' + Cardinality(Inside') * MaxAmount < Max({1, usage'.limit}) + (Cardinality(Users) * MaxAmount)'
  BY <1>6, <1>7 DEF B
<1> QED
  BY <1>8 DEF Room

\* Fewer users inside leave as much room.
LEMMA RoomStays ==
    ASSUME Room, usage \in UsageType, consumed \in Nat, UNCHANGED <<call, usage, consumed>>,
           Inside' \subseteq Inside, \A u \in Caller : pc'[u] # "read"
    PROVE  Room'
<1> DEFINE A == Cardinality(Inside)
           B == Cardinality(Inside')
<1>1. B \in Nat /\ A \in Nat /\ B <= A /\ MaxAmount \in Nat
  BY InsideFinite, UsersFinite, Crowd
<1>2. B * MaxAmount <= A * MaxAmount /\ B * MaxAmount \in Nat /\ A * MaxAmount \in Nat
  BY <1>1, Times
<1>3. consumed' + B * MaxAmount <= consumed + A * MaxAmount
  BY <1>2
<1>4. usage'.used = consumed'
  BY DEF Room
<1> HIDE DEF A, B
<1> QED
  BY <1>3, <1>4, RoomKept DEF A, B

\* Below the quota there is room for every user there is.
LEMMA RoomForAll ==
    ASSUME usage' \in UsageType, consumed' \in Nat, UNCHANGED call,
           usage'.used = consumed', \A u \in Caller : pc'[u] # "read",
           usage'.limit >= 0 => consumed' < Max({1, usage'.limit})
    PROVE  Room'
<1> DEFINE B == Cardinality(Inside') * MaxAmount
           U == Cardinality(Users) * MaxAmount
           M == Max({1, usage'.limit})
<1>1. Inside' \subseteq Users
  BY DEF Inside, Users
<1>2. /\ Cardinality(Inside') \in Nat /\ Cardinality(Users) \in Nat /\ MaxAmount \in Nat
      /\ Cardinality(Inside') <= Cardinality(Users)
  BY <1>1, UsersFinite, Crowd
<1>3. B \in Nat /\ U \in Nat /\ B <= U
  BY <1>2, Times
<1>4. M \in Int
  BY LimitIsInt
<1>5. Users' = Users
  BY DEF Users
<1>6. (Cardinality(Users) * MaxAmount)' = U
  BY <1>5
<1> HIDE DEF B, U, M
<1>7. usage'.limit >= 0 => consumed' + B < M + U
  BY <1>3, <1>4 DEF M
<1>8. usage'.limit >= 0 =>
          consumed' + Cardinality(Inside') * MaxAmount < Max({1, usage'.limit}) + (Cardinality(Users) * MaxAmount)'
  BY <1>6, <1>7 DEF B, M
<1> QED
  BY <1>8 DEF Room

\* A step of caller c that does not touch the usage.
LEMMA QuietKeeps ==
    ASSUME IInv, NEW c \in Caller, PlansInv', CallsTyped', HasRow(c)',
           UNCHANGED <<backend, call, usage, consumed>>,
           NEW l, pc' = [pc EXCEPT ![c] = l], l \notin {"read", "count"},
           \A u \in Caller : u # c => sub'[u] = sub[u]
    PROVE  IInv'
<1>1. pc \in [Caller -> Place]
  BY DEF IInv, CallsTyped
<1>2. \A u \in Caller : u # c => pc'[u] = pc[u]
  BY <1>1
<1>3. pc'[c] = l
  BY <1>1
<1>4. \A u \in Caller : HasRow(u)'
  <2> SUFFICES ASSUME NEW u \in Caller, u # c PROVE HasRow(u)'
    OBVIOUS
  <2> QED
    BY <1>2 DEF IInv, HasRow
<1>5. backend = "postgres" => Room'
  <2> SUFFICES ASSUME backend = "postgres" PROVE Room'
    OBVIOUS
  <2>1. Room
    BY DEF IInv
  <2>2. Inside' \subseteq Inside
    BY <1>2, <1>3 DEF Inside, Users
  <2>3. \A u \in Caller : pc'[u] # "read"
    BY <1>2, <1>3, <2>1 DEF Room
  <2> QED
    BY <2>1, <2>2, <2>3, RoomStays DEF IInv, CallsTyped
<1> QED
  BY <1>4, <1>5 DEF IInv

\* A step after which nothing but the next statement is another.
LEMMA MoveKeeps ==
    ASSUME IInv, NEW c \in Caller, NEW l \in Place \ {"read", "count"}, Goto(c, l),
           UNCHANGED <<locals, subs, usage, events, consumed>>, faults' \in 0 .. MaxFaults,
           l \in {"update", "features", "log"} \/ (l \in {"look", "plan"} /\ call[c].kind = "upgrade")
               => sub[c] # 0
    PROVE  IInv'
<1>1. /\ pc' = [pc EXCEPT ![c] = l] /\ UNCHANGED backend /\ UNCHANGED planVars
      /\ UNCHANGED jobVars /\ UNCHANGED <<call, sub, amount, read, uses>>
  BY DEF Goto, locals
<1>2. catalog' \in BOOLEAN
  BY <1>1 DEF IInv, PlansInv, PlansTypeOK, planVars
<1>3. PlansInv'
  BY <1>1, <1>2, QuietPlans DEF IInv, planVars
<1>4. pc' \in [Caller -> Place] /\ pc'[c] = l
  BY <1>1 DEF IInv, CallsTyped
<1>5. CallsTyped'
  BY <1>1, <1>4 DEF IInv, CallsTyped
<1>6. HasRow(c)'
  BY <1>1, <1>4 DEF HasRow
<1> QED
  BY <1>1, <1>3, <1>5, <1>6, QuietKeeps

LEMMA RaisedKeeps ==
    ASSUME IInv, NEW c \in Caller, Raised(c),
           UNCHANGED <<locals, subs, usage, events, consumed>>, faults' \in 0 .. MaxFaults
    PROVE  IInv'
<1>1. PICK l \in Begin : pc' = [pc EXCEPT ![c] = l] /\ (l \in {"look", "plan"} => call[c].kind # "upgrade")
  BY RaisedTo DEF IInv
<1>2. l \in Place \ {"read", "count"} /\ l \notin {"update", "features", "log"}
  BY DEF Place, Begin
<1>3. Goto(c, l)
  BY <1>1, RaisedTo DEF Goto, IInv
<1> QED
  BY <1>1, <1>2, <1>3, MoveKeeps

LEMMA FaultsType == IInv => faults \in 0 .. MaxFaults
  BY DEF IInv, PlansInv, PlansTypeOK

LEMMA NextFault ==
    ASSUME IInv, faults < MaxFaults, faults' = faults + 1
    PROVE  faults' \in 0 .. MaxFaults
  BY OneFault DEF IInv

-----------------------------------------------------------------------------
(***************************************************************************)
(* The statements of the subscriptions.                                    *)
(***************************************************************************)
LEMMA LookKeeps ==
    ASSUME IInv, NEW c \in Caller, Look(c)
    PROVE  IInv'
<1>1. call[c].kind = "upgrade" => sub[c] # 0
  BY DEF IInv, HasRow, Look
<1>2. PICK l \in {"done", "plan"} : Goto(c, l)
  BY DEF Look
<1>3. l \in Place \ {"read", "count"}
  BY DEF Place, Begin
<1>4. faults' \in 0 .. MaxFaults /\ UNCHANGED <<locals, subs, usage, events, consumed>>
  BY FaultsType DEF Look
<1> QED
  BY <1>1, <1>2, <1>3, <1>4, MoveKeeps

LEMMA ReadPlanKeeps ==
    ASSUME IInv, NEW c \in Caller, ReadPlan(c)
    PROVE  IInv'
<1>1. /\ pc[c] = "plan" /\ UNCHANGED <<locals, subs, usage, events, consumed, faults>>
      /\ \/ Raised(c)
         \/ call[c].kind = "upgrade" /\ Goto(c, "update")
         \/ Goto(c, "insert")
  BY DEF ReadPlan
<1>2. "update" \in Place \ {"read", "count"} /\ "insert" \in Place \ {"read", "count"}
  BY DEF Place, Begin
<1>3. call[c].kind = "upgrade" => sub[c] # 0
  BY <1>1 DEF IInv, HasRow
<1>4. faults' \in 0 .. MaxFaults
  BY <1>1, FaultsType
<1> QED
  BY <1>1, <1>2, <1>3, <1>4, RaisedKeeps, MoveKeeps

\* The row of a new subscription.
LEMMA RowAdded ==
    ASSUME NEW S, NEW s \in Seq(S), NEW x \in S
    PROVE  Append(s, x) \in Seq(S) /\ Len(Append(s, x)) = Len(s) + 1 /\ Len(s) \in Nat
  OBVIOUS

LEMMA InsertKeeps ==
    ASSUME IInv, NEW c \in Caller, Insert(c)
    PROVE  IInv'
<1>1. faults' \in 0 .. MaxFaults /\ UNCHANGED <<call, amount, read, uses, usage, consumed, faults>>
  BY FaultsType DEF Insert
<1>2. CASE Raised(c) /\ UNCHANGED <<subs, sub, events>>
  BY <1>1, <1>2, RaisedKeeps DEF locals
<1>3. ASSUME NEW s \in {"trialing", "active"},
             subs' = Append(subs, [status |-> s, plan |-> call[c].plan, stripe |-> call[c].stripe]),
             events' = Append(events, 0), sub' = [sub EXCEPT ![c] = Len(subs) + 1],
             Goto(c, "features")
      PROVE  IInv'
  <2>1. [status |-> s, plan |-> call[c].plan, stripe |-> call[c].stripe] \in Row
    <3>1. call[c].plan \in Plan /\ call \in Mixes
      BY BillingAssumption DEF IInv, CallsTyped
    <3>2. call[c].stripe \in Stripe
      BY <3>1 DEF Stripe
    <3>3. s \in Status
      BY DEF Status
    <3> QED
      BY <3>1, <3>2, <3>3 DEF Row
  <2>2. subs \in Seq(Row) /\ events \in Seq(Nat) /\ Len(events) = Len(subs)
    BY DEF IInv, CallsTyped
  <2>3. subs' \in Seq(Row) /\ Len(subs') = Len(subs) + 1 /\ Len(subs) \in Nat
    BY <1>3, <2>1, <2>2, RowAdded
  <2>4. events' \in Seq(Nat) /\ Len(events') = Len(subs')
    BY <1>3, <2>2, <2>3, RowAdded
  <2>5. /\ pc' = [pc EXCEPT ![c] = "features"] /\ UNCHANGED backend /\ UNCHANGED planVars
        /\ UNCHANGED jobVars
    BY <1>3 DEF Goto
  <2>6. sub' \in [Caller -> 0 .. Len(subs')] /\ sub'[c] # 0 /\ \A u \in Caller : u # c => sub'[u] = sub[u]
    <3>1. sub \in [Caller -> 0 .. Len(subs)]
      BY DEF IInv, CallsTyped
    <3> QED
      BY <1>3, <2>3, <3>1
  <2>7. pc' \in [Caller -> Place]
    BY <2>5 DEF IInv, CallsTyped, Place
  <2>8. CallsTyped'
    BY <1>1, <2>3, <2>4, <2>6, <2>7 DEF IInv, CallsTyped
  <2>9. PlansInv'
    BY <1>1, <2>5, QuietPlans DEF IInv, planVars, PlansInv, PlansTypeOK
  <2>10. HasRow(c)'
    BY <2>6 DEF HasRow
  <2> QED
    BY <1>1, <2>5, <2>6, <2>8, <2>9, <2>10, QuietKeeps
<1> QED
  BY <1>2, <1>3 DEF Insert

LEMMA FeaturesKeeps ==
    ASSUME IInv, NEW c \in Caller, Features(c)
    PROVE  IInv'
<1>1. pc[c] = "features" /\ UNCHANGED <<locals, subs, usage, events, consumed>>
  BY DEF Features
<1>2. faults' \in 0 .. MaxFaults
  BY FaultsType, NextFault DEF Features
<1>3. sub[c] # 0
  BY <1>1 DEF IInv, HasRow
<1>4. Raised(c) \/ Goto(c, "log")
  BY DEF Features
<1>5. "log" \in Place \ {"read", "count"}
  BY DEF Place
<1> QED
  BY <1>1, <1>2, <1>3, <1>4, <1>5, RaisedKeeps, MoveKeeps

LEMMA LogEventKeeps ==
    ASSUME IInv, NEW c \in Caller, LogEvent(c)
    PROVE  IInv'
<1>1. /\ events' = [events EXCEPT ![sub[c]] = @ + 1] /\ Goto(c, "done")
      /\ UNCHANGED <<locals, subs, usage, consumed, faults>>
  BY DEF LogEvent
<1>2. /\ pc' = [pc EXCEPT ![c] = "done"] /\ UNCHANGED backend /\ UNCHANGED planVars
      /\ UNCHANGED jobVars /\ UNCHANGED <<call, sub, amount, read, uses, subs, usage, consumed, faults>>
  BY <1>1 DEF Goto, locals
<1>3. events' \in Seq(Nat) /\ Len(events') = Len(events)
  <2>1. events \in Seq(Nat) /\ sub[c] \in 1 .. Len(events)
    <3>1. events \in Seq(Nat) /\ sub[c] \in 0 .. Len(events)
      BY DEF IInv, CallsTyped
    <3>2. sub[c] # 0
      BY DEF IInv, HasRow, LogEvent
    <3> QED
      BY <3>1, <3>2
  <2>2. events[sub[c]] + 1 \in Nat
    BY <2>1
  <2> QED
    BY <1>1, <2>1, <2>2
<1>4. pc' \in [Caller -> Place] /\ pc'[c] = "done"
  BY <1>2 DEF IInv, CallsTyped, Place, Begin
<1>5. CallsTyped'
  BY <1>2, <1>3, <1>4 DEF IInv, CallsTyped
<1>6. PlansInv'
  BY <1>2, QuietPlans DEF IInv, planVars, PlansInv, PlansTypeOK
<1>7. HasRow(c)'
  BY <1>4 DEF HasRow
<1> QED
  BY <1>2, <1>5, <1>6, <1>7, QuietKeeps

LEMMA FindKeeps ==
    ASSUME IInv, NEW c \in Caller, Find(c)
    PROVE  IInv'
<1>1. faults' \in 0 .. MaxFaults /\ UNCHANGED <<call, amount, read, uses, subs, usage, events, consumed, faults>>
  BY FaultsType DEF Find
<1>2. CASE Goto(c, "done") /\ UNCHANGED sub
  <2>1. "done" \in Place \ {"read", "count"}
    BY DEF Place, Begin
  <2> QED
    BY <1>1, <1>2, <2>1, MoveKeeps DEF locals
<1>3. ASSUME NEW i \in Matches(c), sub' = [sub EXCEPT ![c] = i],
             NEW l \in {"plan", "done", "update"}, Goto(c, l)
      PROVE  IInv'
  <2>1. subs \in Seq(Row) /\ sub \in [Caller -> 0 .. Len(subs)]
    BY DEF IInv, CallsTyped
  <2>2. i \in 1 .. Len(subs)
    BY <2>1 DEF Matches
  <2>3. sub' \in [Caller -> 0 .. Len(subs)] /\ sub'[c] # 0 /\ \A u \in Caller : u # c => sub'[u] = sub[u]
    BY <1>3, <2>1, <2>2
  <2>4. /\ pc' = [pc EXCEPT ![c] = l] /\ UNCHANGED backend /\ UNCHANGED planVars
        /\ UNCHANGED jobVars
    BY <1>3 DEF Goto
  <2>5. pc' \in [Caller -> Place]
    BY <2>4 DEF IInv, CallsTyped, Place, Begin
  <2>6. CallsTyped'
    BY <1>1, <2>3, <2>5 DEF IInv, CallsTyped
  <2>7. PlansInv'
    BY <1>1, <2>4, QuietPlans DEF IInv, planVars, PlansInv, PlansTypeOK
  <2>8. HasRow(c)'
    BY <2>3 DEF HasRow
  <2> QED
    BY <1>1, <2>3, <2>4, <2>6, <2>7, <2>8, QuietKeeps
<1> QED
  BY <1>2, <1>3 DEF Find

LEMMA UpdateKeeps ==
    ASSUME IInv, NEW c \in Caller, Update(c)
    PROVE  IInv'
<1>1. /\ pc[c] = "update" /\ faults' \in 0 .. MaxFaults
      /\ UNCHANGED <<locals, usage, events, consumed, faults>>
  BY FaultsType DEF Update
<1>2. CASE Raised(c) /\ UNCHANGED subs
  BY <1>1, <1>2, RaisedKeeps
<1>3. ASSUME subs' = [subs EXCEPT ![sub[c]] = Updated(c, @)],
             NEW l \in {"features", "done", "log"}, Goto(c, l)
      PROVE  IInv'
  <2>1. subs \in Seq(Row) /\ sub \in [Caller -> 0 .. Len(subs)] /\ sub[c] # 0
    BY <1>1 DEF IInv, CallsTyped, HasRow
  <2>2. sub[c] \in 1 .. Len(subs) /\ subs[sub[c]] \in Row
    BY <2>1
  <2>3. Updated(c, subs[sub[c]]) \in Row
    <3>1. call[c].plan \in Plan
      BY BillingAssumption DEF IInv, CallsTyped
    <3>2. \A s \in {"active", "pending_cancellation", "canceled"} : s \in Status
      BY DEF Status
    <3>3. ASSUME NEW row \in Row PROVE Updated(c, row) \in Row
      <4>1. [row EXCEPT !.plan = call[c].plan] \in Row
        BY <3>1 DEF Row
      <4>2. \A s \in Status : [row EXCEPT !.status = s] \in Row
        BY DEF Row
      <4> QED
        BY <4>1, <4>2, <3>2 DEF Updated
    <3> QED
      BY <2>2, <3>3
  <2>4. subs' \in Seq(Row) /\ Len(subs') = Len(subs)
    BY <1>3, <2>1, <2>2, <2>3
  <2>5. /\ pc' = [pc EXCEPT ![c] = l] /\ UNCHANGED backend /\ UNCHANGED planVars
        /\ UNCHANGED jobVars /\ UNCHANGED <<call, sub, amount, read, uses>>
    BY <1>1, <1>3 DEF Goto, locals
  <2>6. pc' \in [Caller -> Place]
    BY <2>5 DEF IInv, CallsTyped, Place, Begin
  <2>7. CallsTyped'
    BY <1>1, <2>4, <2>5, <2>6 DEF IInv, CallsTyped
  <2>8. PlansInv'
    BY <1>1, <2>5, QuietPlans DEF IInv, planVars, PlansInv, PlansTypeOK
  <2>9. HasRow(c)'
    BY <2>1, <2>5 DEF HasRow
  <2> QED
    BY <1>1, <2>5, <2>7, <2>8, <2>9, QuietKeeps
<1> QED
  BY <1>2, <1>3 DEF Update

-----------------------------------------------------------------------------
(***************************************************************************)
(* The statements of the usage.                                            *)
(***************************************************************************)
LEMMA EnsureFeatureKeeps ==
    ASSUME IInv, NEW c \in Caller, EnsureFeature(c)
    PROVE  IInv'
<1>1. /\ UNCHANGED <<backend, plans, versions, offers, locals, subs, usage, events, consumed, faults>>
      /\ UNCHANGED jobVars
      /\ \E l \in {"create", "done", "look for usage"} : pc' = [pc EXCEPT ![c] = l]
      /\ catalog' = (catalog \/ pc[c] = "create")
  BY DEF EnsureFeature
<1>2. PICK l \in {"create", "done", "look for usage"} : pc' = [pc EXCEPT ![c] = l]
  BY <1>1
<1>3. UNCHANGED <<call, sub, amount, read, uses>>
  BY <1>1 DEF locals
<1>4. catalog' \in BOOLEAN
  BY <1>1
<1>5. PlansInv'
  BY <1>1, <1>3, <1>4, FaultsType, QuietPlans DEF IInv
<1>6. pc' \in [Caller -> Place] /\ pc'[c] = l
  BY <1>2 DEF IInv, CallsTyped, Place, Begin
<1>7. CallsTyped'
  BY <1>1, <1>3, <1>6 DEF IInv, CallsTyped
<1>8. HasRow(c)'
  BY <1>6 DEF HasRow
<1> QED
  BY <1>1, <1>2, <1>3, <1>5, <1>7, <1>8, QuietKeeps

LEMMA FindUsageKeeps ==
    ASSUME IInv, NEW c \in Caller, FindUsage(c)
    PROVE  IInv'
<1>1. PICK l \in {"upsert", "done"} : Goto(c, l)
  BY DEF FindUsage
<1>2. l \in Place \ {"read", "count"}
  BY DEF Place, Begin
<1>3. faults' \in 0 .. MaxFaults /\ UNCHANGED <<locals, subs, usage, events, consumed>>
  BY FaultsType DEF FindUsage
<1> QED
  BY <1>1, <1>2, <1>3, MoveKeeps

\* A step of the usage: what is left to show is the room.
LEMMA UsageKeeps ==
    ASSUME IInv, NEW c \in Caller, NEW l \in Place, Goto(c, l),
           l \notin {"update", "features", "log", "look", "plan"},
           UNCHANGED <<call, sub, subs, events, faults>>,
           amount' \in [Caller -> 0 .. MaxAmount], read' \in [Caller -> Nat],
           uses' \in [Caller -> 0 .. MaxUses], usage' \in UsageType, consumed' \in Nat,
           backend = "postgres" => Room'
    PROVE  IInv'
<1>1. /\ pc' = [pc EXCEPT ![c] = l] /\ UNCHANGED backend /\ UNCHANGED planVars
      /\ UNCHANGED jobVars
  BY DEF Goto
<1>2. pc \in [Caller -> Place]
  BY DEF IInv, CallsTyped
<1>3. pc' \in [Caller -> Place] /\ pc'[c] = l /\ \A u \in Caller : u # c => pc'[u] = pc[u]
  BY <1>1, <1>2
<1>4. CallsTyped'
  BY <1>3 DEF IInv, CallsTyped
<1>5. PlansInv'
  BY <1>1, FaultsType, QuietPlans DEF IInv, planVars, PlansInv, PlansTypeOK
<1>6. ASSUME NEW u \in Caller PROVE HasRow(u)'
  <2>1. CASE u = c
    BY <1>3, <2>1 DEF HasRow
  <2>2. CASE u # c
    BY <1>3, <2>2 DEF HasRow, IInv
  <2> QED
    BY <2>1, <2>2
<1> QED
  BY <1>1, <1>4, <1>5, <1>6 DEF IInv

\* The new row of the usage, or the old one counted anew.
LEMMA UpsertUsageKeeps ==
    ASSUME IInv, NEW c \in Caller, UpsertUsage(c)
    PROVE  IInv'
<1>1. PICK enabled \in BOOLEAN : usage' = Upserted(enabled)
  BY DEF UpsertUsage
<1>2. /\ consumed' = 0 /\ Goto(c, "done") /\ UNCHANGED <<call, sub, amount, read, uses, subs, events, faults>>
  BY DEF UpsertUsage, locals
<1>3. usage' \in UsageType /\ usage'.used = 0
  <2>1. CASE usage = NoUsage
    BY <1>1, <2>1 DEF Upserted, UsageType
  <2>2. CASE usage # NoUsage
    <3> DEFINE u == [usage EXCEPT !.used = 0]
    <3>1. usage \in UsageType
      BY DEF IInv, CallsTyped
    <3>2. u \in UsageType /\ u.used = 0
      BY <3>1 DEF UsageType
    <3> HIDE DEF u
    <3>3. [u EXCEPT !.active = enabled] \in UsageType /\ [u EXCEPT !.active = enabled].used = 0
      BY <3>2 DEF UsageType
    <3>4. usage' = [u EXCEPT !.active = enabled]
      BY <1>1, <2>2, <3>1 DEF Upserted, UsageType, u
    <3> QED
      BY <3>3, <3>4
  <2> QED
    BY <2>1, <2>2
<1>4. backend = "postgres" => Room'
  <2> SUFFICES ASSUME backend = "postgres" PROVE Room'
    OBVIOUS
  <2>1. pc \in [Caller -> Place] /\ \A u \in Caller : pc[u] # "read"
    BY DEF IInv, CallsTyped, Room
  <2>2. \A u \in Caller : pc'[u] # "read"
    BY <1>2, <2>1 DEF Goto
  <2>3. consumed' < Max({1, usage'.limit})
    <3>1. Max({1, usage'.limit}) \in Int /\ Max({1, usage'.limit}) >= 1
      BY <1>3, LimitIsInt
    <3> QED
      BY <1>2, <3>1
  <2>4. consumed' \in Nat /\ usage'.used = consumed'
    BY <1>2, <1>3
  <2> QED
    BY <1>2, <1>3, <2>2, <2>3, <2>4, RoomForAll
<1>5. "done" \in Place /\ consumed' \in Nat
  BY <1>2 DEF Place, Begin
<1>6. /\ amount' \in [Caller -> 0 .. MaxAmount] /\ read' \in [Caller -> Nat]
      /\ uses' \in [Caller -> 0 .. MaxUses]
  BY <1>2 DEF IInv, CallsTyped
<1> QED
  BY <1>2, <1>3, <1>4, <1>5, <1>6, UsageKeeps

(***************************************************************************)
(* The check: who passes it and is a user of the feature found room for    *)
(* itself and for all the others.                                          *)
(***************************************************************************)
LEMMA CheckKeeps ==
    ASSUME IInv, NEW c \in Caller, Check(c)
    PROVE  IInv'
<1>1. UNCHANGED <<call, sub, read, uses, subs, usage, events, consumed, faults>>
  BY DEF Check
<1>2. /\ usage \in UsageType /\ consumed \in Nat /\ pc \in [Caller -> Place]
      /\ amount \in [Caller -> 0 .. MaxAmount] /\ read \in [Caller -> Nat]
      /\ uses \in [Caller -> 0 .. MaxUses]
  BY DEF IInv, CallsTyped
<1>3. CASE Goto(c, "done") /\ UNCHANGED amount
  <2>1. "done" \in Place \ {"read", "count"} /\ faults' \in 0 .. MaxFaults
    BY <1>1, FaultsType DEF Place, Begin
  <2> QED
    BY <1>1, <1>3, <2>1, MoveKeeps DEF locals
<1>4. CASE /\ ~ ((call[c].kind = "use" /\ ~ Allowed) \/ usage = NoUsage)
           /\ \E a \in 1 .. MaxAmount : amount' = [amount EXCEPT ![c] = a]
           /\ Goto(c, IF backend = "postgres" THEN "count" ELSE "read")
  <2>1. amount' \in [Caller -> 0 .. MaxAmount]
    <3>1. \A a \in 1 .. MaxAmount : a \in 0 .. MaxAmount
      BY UsersFinite
    <3> QED
      BY <1>2, <1>4, <3>1
  <2>2. ASSUME backend = "postgres" PROVE Room'
    <3>1. pc' = [pc EXCEPT ![c] = "count"]
      BY <1>4, <2>2 DEF Goto
    <3>2. Room
      BY <2>2 DEF IInv
    <3>3. \A u \in Caller : pc'[u] # "read"
      BY <1>2, <3>1, <3>2 DEF Room
    <3>4. CASE call[c].kind = "use"
      <4>1. usage.limit >= 0 => usage.used < usage.limit
        BY <1>4, <3>4 DEF Allowed, Unlimited
      <4>2. /\ usage.limit \in Int /\ usage.used \in Nat /\ Max({1, usage.limit}) \in Int
            /\ Max({1, usage.limit}) >= usage.limit
        BY <1>2, LimitIsInt
      <4>3. consumed = usage.used
        BY <3>2 DEF Room
      <4>4. usage.limit >= 0 => consumed < Max({1, usage.limit})
        BY <4>1, <4>2, <4>3
      <4> QED
        BY <1>1, <1>2, <3>3, <4>3, <4>4, RoomForAll
    <3>5. CASE call[c].kind # "use"
      <4>1. Inside' \subseteq Inside
        BY <1>1, <1>2, <3>1, <3>5 DEF Inside, Users
      <4> QED
        BY <1>1, <1>2, <3>2, <3>3, <4>1, RoomStays
    <3> QED
      BY <3>4, <3>5
  <2>3. PICK l \in {"count", "read"} : Goto(c, l)
    BY <1>4
  <2>4. l \in Place /\ l \notin {"update", "features", "log", "look", "plan"}
    BY DEF Place
  <2>5. read' \in [Caller -> Nat] /\ uses' \in [Caller -> 0 .. MaxUses] /\ usage' \in UsageType
        /\ consumed' \in Nat
    BY <1>1, <1>2
  <2> QED
    BY <1>1, <2>1, <2>2, <2>3, <2>4, <2>5, UsageKeeps
<1> QED
  BY <1>3, <1>4 DEF Check

LEMMA ReadUsageKeeps ==
    ASSUME IInv, NEW c \in Caller, ReadUsage(c)
    PROVE  IInv'
<1>1. /\ pc[c] = "read" /\ read' = [read EXCEPT ![c] = usage.used] /\ Goto(c, "count")
      /\ UNCHANGED <<call, sub, amount, uses, subs, usage, events, consumed, faults>>
  BY DEF ReadUsage
<1>2. /\ usage \in UsageType /\ consumed \in Nat
      /\ amount \in [Caller -> 0 .. MaxAmount] /\ read \in [Caller -> Nat]
      /\ uses \in [Caller -> 0 .. MaxUses]
  BY DEF IInv, CallsTyped
<1>3. read' \in [Caller -> Nat]
  BY <1>1, <1>2, LimitIsInt
<1>4. backend # "postgres"
  BY <1>1 DEF IInv, Room
<1>5. "count" \in Place
  BY DEF Place
<1> QED
  BY <1>1, <1>2, <1>3, <1>4, <1>5, UsageKeeps

-----------------------------------------------------------------------------
LEMMA PlusType ==
    ASSUME NEW c \in Caller, NEW n \in Nat, amount[c] \in Nat
    PROVE  /\ Plus(c, n) \in Nat
           /\ call[c].kind = "use" => Plus(c, n) = n + amount[c]
           /\ call[c].kind # "use" => Plus(c, n) <= n
<1>1. CASE call[c].kind = "use"
  BY <1>1 DEF Plus
<1>2. CASE call[c].kind # "use"
  <2>1. Max({0, n - amount[c]}) = IF 0 >= n - amount[c] THEN 0 ELSE n - amount[c]
    BY MaxOfTwo
  <2>2. Plus(c, n) = Max({0, n - amount[c]})
    BY <1>2 DEF Plus
  <2> QED
    BY <1>2, <2>1, <2>2
<1> QED
  BY <1>1, <1>2

LEMMA Leaving ==
    ASSUME NEW A, NEW B, NEW x \in A, IsFiniteSet(A), B \subseteq A \ {x}
    PROVE  Cardinality(B) \in Nat /\ Cardinality(A) \in Nat /\ Cardinality(B) + 1 <= Cardinality(A)
<1>1. /\ IsFiniteSet(A \ {x}) /\ Cardinality(A) \in Nat
      /\ Cardinality(A \ {x}) = Cardinality(A) - 1
  BY FS_RemoveElement, FS_CardinalityType
<1>2. Cardinality(B) \in Nat /\ Cardinality(B) <= Cardinality(A \ {x})
  BY <1>1, Crowd
<1> QED
  BY <1>1, <1>2

(***************************************************************************)
(* A user that counts leaves the inside, and takes no more than was kept   *)
(* for it; one that returns something makes room.                          *)
(***************************************************************************)
LEMMA CountKeepsRoom ==
    ASSUME IInv, NEW c \in Caller, pc[c] = "count", backend = "postgres", UNCHANGED call,
           NEW l, l \notin {"read", "count"}, pc' = [pc EXCEPT ![c] = l],
           usage' = [usage EXCEPT !.used = Plus(c, usage.used)], consumed' = Plus(c, consumed)
    PROVE  Room'
<1>1. /\ usage \in UsageType /\ consumed \in Nat /\ pc \in [Caller -> Place]
      /\ amount[c] \in 0 .. MaxAmount /\ Room
  BY DEF IInv, CallsTyped
<1>2. /\ consumed = usage.used /\ \A u \in Caller : pc[u] # "read"
  BY <1>1 DEF Room
<1>3. MaxAmount \in Nat /\ amount[c] \in Nat /\ amount[c] <= MaxAmount
  BY <1>1, UsersFinite
<1>4. /\ consumed' \in Nat
      /\ call[c].kind = "use" => consumed' = consumed + amount[c]
      /\ call[c].kind # "use" => consumed' <= consumed
  BY <1>1, <1>3, PlusType
<1>5. usage'.limit = usage.limit /\ usage'.used = consumed'
  BY <1>1, <1>2 DEF UsageType
<1>6. \A u \in Caller : pc'[u] # "read"
  BY <1>1, <1>2
<1> DEFINE A == Cardinality(Inside)
           B == Cardinality(Inside')
<1>7. consumed' + B * MaxAmount <= consumed + A * MaxAmount
  <2>1. CASE call[c].kind = "use"
    <3>1. c \in Inside /\ Inside' \subseteq Inside \ {c}
      BY <1>1, <2>1 DEF Inside, Users
    <3>2. A \in Nat /\ B \in Nat /\ B + 1 <= A
      BY <3>1, InsideFinite, Leaving
    <3> HIDE DEF A, B
    <3>3. /\ (B + 1) * MaxAmount <= A * MaxAmount /\ (B + 1) * MaxAmount = B * MaxAmount + MaxAmount
          /\ A * MaxAmount \in Nat /\ B * MaxAmount \in Nat
      <4>1. B + 1 \in Nat
        BY <3>2
      <4> QED
        BY <1>3, <3>2, <4>1, Times
    <3> QED
      BY <1>1, <1>3, <1>4, <2>1, <3>3
  <2>2. CASE call[c].kind # "use"
    <3>1. Inside' \subseteq Inside
      BY <1>1, <2>2 DEF Inside, Users
    <3>2. A \in Nat /\ B \in Nat /\ B <= A
      BY <3>1, InsideFinite, Crowd
    <3> HIDE DEF A, B
    <3>3. B * MaxAmount <= A * MaxAmount /\ A * MaxAmount \in Nat /\ B * MaxAmount \in Nat
      BY <1>3, <3>2, Times
    <3> QED
      BY <1>1, <1>4, <2>2, <3>3
  <2> QED
    BY <2>1, <2>2
<1> HIDE DEF A, B
<1> QED
  BY <1>1, <1>4, <1>5, <1>6, <1>7, RoomKept DEF A, B

LEMMA CountKeeps ==
    ASSUME IInv, NEW c \in Caller, Count(c)
    PROVE  IInv'
<1>1. /\ pc[c] = "count" /\ usage' = [usage EXCEPT !.used = NewUsage(c)]
      /\ consumed' = Plus(c, consumed)
      /\ UNCHANGED <<call, sub, amount, read, subs, events, faults>>
  BY DEF Count
<1>2. /\ usage \in UsageType /\ consumed \in Nat /\ pc \in [Caller -> Place]
      /\ amount \in [Caller -> 0 .. MaxAmount] /\ read \in [Caller -> Nat]
      /\ uses \in [Caller -> 0 .. MaxUses]
  BY DEF IInv, CallsTyped
<1>3. amount[c] \in Nat /\ read[c] \in Nat /\ usage.used \in Nat
  <2>1. amount[c] \in 0 .. MaxAmount /\ read[c] \in Nat
    BY <1>2
  <2>2. amount[c] \in Nat
    BY <2>1, UsersFinite
  <2>3. usage.used \in Nat
    BY <1>2, LimitIsInt
  <2> QED
    BY <2>1, <2>2, <2>3
<1>4. NewUsage(c) \in Nat /\ consumed' \in Nat
  BY <1>1, <1>2, <1>3, PlusType DEF NewUsage
<1>5. usage' \in UsageType
  BY <1>1, <1>2, <1>4 DEF UsageType
<1>6. /\ uses' \in [Caller -> 0 .. MaxUses]
      /\ \E l \in {"check", "done"} : Goto(c, l)
  <2>1. CASE uses[c] < MaxUses /\ uses' = [uses EXCEPT ![c] = @ + 1] /\ Goto(c, "check")
    <3>1. MaxUses \in Nat
      BY BillingAssumption
    <3> QED
      BY <1>2, <2>1, <3>1
  <2>2. CASE Goto(c, "done") /\ UNCHANGED uses
    BY <1>2, <2>2
  <2> QED
    BY <2>1, <2>2 DEF Count
<1>7. PICK l \in {"check", "done"} : Goto(c, l)
  BY <1>6
<1>8. l \in Place /\ l \notin {"update", "features", "log", "look", "plan", "read", "count"}
  BY DEF Place, Begin
<1>9. ASSUME backend = "postgres" PROVE Room'
  <2>1. usage' = [usage EXCEPT !.used = Plus(c, usage.used)]
    BY <1>1, <1>9 DEF NewUsage
  <2>2. pc' = [pc EXCEPT ![c] = l]
    BY <1>7 DEF Goto
  <2> QED
    BY <1>1, <1>8, <1>9, <2>1, <2>2, CountKeepsRoom
<1>10. amount' \in [Caller -> 0 .. MaxAmount] /\ read' \in [Caller -> Nat]
  BY <1>1, <1>2
<1> QED
  BY <1>1, <1>4, <1>5, <1>6, <1>7, <1>8, <1>9, <1>10, UsageKeeps

LEMMA RaiseKeeps ==
    ASSUME IInv, NEW c \in Caller, Raise(c)
    PROVE  IInv'
<1>1. /\ Raised(c) /\ faults < MaxFaults /\ faults' = faults + 1
      /\ UNCHANGED <<locals, subs, usage, events, consumed>>
  BY DEF Raise
<1> QED
  BY <1>1, NextFault, RaisedKeeps

LEMMA StepKeeps ==
    ASSUME IInv, NEW c \in Caller, Step(c)
    PROVE  IInv'
  BY LookKeeps, ReadPlanKeeps, InsertKeeps, FeaturesKeeps, LogEventKeeps, FindKeeps, UpdateKeeps,
     EnsureFeatureKeeps, FindUsageKeeps, UpsertUsageKeeps, CheckKeeps, ReadUsageKeeps, CountKeeps
     DEF Step

-----------------------------------------------------------------------------
(***************************************************************************)
(* What works on the plans leaves the calls alone.                         *)
(***************************************************************************)
LEMMA CallsAlone ==
    ASSUME IInv, UNCHANGED <<backend, locals, pc, subs, usage, events, consumed>>, PlansInv'
    PROVE  IInv'
<1>1. UNCHANGED <<call, sub, amount, read, uses>>
  BY DEF locals
<1>2. CallsTyped'
  BY <1>1 DEF IInv, CallsTyped
<1>3. \A c \in Caller : HasRow(c)'
  BY <1>1 DEF IInv, HasRow
<1>4. ASSUME backend = "postgres" PROVE Room'
  <2>1. Room
    BY <1>4 DEF IInv
  <2>2. Inside' \subseteq Inside
    BY <1>1 DEF Inside, Users
  <2>3. \A u \in Caller : pc'[u] # "read"
    BY <2>1 DEF Room
  <2> QED
    BY <1>1, <2>1, <2>2, <2>3, RoomStays DEF IInv, CallsTyped
<1> QED
  BY <1>2, <1>3, <1>4 DEF IInv

LEMMA OfPlansKeeps ==
    ASSUME IInv, NEW c \in Caller, OfPlans(c)
    PROVE  IInv'
<1>1. PlansInv'
  BY PlansKeep DEF IInv
<1> QED
  BY <1>1, CallsAlone DEF OfPlans

LEMMA StutterKeeps ==
    ASSUME IInv, UNCHANGED vars
    PROVE  IInv'
<1>1. /\ UNCHANGED <<backend, locals, pc, subs, usage, events, consumed, faults>>
      /\ UNCHANGED planVars /\ UNCHANGED jobVars
  BY DEF vars
<1>2. PlansInv'
  BY <1>1, FaultsType, QuietPlans DEF IInv, planVars, locals, PlansInv, PlansTypeOK
<1> QED
  BY <1>1, <1>2, CallsAlone

-----------------------------------------------------------------------------
(***************************************************************************)
(* The beginning.                                                          *)
(***************************************************************************)
LEMMA JobsOfType ==
    ASSUME NEW d, d.plan \in Plan
    PROVE  JobsOf(d) \in Seq(AJob) /\ (d.kind = "seed" => JobsOf(d) = SeedJobs)
<1>1. CASE d.kind = "seed"
  <2>1. JobsOf(d) = SeedJobs
    BY <1>1 DEF JobsOf
  <2> QED
    BY <2>1, SeedType
<1>2. CASE d.kind \in {"create", "offer", "version"}
  <2>1. Job(d.kind, d.plan, 1) \in AJob
    BY <1>2 DEF Job, AJob
  <2>2. JobsOf(d) = <<Job(d.kind, d.plan, 1)>>
    BY <1>2 DEF JobsOf
  <2> QED
    BY <1>2, <2>1, <2>2
<1>3. CASE d.kind \notin {"seed", "create", "offer", "version"}
  BY <1>3 DEF JobsOf
<1> QED
  BY <1>1, <1>2, <1>3

LEMMA InitPlans ==
    ASSUME Init
    PROVE  PlansInv
<1>1. /\ call \in Mixes /\ jobs = [c \in Caller |-> JobsOf(call[c])]
      /\ at = [c \in Caller |-> "start"] /\ got = [c \in Caller |-> 0]
      /\ lost = [c \in Caller |-> FALSE] /\ faults = 0 /\ backend \in Backends
  BY DEF Init
<1>2. catalog \in BOOLEAN /\ plans \subseteq Plan
  BY DEF Init
<1>3. versions \in [Plan -> Seq(Version)] /\ \A p \in Plan : p \notin plans => versions[p] = <<>>
  <2>1. [number |-> 1, active |-> TRUE] \in Version
    BY DEF Version
  <2>2. <<[number |-> 1, active |-> TRUE]>> \in Seq(Version) /\ <<>> \in Seq(Version)
    BY <2>1
  <2>3. versions = [p \in Plan |-> IF p \in plans THEN <<[number |-> 1, active |-> TRUE]>> ELSE <<>>]
    BY DEF Init
  <2> QED
    BY <2>2, <2>3
<1>4. offers \in [Plan -> Nat] /\ \A p \in Plan : p \notin plans => offers[p] = 0
  <2>1. PICK o \in Offered : offers = [p \in Plan |-> IF p \in plans \cap o THEN Limit(p) ELSE 0]
    BY DEF Init
  <2> QED
    BY <2>1, LimitType
<1>5. PlansTypeOK
  <2>1. faults \in 0 .. MaxFaults
    BY <1>1, PlansAssumption
  <2> QED
    BY <1>1, <1>2, <1>3, <1>4, <2>1 DEF PlansTypeOK
<1>6. \A c \in Caller : jobs[c] \in Seq(AJob) /\ (call[c].kind = "seed" => jobs[c] = SeedJobs)
  <2>1. \A c \in Caller : call[c].plan \in Plan
    BY <1>1, BillingAssumption
  <2> QED
    BY <1>1, <2>1, JobsOfType
<1>7. JobsTyped
  <2>1. at \in [Caller -> Statement]
    BY <1>1 DEF Statement
  <2>2. jobs \in [Caller -> Seq(AJob)]
    BY <1>1, <1>6
  <2> QED
    BY <2>1, <2>2 DEF JobsTyped
<1>8. ASSUME NEW c \in Caller PROVE PlanThere(c) /\ OnScript(c)
  <2>1. PlanThere(c)
    BY <1>1 DEF PlanThere
  <2>2. ASSUME call[c].kind = "seed"
        PROVE  /\ Through(c) \in Nat
               /\ \A i \in 1 .. Len(jobs[c]) : jobs[c][i] = SeedJobs[Through(c) + i]
               /\ \A i \in 1 .. Through(c) : Done(SeedJobs[i])
    <3>1. jobs[c] = SeedJobs
      BY <1>6, <2>2
    <3>2. Len(SeedJobs) \in Nat
      BY SeedType
    <3>3. Through(c) = 0
      BY <3>1, <3>2 DEF Through
    <3>4. \A i \in 1 .. Len(jobs[c]) : Through(c) + i = i
      BY <3>1, <3>2, <3>3
    <3>5. \A i \in 1 .. Through(c) : FALSE
      BY <3>3
    <3> QED
      BY <3>1, <3>3, <3>4, <3>5
  <2> QED
    BY <2>1, <2>2 DEF OnScript
<1> QED
  BY <1>5, <1>7, <1>8 DEF PlansInv

LEMMA InitHolds == Init => IInv
<1> SUFFICES ASSUME Init PROVE IInv
  OBVIOUS
<1>1. PlansInv
  BY InitPlans
<1>2. /\ call \in Mixes /\ pc = [c \in Caller |-> Start(call[c].kind)]
      /\ sub = [c \in Caller |-> 0] /\ amount = [c \in Caller |-> 0]
      /\ read = [c \in Caller |-> 0] /\ uses = [c \in Caller |-> 0]
      /\ events = [i \in DOMAIN subs |-> 0] /\ consumed = 0
  BY DEF Init
<1>3. subs \in Seq(Row) /\ usage \in UsageType /\ usage.used = 0
  <2>1. CASE subs = <<>> /\ usage = NoUsage
    BY <2>1 DEF NoUsage, UsageType
  <2>2. ASSUME NEW p \in plans, NEW s \in {"trialing", "active"},
               subs = <<[status |-> s, plan |-> p, stripe |-> "none"]>>,
               usage = [used |-> 0, limit |-> offers[p], active |-> TRUE]
        PROVE  subs \in Seq(Row) /\ usage \in UsageType /\ usage.used = 0
    <3>1. p \in Plan /\ offers[p] \in Nat
      BY <1>1 DEF PlansInv, PlansTypeOK
    <3>2. "none" \in Stripe /\ s \in Status
      BY DEF Stripe, Status
    <3>3. [status |-> s, plan |-> p, stripe |-> "none"] \in Row
      BY <3>1, <3>2 DEF Row
    <3> QED
      BY <2>2, <3>1, <3>3 DEF UsageType
  <2> QED
    BY <2>1, <2>2 DEF Init
<1>4. events \in Seq(Nat) /\ Len(events) = Len(subs)
  <2>1. Len(subs) \in Nat /\ DOMAIN subs = 1 .. Len(subs)
    BY <1>3
  <2> QED
    BY <1>2, <2>1
<1>5. \A c \in Caller : pc[c] \in Begin /\ (pc[c] \in {"look", "plan"} => call[c].kind # "upgrade")
  BY <1>2, Begins
<1>6. CallsTyped
  <2>1. sub \in [Caller -> 0 .. Len(subs)]
    BY <1>2, <1>3
  <2>2. amount \in [Caller -> 0 .. MaxAmount] /\ uses \in [Caller -> 0 .. MaxUses]
    BY <1>2, BillingAssumption
  <2>3. pc \in [Caller -> Place]
    BY <1>2, <1>5 DEF Place
  <2>4. read \in [Caller -> Nat]
    BY <1>2
  <2> QED
    BY <1>2, <1>3, <1>4, <2>1, <2>2, <2>3, <2>4 DEF CallsTyped
<1>7. \A c \in Caller : HasRow(c)
  BY <1>5 DEF HasRow, Begin
<1>8. Room
  <2>1. \A c \in Caller : pc[c] \notin {"read", "count"}
    BY <1>5 DEF Begin
  <2>2. Inside = {}
    BY <2>1 DEF Inside, Users
  <2> DEFINE U == Cardinality(Users) * MaxAmount
             M == Max({1, usage.limit})
  <2>3. Cardinality(Inside) * MaxAmount = 0
    <3>1. Cardinality(Inside) = 0
      BY <2>2, FS_EmptySet
    <3> QED
      BY <3>1, UsersFinite
  <2>4. U \in Nat
    BY UsersFinite, Times
  <2>5. M \in Int /\ M >= 1
    BY <1>3, LimitIsInt
  <2> HIDE DEF U, M
  <2>6. 0 + 0 < M + U
    BY <2>4, <2>5
  <2>7. consumed + Cardinality(Inside) * MaxAmount < M + U
    BY <1>2, <2>3, <2>6
  <2>8. consumed + Cardinality(Inside) * MaxAmount < Max({1, usage.limit}) + Cardinality(Users) * MaxAmount
    BY <2>7 DEF U, M
  <2> QED
    BY <1>2, <1>3, <2>1, <2>8 DEF Room
<1> QED
  BY <1>1, <1>6, <1>7, <1>8 DEF IInv

LEMMA Invariance == Spec => []IInv
<1>1. ASSUME IInv, [Next]_vars PROVE IInv'
  <2>1. CASE Next
    BY <1>1, <2>1, StepKeeps, RaiseKeeps, OfPlansKeeps DEF Next
  <2>2. CASE UNCHANGED vars
    BY <1>1, <2>2, StutterKeeps
  <2> QED
    BY <1>1, <2>1, <2>2
<1> QED
  BY <1>1, InitHolds, PTL DEF Spec

-----------------------------------------------------------------------------
(***************************************************************************)
(* Every variable keeps its type: a subscription that is updated or logged *)
(* is there, there is an event counter for each, and a plan that is not    *)
(* there has no versions and no offers.                                    *)
(***************************************************************************)
THEOREM BillingTypeCorrect == Spec => []TypeOK
<1>1. ASSUME IInv PROVE TypeOK
  <2>1. PlansTypeOK /\ CallsTyped /\ \A c \in Caller : HasRow(c)
    BY <1>1 DEF IInv, PlansInv
  <2>2. DOMAIN events = DOMAIN subs
    <3>1. events \in Seq(Nat) /\ subs \in Seq(Row) /\ Len(events) = Len(subs)
      BY <2>1 DEF CallsTyped
    <3> QED
      BY <3>1
  <2>3. \A c \in Caller : pc[c] \in {"update", "log"} => sub[c] # 0
    BY <2>1 DEF HasRow
  <2> QED
    BY <2>1, <2>2, <2>3 DEF TypeOK, CallsTyped, Row, UsageType
<1> QED
  BY <1>1, Invariance, PTL

(***************************************************************************)
(* However many users check and increment at the same time, Postgres lets  *)
(* them exceed the quota by less than what each of them may take once.     *)
(***************************************************************************)
THEOREM BillingOverrunBounded == Spec => []OverrunBounded
<1>1. ASSUME IInv PROVE OverrunBounded
  <2> SUFFICES ASSUME backend = "postgres", usage.limit >= 0
               PROVE  consumed < Max({1, usage.limit}) + Cardinality(Users) * MaxAmount
    BY DEF OverrunBounded
  <2> DEFINE A == Cardinality(Inside) * MaxAmount
             U == Cardinality(Users) * MaxAmount
             M == Max({1, usage.limit})
  <2>1. consumed + A < M + U
    BY <1>1 DEF IInv, Room
  <2>2. A \in Nat /\ U \in Nat
    BY InsideFinite, UsersFinite, Times
  <2>3. M \in Int /\ consumed \in Nat
    BY <1>1, LimitIsInt DEF IInv, CallsTyped
  <2> HIDE DEF A, U, M
  <2>4. consumed < M + U
    BY <2>1, <2>2, <2>3
  <2> QED
    BY <2>4 DEF U, M
<1> QED
  BY <1>1, Invariance, PTL

(***************************************************************************)
(* A run of the seed that came to its end has left every plan of the       *)
(* script with its feature, whatever others did and wherever they ended.   *)
(***************************************************************************)
THEOREM BillingSeedGivesFeatures == Spec => []SeedGivesFeatures
<1>1. ASSUME IInv PROVE SeedGivesFeatures
  <2> SUFFICES ASSUME NEW c \in Caller, call[c].kind = "seed", jobs[c] = <<>>, ~ lost[c],
                      NEW i \in DOMAIN Script
               PROVE  Script[i][1] \in plans /\ offers[Script[i][1]] # 0
    BY DEF SeedGivesFeatures
  <2>1. i \in 1 .. Len(Script)
    BY ScriptType
  <2>2. OnScript(c) /\ Len(SeedJobs) \in Nat
    BY <1>1, SeedType DEF IInv, PlansInv
  <2>3. Through(c) = Len(SeedJobs)
    BY <2>2 DEF Through
  <2>4. \A k \in 1 .. Len(SeedJobs) : Done(SeedJobs[k])
    BY <2>2, <2>3 DEF OnScript
  <2>5. Done(Job("plan", Script[i][1], 0))
    BY <2>1, <2>4, JobsOfPlan
  <2>6. Done(Job("offer", Script[i][1], Script[i][2]))
    BY <2>1, <2>4, JobsOfPlan
  <2> QED
    BY <2>5, <2>6 DEF Done, Job
<1> QED
  BY <1>1, Invariance, PTL
==============================================================================
