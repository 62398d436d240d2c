------------------------------- MODULE Billing -------------------------------
(***************************************************************************)
(* The billing of one tenant: its subscriptions and the usage of a feature *)
(* under a quota, over the plans of module Plans.  Concurrent calls come   *)
(* from clients of the API, from the events of Stripe, from users of the   *)
(* feature and from the seed scripts.  A call is a sequence of statements; *)
(* any of them may raise, and an event that raised is delivered again.     *)
(***************************************************************************)
EXTENDS Plans, FiniteSetsExt

CONSTANTS
    Offered,    \* the sets of plans that may offer the feature at first
    Mixes,      \* what the callers may do: functions to [kind, stripe, plan]
    MaxAmount,  \* largest amount of one use
    MaxUses     \* bound on the uses and returns of one caller

ASSUME BillingAssumption ==
    /\ IsFiniteSet(Caller)
    /\ \A mix \in Mixes, c \in Caller : mix[c].plan \in Plan
    /\ Offered \subseteq SUBSET Plan
    /\ {MaxUses, MaxAmount} \subseteq Nat \ {0}

\* past_due, expired, unpaid and the others are never written.
Status == {"trialing", "active", "pending_cancellation", "canceled"}

VARIABLES
    call,      \* the call of each caller
    pc,        \* its next statement
    sub,       \* the subscription it works on, by its place in subs
    amount,    \* what it takes; read: the usage it has read (Supabase)
    read,
    uses,      \* how often it came back
    subs,      \* the rows of the tenant's subscriptions, by created_at
    usage,     \* the row of feature_usage
    events,    \* number of subscription_events of each subscription
    consumed   \* what was really used

locals == <<call, sub, amount, read, uses>>

vars == <<backend, planVars, jobVars, faults, locals, pc, subs, usage, events, consumed>>

NoUsage   == [used |-> 0, limit |-> -2, active |-> FALSE]
Unlimited == -1      \* quota_limit is NULL

Stripe == {"none"} \cup UNION {{mix[c].stripe : c \in Caller} : mix \in Mixes}

TypeOK ==
    /\ PlansTypeOK
    /\ call \in Mixes
    /\ subs \in Seq([status: Status, plan: Plan, stripe: Stripe])
    /\ sub \in [Caller -> 0 .. Len(subs)]
    /\ amount \in [Caller -> 0 .. MaxAmount] /\ read \in [Caller -> Nat]
    /\ uses \in [Caller -> 0 .. MaxUses]
    /\ usage \in [used: Nat, limit: Nat \cup {NoUsage.limit, Unlimited}, active: BOOLEAN]
    /\ DOMAIN events = DOMAIN subs
    /\ \A c \in Caller : pc[c] \in {"update", "log"} => sub[c] # 0

Start(kind) ==
    CASE kind \in {"subscribe", "trial"}                  -> "plan"
      [] kind = "checkout"                                -> "look"
      [] kind \in {"use", "return"}                       -> "check"
      [] kind \in {"paid", "deleted", "upgrade", "cancel"} -> "find"
      [] kind = "enable"                                  -> "enable"
      [] OTHER                                            -> "done"

JobsOf(d) ==
    CASE d.kind = "seed"                           -> SeedJobs
      [] d.kind \in {"create", "offer", "version"} -> <<Job(d.kind, d.plan, 1)>>
      [] OTHER                                     -> <<>>

Limit(p) ==
    LET i == {j \in DOMAIN Script : Script[j][1] = p}
    IN  IF i = {} THEN 0 ELSE Script[Max(i)][2]

\* An empty database, or one with plans, and perhaps with a subscription whose
\* features the operator has initialized by the function the migration brings
\* for it, initialize_feature_usage_for_subscription: no code calls it, and it
\* is the one way to a row with a quota.
Init ==
    /\ backend \in Backends
    /\ call \in Mixes
    /\ \/ catalog = FALSE /\ plans = {}
       \/ catalog = TRUE /\ plans = Plan
    /\ versions = [p \in Plan |-> IF p \in plans THEN <<[number |-> 1, active |-> TRUE]>>
                                                 ELSE <<>>]
    /\ \E o \in Offered :
          offers = [p \in Plan |-> IF p \in plans \cap o THEN Limit(p) ELSE 0]
    /\ \/ subs = <<>> /\ usage = NoUsage
       \/ \E p \in plans, s \in {"trialing", "active"} :
             /\ offers[p] # 0
             /\ subs = <<[status |-> s, plan |-> p, stripe |-> "none"]>>
             /\ usage = [used |-> 0, limit |-> offers[p], active |-> TRUE]
    /\ events = [i \in DOMAIN subs |-> 0]
    /\ jobs = [c \in Caller |-> JobsOf(call[c])]
    /\ at = [c \in Caller |-> "start"]
    /\ got = [c \in Caller |-> 0]
    /\ lost = [c \in Caller |-> FALSE]
    /\ pc = [c \in Caller |-> Start(call[c].kind)]
    /\ sub = [c \in Caller |-> 0]
    /\ amount = [c \in Caller |-> 0]
    /\ read = [c \in Caller |-> 0]
    /\ uses = [c \in Caller |-> 0]
    /\ consumed = 0
    /\ faults = 0

Goto(c, l) == pc' = [pc EXCEPT ![c] = l] /\ UNCHANGED <<backend, planVars, jobVars>>

\* Stripe delivers an event again until it is answered with success; other
\* clients see the error.
IsEvent(c) == call[c].kind \in {"checkout", "paid", "deleted"}

Raised(c) == Goto(c, IF IsEvent(c) THEN Start(call[c].kind) ELSE "done")

-----------------------------------------------------------------------------
(***************************************************************************)
(* Subscriptions.  The finders of the Postgres repository are those of the *)
(* protocol class, which return None, and its find_by_id asks for a column *)
(* "id", which neither subscriptions nor plans have.                       *)
(***************************************************************************)
FindersWork == backend = "supabase"

\* find_by_owner
Youngest == subs[Len(subs)]

\* Mutant: the owner's subscription is not looked at.
Look_Blind(c) ==
    /\ pc[c] = "look"
    /\ Goto(c, "plan")
    /\ UNCHANGED <<locals, subs, usage, events, consumed, faults>>

\* _handle_checkout_session_completed looks at the youngest subscription.
Look(c) ==
    /\ pc[c] = "look"
    /\ Goto(c, IF FindersWork /\ subs # <<>> /\ Youngest.status = "active"
               THEN "done" ELSE "plan")
    /\ UNCHANGED <<locals, subs, usage, events, consumed, faults>>

\* get_plan
ReadPlan(c) ==
    /\ pc[c] = "plan"
    /\ IF ~FindersWork \/ call[c].plan \notin plans THEN Raised(c)
       ELSE Goto(c, IF call[c].kind = "upgrade" THEN "update" ELSE "insert")
    /\ UNCHANGED <<locals, subs, usage, events, consumed, faults>>

\* idx_subscriptions_owner_active
Admits(i) == {j \in DOMAIN subs : subs[j].status = "active"} \subseteq {i}

\* create_subscription: the row comes first, the features and the event later.
Insert(c) ==
    /\ pc[c] = "insert"
    /\ LET s == IF call[c].kind = "trial" THEN "trialing" ELSE "active"
       IN  IF s = "active" /\ ~Admits(0)
           THEN Raised(c) /\ UNCHANGED <<subs, sub, events>>
           ELSE /\ subs' = Append(subs, [status |-> s, plan |-> call[c].plan,
                                         stripe |-> call[c].stripe])
                /\ events' = Append(events, 0)
                /\ sub' = [sub EXCEPT ![c] = Len(subs) + 1]
                /\ Goto(c, "features")
    /\ UNCHANGED <<call, amount, read, uses, usage, consumed, faults>>

\* get_plan_features and initialize_features_for_tenant: the upsert of a
\* feature of the plan carries datetimes, which the Supabase client cannot
\* send.  A plan that offers nothing has nothing to upsert, and so it seems
\* when the query fails.
Features(c) ==
    /\ pc[c] = "features"
    /\ \/ offers[call[c].plan] = 0 /\ Goto(c, "log") /\ UNCHANGED faults
       \/ offers[call[c].plan] # 0 /\ Raised(c) /\ UNCHANGED faults
       \/ faults < MaxFaults /\ faults' = faults + 1 /\ Goto(c, "log")
    /\ UNCHANGED <<locals, subs, usage, events, consumed>>

\* _log_event, the last statement of every call that changes a subscription.
LogEvent(c) ==
    /\ pc[c] = "log"
    /\ events' = [events EXCEPT ![sub[c]] = @ + 1]
    /\ Goto(c, "done")
    /\ UNCHANGED <<locals, subs, usage, consumed, faults>>

\* find_by_stripe_subscription_id returns one of the rows, in no order; the
\* clients of the API name the subscription themselves.
Matches(c) ==
    {i \in DOMAIN subs : /\ IsEvent(c) => subs[i].stripe = call[c].stripe
                         /\ FindersWork}

\* Mutant: not finding a subscription is not looked at.
Find_Unchecked(c) ==
    /\ pc[c] = "find"
    /\ \E i \in Matches(c) \cup {0} :
          /\ i = 0 => Matches(c) = {}
          /\ sub' = [sub EXCEPT ![c] = i]
    /\ Goto(c, IF call[c].kind = "upgrade" THEN "plan" ELSE "update")
    /\ UNCHANGED <<call, amount, read, uses, subs, usage, events, consumed, faults>>

Find(c) ==
    /\ pc[c] = "find"
    /\ \/ /\ Matches(c) = {}
          /\ Goto(c, "done")
          /\ UNCHANGED sub
       \/ \E i \in Matches(c) :
             /\ sub' = [sub EXCEPT ![c] = i]
             /\ Goto(c, CASE call[c].kind = "upgrade" -> "plan"
                          [] call[c].kind = "paid" /\ subs[i].status = "active" -> "done"
                          [] OTHER -> "update")
    /\ UNCHANGED <<call, amount, read, uses, subs, usage, events, consumed, faults>>

\* The update a call makes of the row it found, whatever its status is.
Updated(c, row) ==
    CASE call[c].kind = "upgrade" -> [row EXCEPT !.plan = call[c].plan]
      [] call[c].kind = "paid"    -> [row EXCEPT !.status = "active"]
      [] call[c].kind = "cancel"  -> [row EXCEPT !.status = "pending_cancellation"]
      [] OTHER                    -> [row EXCEPT !.status = "canceled"]

Update(c) ==
    /\ pc[c] = "update"
    /\ IF call[c].kind = "paid" /\ ~Admits(sub[c])
       THEN Raised(c) /\ UNCHANGED subs
       ELSE /\ subs' = [subs EXCEPT ![sub[c]] = Updated(c, @)]
            /\ Goto(c, CASE call[c].kind = "upgrade" -> "features"
                         [] call[c].kind = "paid"    -> "done"
                         [] OTHER                    -> "log")
    /\ UNCHANGED <<locals, usage, events, consumed, faults>>
-----------------------------------------------------------------------------
(***************************************************************************)
(* Usage                                                                   *)
(***************************************************************************)
\* seed_features of seed.py: the feature is looked for and created; a
\* creation that fails is skipped.
EnsureFeature(c) ==
    /\ pc[c] \in {"enable", "create"}
    /\ pc' = [pc EXCEPT ![c] = CASE pc[c] = "enable" /\ ~catalog -> "create"
                                 [] pc[c] = "create" /\ catalog  -> "done"
                                 [] OTHER                        -> "look for usage"]
    /\ catalog' = (catalog \/ pc[c] = "create")
    /\ UNCHANGED <<backend, plans, versions, offers, jobVars,
                   locals, subs, usage, events, consumed, faults>>

FindUsage(c) ==
    /\ pc[c] = "look for usage"
    /\ Goto(c, IF usage = NoUsage THEN "upsert" ELSE "done")
    /\ UNCHANGED <<locals, subs, usage, events, consumed, faults>>

\* ON CONFLICT DO UPDATE: the upsert names no quota, so that a row which is
\* there keeps its own, and starts to count anew.
Upserted(enabled) ==
    IF usage = NoUsage THEN [used |-> 0, limit |-> Unlimited, active |-> enabled]
                       ELSE [usage EXCEPT !.used = 0, !.active = enabled]

UpsertUsage(c) ==
    /\ pc[c] = "upsert"
    /\ \E enabled \in BOOLEAN : usage' = Upserted(enabled)
    /\ consumed' = 0
    /\ Goto(c, "done")
    /\ UNCHANGED <<locals, subs, events, faults>>

\* Mutant: the quota is not looked at.
Allowed_Active == usage # NoUsage /\ usage.active

\* check_feature_access, with use_cache = FALSE (no cache is configured).
Allowed ==
    /\ usage # NoUsage /\ usage.active
    /\ usage.limit = Unlimited \/ usage.used < usage.limit

\* increment_usage looks first; decrement_usage does not.
Check(c) ==
    /\ pc[c] = "check"
    /\ IF (call[c].kind = "use" /\ ~Allowed) \/ usage = NoUsage
       THEN Goto(c, "done") /\ UNCHANGED amount
       ELSE /\ \E a \in 1 .. MaxAmount : amount' = [amount EXCEPT ![c] = a]
            /\ Goto(c, IF backend = "postgres" THEN "count" ELSE "read")
    /\ UNCHANGED <<call, sub, read, uses, subs, usage, events, consumed, faults>>

\* The Supabase repository reads the row and computes the new value.
ReadUsage(c) ==
    /\ pc[c] = "read"
    /\ read' = [read EXCEPT ![c] = usage.used]
    /\ Goto(c, "count")
    /\ UNCHANGED <<call, sub, amount, uses, subs, usage, events, consumed, faults>>

Plus(c, n) == IF call[c].kind = "use" THEN n + amount[c] ELSE Max({0, n - amount[c]})

\* The Postgres repository computes it in the statement.
NewUsage(c) == Plus(c, IF backend = "postgres" THEN usage.used ELSE read[c])

Count(c) ==
    /\ pc[c] = "count"
    /\ usage' = [usage EXCEPT !.used = NewUsage(c)]
    /\ consumed' = Plus(c, consumed)
    /\ IF uses[c] < MaxUses
       THEN uses' = [uses EXCEPT ![c] = @ + 1] /\ Goto(c, "check")
       ELSE Goto(c, "done") /\ UNCHANGED uses
    /\ UNCHANGED <<call, sub, amount, read, subs, events, faults>>

-----------------------------------------------------------------------------
\* A statement raises, or the process ends.
Raise(c) ==
    /\ pc[c] # "done"
    /\ faults < MaxFaults
    /\ faults' = faults + 1
    /\ Raised(c)
    /\ UNCHANGED <<locals, subs, usage, events, consumed>>

Step(c) ==
    \/ Look(c)
    \/ ReadPlan(c)
    \/ Insert(c)
    \/ Features(c)
    \/ LogEvent(c)
    \/ Find(c)
    \/ Update(c)
    \/ EnsureFeature(c)
    \/ FindUsage(c)
    \/ UpsertUsage(c)
    \/ Check(c)
    \/ ReadUsage(c)
    \/ Count(c)

OfPlans(c) ==
    /\ PlanStep(c) \/ QueryFails(c) \/ JobFails(c)
    /\ UNCHANGED <<backend, locals, pc, subs, usage, events, consumed>>

Next == \E c \in Caller : Step(c) \/ Raise(c) \/ OfPlans(c)

\* A call that is running goes on, and Stripe tries again.  Nothing is asked
\* of the seeds and the administrators.
Spec == Init /\ [][Next]_vars /\ \A c \in Caller : WF_vars(Step(c))
-----------------------------------------------------------------------------
(***************************************************************************)
(* Properties                                                              *)
(***************************************************************************)
Users == {c \in Caller : call[c].kind = "use"}

(***************************************************************************)
(* Check-then-increment exceeds the quota by less than what the users that *)
(* are inside it at the same time take, however uses and returns           *)
(* interleave.  What is compared is the real consumption, so that lost     *)
(* increments show; they are why this holds for Postgres only.             *)
(***************************************************************************)
OverrunBounded ==
    (backend = "postgres" /\ usage.limit >= 0) =>
        consumed < Max({1, usage.limit}) + Cardinality(Users) * MaxAmount

(***************************************************************************)
(* On Supabase a checkout that was paid is acknowledged in the end, though *)
(* the step that gives the features fails every time: the row it leaves is *)
(* what the next delivery finds.  The exception is a plan that does not    *)
(* exist, and a subscription that is hidden by a younger one that is not   *)
(* active: the insert is then refused at every delivery.                   *)
(***************************************************************************)
Hidden ==
    /\ subs # <<>> /\ Youngest.status # "active"
    /\ \E i \in DOMAIN subs : subs[i].status = "active"

Open == \E c \in Caller : /\ call[c].kind = "checkout" /\ pc[c] # "done"
                         /\ backend = "supabase" /\ call[c].plan \in plans

CheckoutSettles == []<>(~Open \/ Hidden)

(***************************************************************************)
(* A run of the seed that came to its end leaves every plan of the script  *)
(* with its feature, whatever earlier or concurrent runs did and wherever  *)
(* they ended: what it finds half done it completes, and what it is        *)
(* refused someone else has written.                                       *)
(***************************************************************************)
SeedGivesFeatures ==
    \A c \in Caller : (call[c].kind = "seed" /\ jobs[c] = <<>> /\ ~lost[c]) =>
        \A i \in DOMAIN Script : Script[i][1] \in plans /\ offers[Script[i][1]] # 0

(***************************************************************************)
(* "Create subscription and initialize feature usage": a call that created *)
(* a subscription of a plan with the feature has initialized its usage.    *)
(***************************************************************************)
CreatedWithFeatures ==
    \A c \in Caller :
        (pc[c] = "done" /\ sub[c] # 0 /\ call[c].kind \in {"subscribe", "checkout"}) =>
            (offers[call[c].plan] # 0 => usage # NoUsage)

(***************************************************************************)
(* "Create a new version of a plan": a plan has a version in force.        *)
(***************************************************************************)
VersionInForce ==
    \A p \in plans : versions[p] # <<>> => Active(p) # {}

(***************************************************************************)
(* A checkout that was paid and acknowledged has its subscription.         *)
(***************************************************************************)
CheckoutCreates ==
    \A c \in Caller : (call[c].kind = "checkout" /\ pc[c] = "done") =>
        \E i \in DOMAIN subs : subs[i].stripe = call[c].stripe
=============================================================================
