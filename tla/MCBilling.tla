------------------------------ MODULE MCBilling ------------------------------
(***************************************************************************)
(* Instances of Billing for TLC.                                           *)
(***************************************************************************)
EXTENDS Billing

Plans == {"free", "pro"}

\* A third plan would come through the API only.
Scripted == <<<<"free", 1>>, <<"pro", 2>>>>

C(kind, stripe, plan) == [kind |-> kind, stripe |-> stripe, plan |-> plan]

Callers == 1 .. 3

\* The callers are alike, so one order of what they do is enough; no three
\* make the same call, save for the users of the feature.
MixesOf(calls) ==
    {[c \in Callers |-> calls[m[c]]] :
        m \in {n \in [Callers -> DOMAIN calls] :
                  /\ n[1] <= n[2] /\ n[2] <= n[3]
                  /\ n[1] = n[3] => calls[n[1]].kind = "use"}}

\* A subscription, a trial and changes through the API, two checkouts and
\* what may follow.
Subscribing ==
    <<C("subscribe", "none", "free"), C("trial", "none", "pro"), C("upgrade", "none", "pro"),
      C("cancel", "none", "free"), C("checkout", "x", "pro"), C("checkout", "y", "free"),
      C("paid", "x", "free"), C("deleted", "x", "free")>>

Using ==
    <<C("use", "none", "free"), C("return", "none", "free"), C("enable", "none", "free")>>

\* The seed, an administrator, and a checkout that meets their work.
Planning ==
    <<C("seed", "none", "free"), C("create", "none", "pro"), C("offer", "none", "free"),
      C("version", "none", "pro"), C("checkout", "x", "free")>>

AllMixes == UNION {MixesOf(s) : s \in {Subscribing, Using, Planning}}

\* A tenant of the free plan goes through the checkout.
Checkouts == [Caller -> {C("subscribe", "none", "free"), C("checkout", "x", "pro")}]

Versions == [Caller -> {C("create", "none", "pro"), C("version", "none", "pro")}]
=============================================================================
