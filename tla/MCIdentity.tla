----------------------------- MODULE MCIdentity -----------------------------
(***************************************************************************)
(* Instances of Identity for TLC.                                          *)
(***************************************************************************)
EXTENDS Identity

R(kind, org, by, auth, email, phone, role) ==
    [kind |-> kind, org |-> org, by |-> by, auth |-> auth, email |-> email,
     phone |-> phone, role |-> role]

\* Two organizations that register, one of them with a phone that others use;
\* users with the same e-mail, with no phone and with an auth id of somebody
\* else, one of them an administrator, who creates a user in turn; two logins
\* with that e-mail.
AllCalls ==
    {R("register", "X", None, "a", None, "p", "admin"),
     R("register", "Y", None, "b", None, "q", "admin"),
     R("create", "X", "a", None, "e", "p", "user"),
     R("create", "X", "a", "b", "e", "q", "admin"),
     R("create", "X", "b", None, None, "p", "user"),
     R("create", "Y", "b", None, "e", None, "user"),
     R("create", "Y", "b", "c", "f", "p", "user"),
     R("sync", "X", None, "c", "e", None, "user"),
     R("sync", "X", None, "d", "e", None, "user")}

\* Nobody, and what the seed script writes: users with neither an auth id nor
\* an e-mail.
AllSeeds ==
    {<<>>,
     <<[org |-> "X", auth |-> None, email |-> None, phone |-> "p", role |-> "admin",
        checked |-> 0],
       [org |-> "X", auth |-> None, email |-> None, phone |-> "q", role |-> "agent",
        checked |-> 0]>>}
=============================================================================
