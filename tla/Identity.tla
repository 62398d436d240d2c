------------------------------ MODULE Identity ------------------------------
(***************************************************************************)
(* Organizations and their users.  Calls of the API run concurrently: an   *)
(* organization registers with its administrator, an administrator creates *)
(* a user, and a user who logged in with the external provider is linked   *)
(* to his row.  A user is found by auth id, by e-mail or by phone; the     *)
(* database only keeps the auth ids of users and the e-mails of            *)
(* organizations apart.                                                    *)
(***************************************************************************)
EXTENDS Naturals, Sequences

CONSTANTS
    Caller,    \* concurrent calls
    Calls,     \* what they may be, see Kind
    Backends,  \* what DATABASE_BACKEND may be: "supabase", "postgres"
    Seeds,     \* tables of users written by the seed script, one of them
    None       \* NULL

Kind == {"register", "create", "sync"}

Role == {"admin", "agent", "user"}

\* org: the e-mail of an organization, which stands for its owner_id; by: the
\* auth id that makes the call; the rest describes the user.
Call == [kind: Kind, org: {c.org : c \in Calls}, by: {c.by : c \in Calls},
         auth: {c.auth : c \in Calls}, email: {c.email : c \in Calls},
         phone: {c.phone : c \in Calls}, role: Role]

User == [org: {c.org : c \in Calls}, auth: {c.auth : c \in Calls} \cup {None},
         email: {c.email : c \in Calls} \cup {None}, phone: {c.phone : c \in Calls} \cup {None},
         role: Role, checked: Nat]

\* The seed script writes its users one after the other.
ASSUME IdentityAssumption ==
    /\ Backends \subseteq {"supabase", "postgres"}
    /\ Calls \subseteq Call
    /\ Seeds \subseteq Seq(User)
    /\ \A rows \in Seeds : \A i, j \in DOMAIN rows :
          i # j /\ rows[i].phone = rows[j].phone => rows[i].phone = None

VARIABLES
    backend,  \* the setting, fixed
    call,     \* the call of each caller
    pc,       \* its next statement
    found,    \* the row it has found, by its place in users: the one that it
              \* links, or that its login had when it was looked up
    checked,  \* how many users there were when it looked for the phone
    orgs,     \* the e-mails of the organizations
    users     \* the rows of users, in the order of their insertion

vars == <<backend, call, pc, found, checked, orgs, users>>

TypeOK ==
    /\ backend \in Backends
    /\ call \in [Caller -> Calls]
    /\ pc \in [Caller -> {"register", "fetch", "admin", "phone", "insert", "auth", "email", "link", "done"}]
    /\ users \in Seq(User)
    /\ found \in [Caller -> 0 .. Len(users)]
    /\ checked \in [Caller -> 0 .. Len(users)]
    /\ \A c \in Caller : pc[c] = "link" => found[c] # 0
    /\ \A i \in DOMAIN users : users[i].org \in orgs

Start == [register |-> "register", create |-> "admin", sync |-> "auth"]

SeededOrgs == {users[i].org : i \in DOMAIN users}

Init ==
    /\ backend \in Backends
    /\ call \in [Caller -> Calls]
    /\ pc = [c \in Caller |-> Start[call[c].kind]]
    /\ found = [c \in Caller |-> 0]
    /\ checked = [c \in Caller |-> 0]
    /\ users \in Seeds
    /\ orgs = SeededOrgs

Goto(c, l) == pc' = [pc EXCEPT ![c] = l]

With(column, value) == {i \in DOMAIN users : users[i][column] = value}

\* auth_id TEXT UNIQUE, for a write of row i
AuthFree(a, i) == a = None \/ With("auth", a) \subseteq {i}

\* The row of the user that a call describes; NULL columns are not compared.
NewUser(c, email, role) ==
    [org |-> call[c].org, auth |-> call[c].auth, email |-> email,
     phone |-> call[c].phone, role |-> role, checked |-> checked[c]]

-----------------------------------------------------------------------------
(***************************************************************************)
(* register_organization                                                   *)
(***************************************************************************)
\* The procedure of the database, one transaction that the unique columns may
\* refuse.  Only the Supabase repository has the method that calls it.
Registrable(c) ==
    /\ backend = "supabase"
    /\ call[c].org \notin orgs
    /\ AuthFree(call[c].auth, 0)

\* The administrator gets no e-mail, and nobody looks for his phone.
Register(c) ==
    /\ pc[c] = "register"
    /\ IF Registrable(c)
       THEN /\ orgs' = orgs \cup {call[c].org}
            /\ users' = Append(users, NewUser(c, None, "admin"))
            /\ Goto(c, "fetch")
       ELSE /\ UNCHANGED <<orgs, users>>
            /\ Goto(c, "done")
    /\ UNCHANGED <<backend, call, found, checked>>

\* The rows are then looked up by a column "id" that they do not have: the call
\* raises, with the organization registered and not subscribed to a plan.
Fetch(c) ==
    /\ pc[c] = "fetch"
    /\ Goto(c, "done")
    /\ UNCHANGED <<backend, call, found, checked, orgs, users>>

-----------------------------------------------------------------------------
(***************************************************************************)
(* create_user, for an administrator of the same organization              *)
(***************************************************************************)
Administers(i, org) == users[i].role = "admin" /\ users[i].org = org

\* The dependency of the route looks the user of the request up, once.
Authenticate(c) ==
    /\ pc[c] = "admin"
    /\ \/ \E i \in With("auth", call[c].by) :
             /\ Administers(i, call[c].org)
             /\ found' = [found EXCEPT ![c] = i]
             /\ Goto(c, IF call[c].phone = None THEN "insert" ELSE "phone")
       \/ /\ \A i \in With("auth", call[c].by) : ~Administers(i, call[c].org)
          /\ Goto(c, "done")
          /\ UNCHANGED found
    /\ UNCHANGED <<backend, call, checked, orgs, users>>

\* Mutant: phones are kept apart within an organization.
PhoneTaken_InOrg(c) ==
    With("phone", call[c].phone) \cap With("org", call[c].org) # {}

\* find_by_phone, in all organizations
PhoneTaken(c) == With("phone", call[c].phone) # {}

CheckPhone(c) ==
    /\ pc[c] = "phone"
    /\ Goto(c, IF PhoneTaken(c) THEN "done" ELSE "insert")
    /\ checked' = [checked EXCEPT ![c] = Len(users)]
    /\ UNCHANGED <<backend, call, found, orgs, users>>

\* Refused, with an error of the database, when the auth id is somebody's.
InsertUser(c) ==
    /\ pc[c] = "insert"
    /\ users' = IF AuthFree(call[c].auth, 0)
                THEN Append(users, NewUser(c, call[c].email, call[c].role))
                ELSE users
    /\ Goto(c, "done")
    /\ UNCHANGED <<backend, call, found, checked, orgs>>

-----------------------------------------------------------------------------
(***************************************************************************)
(* sync_user                                                               *)
(***************************************************************************)
FindByAuth(c) ==
    /\ pc[c] = "auth"
    /\ \/ /\ With("auth", call[c].auth) = {}
          /\ Goto(c, "email")
          /\ UNCHANGED found
       \/ \E i \in With("auth", call[c].auth) :
             /\ found' = [found EXCEPT ![c] = i]
             /\ Goto(c, "done")
    /\ UNCHANGED <<backend, call, checked, orgs, users>>

\* Mutant: the row is not remembered.
FindByEmail_Unfound(c) ==
    /\ pc[c] = "email"
    /\ Goto(c, IF With("email", call[c].email) = {} THEN "done" ELSE "link")
    /\ UNCHANGED <<backend, call, found, checked, orgs, users>>

\* Mutant: an e-mail also finds the rows that have none.
FindByEmail_Nulls(c) ==
    /\ pc[c] = "email"
    /\ LET rows == With("email", call[c].email) \cup With("email", None)
       IN  \/ /\ rows = {}
              /\ Goto(c, "done")
              /\ UNCHANGED found
           \/ \E i \in rows :
                 /\ found' = [found EXCEPT ![c] = i]
                 /\ Goto(c, "link")
    /\ UNCHANGED <<backend, call, checked, orgs, users>>

\* One of the rows, in no order, whether it is linked or not.
FindByEmail(c) ==
    /\ pc[c] = "email"
    /\ \/ /\ With("email", call[c].email) = {}
          /\ Goto(c, "done")
          /\ UNCHANGED found
       \/ \E i \in With("email", call[c].email) :
             /\ found' = [found EXCEPT ![c] = i]
             /\ Goto(c, "link")
    /\ UNCHANGED <<backend, call, checked, orgs, users>>

\* Refused, too, when the auth id is somebody else's: the login has no row then.
Link(c) ==
    /\ pc[c] = "link"
    /\ \/ /\ AuthFree(call[c].auth, found[c])
          /\ users' = [users EXCEPT ![found[c]].auth = call[c].auth]
          /\ UNCHANGED found
       \/ /\ ~AuthFree(call[c].auth, found[c])
          /\ found' = [found EXCEPT ![c] = 0]
          /\ UNCHANGED users
    /\ Goto(c, "done")
    /\ UNCHANGED <<backend, call, checked, orgs>>

-----------------------------------------------------------------------------
Step(c) ==
    \/ Register(c)
    \/ Fetch(c)
    \/ Authenticate(c)
    \/ CheckPhone(c)
    \/ InsertUser(c)
    \/ FindByAuth(c)
    \/ FindByEmail(c)
    \/ Link(c)

Next == \E c \in Caller : Step(c)

Spec == Init /\ [][Next]_vars
-----------------------------------------------------------------------------
(***************************************************************************)
(* Properties                                                              *)
(***************************************************************************)

\* The auth id that makes a call.
Login(c) == IF call[c].kind = "create" THEN call[c].by ELSE call[c].auth

\* The row was taken by the first login of somebody with its e-mail.
TakenOver(i) ==
    \E d \in Caller :
        /\ call[d].kind = "sync" /\ pc[d] = "done" /\ found[d] = i
        /\ users[i].email = call[d].email /\ users[i].auth = call[d].auth

(***************************************************************************)
(* A call acts for the row that its login had when it was looked up: an    *)
(* administrator who creates a user, several statements later, or somebody *)
(* who was told that he is a user.  However registrations, creations and   *)
(* first logins race, that row is still the row of this login, and an      *)
(* administrator's still an administrator's of the organization, unless    *)
(* another first login with the e-mail of the row has linked it to itself  *)
(* in the meantime: sync_user links a row whether it is linked or not.     *)
(***************************************************************************)
OnlyNamesakesTakeOver ==
    \A c \in Caller : pc[c] # "link" /\ found[c] # 0 =>
        /\ users[found[c]].auth = Login(c) \/ TakenOver(found[c])
        /\ call[c].kind = "create" => Administers(found[c], call[c].org)

(***************************************************************************)
(* A phone, by which the channel recognizes its users, is shared only for  *)
(* two reasons: the later user was created while the earlier one was being *)
(* created, or is an administrator who came with the organization.         *)
(***************************************************************************)
PhoneSharedByRace ==
    \A i, j \in DOMAIN users :
        (i < j /\ users[i].phone = users[j].phone /\ users[i].phone # None)
            => users[j].checked < i
=============================================================================
