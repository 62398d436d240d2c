--------------------------- MODULE IdentityProofs ---------------------------
(***************************************************************************)
(* Theorems about Identity, for any set of callers and of calls.           *)
(***************************************************************************)
EXTENDS Identity, TLAPS

\* What a caller that is about to insert knows: the organization exists, and
\* the rows that it has seen do not have the phone.
PhoneKnown ==
    \A c \in Caller :
        /\ pc[c] \in {"phone", "insert"} => call[c].org \in orgs
        /\ pc[c] \in {"register", "admin", "phone"} => checked[c] = 0
        /\ pc[c] = "insert" /\ call[c].phone # None =>
               \A i \in DOMAIN users : i <= checked[c] => users[i].phone # call[c].phone

\* Who looks up what; the row that is about to be linked has the e-mail of the
\* login.
CallKnown ==
    \A c \in Caller :
        /\ pc[c] \in {"auth", "email", "link"} => call[c].kind = "sync"
        /\ pc[c] = "admin" => call[c].kind = "create"
        /\ pc[c] = "link" => users[found[c]].email = call[c].email

IInv ==
    /\ TypeOK
    /\ PhoneKnown
    /\ PhoneSharedByRace
    /\ CallKnown
    /\ OnlyNamesakesTakeOver

-----------------------------------------------------------------------------
(***************************************************************************)
(* Appending a row (users are only ever inserted at the end) keeps the     *)
(* rows that were there and adds one.                                      *)
(***************************************************************************)
LEMMA AppendFacts ==
    ASSUME NEW S, NEW s \in Seq(S), NEW x \in S
    PROVE  /\ Append(s, x) \in Seq(S)
           /\ Len(Append(s, x)) = Len(s) + 1
           /\ Len(s) \in Nat
           /\ DOMAIN s = 1 .. Len(s)
           /\ DOMAIN Append(s, x) = 1 .. (Len(s) + 1)
           /\ \A i \in DOMAIN s : Append(s, x)[i] = s[i]
           /\ Append(s, x)[Len(s) + 1] = x
OBVIOUS

(***************************************************************************)
(* The users that the seed script wrote, and the callers before their      *)
(* first statement, satisfy the invariant.                                 *)
(***************************************************************************)
LEMMA InitHolds == Init => IInv
<1> SUFFICES ASSUME Init PROVE IInv
  OBVIOUS
<1>1. users \in Seq(User) /\ Len(users) \in Nat /\ DOMAIN users = 1 .. Len(users)
  BY IdentityAssumption DEF Init
<1>2. TypeOK
  <2>1. \A c \in Caller : call[c] \in Calls
    BY DEF Init
  <2>2. \A c \in Caller : call[c] \in Call
    BY <2>1, IdentityAssumption
  <2>3. \A c \in Caller : call[c].kind \in Kind
    BY <2>2 DEF Call
  <2>4. \A k \in Kind : Start[k] \in {"register", "admin", "auth"}
    BY DEF Kind, Start
  <2>5. \A c \in Caller : Start[call[c].kind] \in {"register", "admin", "auth"}
    BY <2>3, <2>4
  <2>6. /\ pc \in [Caller -> {"register", "fetch", "admin", "phone", "insert", "auth", "email", "link", "done"}]
        /\ \A c \in Caller : pc[c] # "link"
    BY <2>5 DEF Init
  <2>7. found \in [Caller -> 0 .. Len(users)] /\ checked \in [Caller -> 0 .. Len(users)]
    BY <1>1 DEF Init
  <2>8. \A i \in DOMAIN users : users[i].org \in orgs
    BY DEF Init, SeededOrgs
  <2> QED
    BY <1>1, <2>6, <2>7, <2>8 DEF Init, TypeOK
<1>3. PhoneSharedByRace
  BY <1>1, IdentityAssumption DEF Init, PhoneSharedByRace
<1>4. PhoneKnown
  <2>1. \A c \in Caller : checked[c] = 0
    BY DEF Init
  <2>2. \A c \in Caller : pc[c] \notin {"phone", "insert"}
    <3>1. \A c \in Caller : call[c] \in Calls
      BY DEF Init
    <3>2. \A c \in Caller : call[c] \in Call
      BY <3>1, IdentityAssumption
    <3>3. \A c \in Caller : call[c].kind \in Kind
      BY <3>2 DEF Call
    <3>4. \A k \in Kind : Start[k] \notin {"phone", "insert"}
      BY DEF Kind, Start
    <3> QED
      BY <3>3, <3>4 DEF Init
  <2> QED
    BY <2>1, <2>2 DEF PhoneKnown
<1>5. CallKnown
  <2>1. \A c \in Caller : call[c] \in Calls
    BY DEF Init
  <2>2. \A c \in Caller : call[c] \in Call
    BY <2>1, IdentityAssumption
  <2>3. \A c \in Caller : call[c].kind \in Kind
    BY <2>2 DEF Call
  <2>4. ASSUME NEW c \in Caller
        PROVE  /\ pc[c] \in {"auth", "email", "link"} => call[c].kind = "sync"
               /\ pc[c] = "admin" => call[c].kind = "create"
               /\ pc[c] # "link"
    <3> DEFINE k == call[c].kind
    <3>1. pc[c] = Start[k]
      BY DEF Init
    <3>2. k \in Kind
      BY <2>3
    <3> HIDE DEF k
    <3>3. /\ Start[k] \in {"auth", "email", "link"} => k = "sync"
          /\ Start[k] = "admin" => k = "create"
          /\ Start[k] # "link"
      BY <3>2 DEF Kind, Start
    <3>4. /\ pc[c] \in {"auth", "email", "link"} => k = "sync"
          /\ pc[c] = "admin" => k = "create"
          /\ pc[c] # "link"
      BY <3>1, <3>3
    <3> QED
      BY <3>4 DEF k
  <2> QED
    BY <2>4 DEF CallKnown
<1>6. OnlyNamesakesTakeOver
  BY DEF Init, OnlyNamesakesTakeOver
<1> QED
  BY <1>2, <1>3, <1>4, <1>5, <1>6 DEF IInv

-----------------------------------------------------------------------------
(***************************************************************************)
(* A row that is added keeps the phones apart if its phone is in none of   *)
(* the rows that were seen.                                                *)
(***************************************************************************)
LEMMA AddKeeps ==
    ASSUME IInv, NEW row \in User,
           \A i \in DOMAIN users :
               users[i].phone = row.phone /\ row.phone # None => row.checked < i,
           users' = Append(users, row)
    PROVE  PhoneSharedByRace'
<1> USE DEF IInv, TypeOK
<1> DEFINE n == Len(users) + 1
<1>1. /\ Len(users) \in Nat /\ DOMAIN users = 1 .. Len(users)
      /\ DOMAIN users' = 1 .. n
      /\ users'[n] = row
      /\ \A i \in DOMAIN users : users'[i] = users[i]
  BY AppendFacts
<1>2. \A i \in DOMAIN users' : i \in DOMAIN users \/ i = n
  BY <1>1
<1>3. PhoneSharedByRace'
  <2> SUFFICES ASSUME NEW i \in DOMAIN users', NEW j \in DOMAIN users', i < j,
                      users'[i].phone = users'[j].phone, users'[i].phone # None
               PROVE  users'[j].checked < i
    BY DEF PhoneSharedByRace
  <2>1. i \in DOMAIN users
    BY <1>1, <1>2
  <2>2. CASE j \in DOMAIN users
    BY <1>1, <2>1, <2>2 DEF PhoneSharedByRace
  <2>3. CASE j = n
    BY <1>1, <2>1, <2>3
  <2> QED
    BY <1>2, <2>2, <2>3
<1> QED
  BY <1>3

(***************************************************************************)
(* The row that a call inserts is a user of the table, whatever the call   *)
(* asks for.                                                               *)
(***************************************************************************)
LEMMA NewUserType ==
    ASSUME IInv, NEW c \in Caller, NEW email \in {d.email : d \in Calls} \cup {None},
           NEW role \in Role
    PROVE  NewUser(c, email, role) \in User
<1>1. call[c] \in Calls
  BY DEF IInv, TypeOK
<1>2. checked[c] \in Nat
  <2>1. checked \in [Caller -> 0 .. Len(users)] /\ Len(users) \in Nat
    BY DEF IInv, TypeOK
  <2> QED
    BY <2>1
<1> QED
  BY <1>1, <1>2 DEF NewUser, User

(***************************************************************************)
(* A step of one caller that changes none of the rows that are there       *)
(* takes nobody's row, if what this caller has found is to be linked, or   *)
(* nothing, or what it had, or a row of its own login.                     *)
(***************************************************************************)
LEMMA OwnStep ==
    ASSUME IInv, NEW c \in Caller, pc[c] # "done",
           call' = call,
           \A d \in Caller \ {c} : pc'[d] = pc[d] /\ found'[d] = found[d],
           \A i \in DOMAIN users : i \in DOMAIN users' /\ users'[i] = users[i],
           pc'[c] \in {"auth", "email", "link"} => call[c].kind = "sync",
           pc'[c] # "admin",
           pc'[c] = "link" => /\ found'[c] \in DOMAIN users
                              /\ users[found'[c]].email = call[c].email,
           \/ pc'[c] = "link"
           \/ found'[c] = 0
           \/ found'[c] = found[c] /\ pc[c] # "link"
           \/ /\ found'[c] \in DOMAIN users
              /\ users[found'[c]].auth = Login(c)
              /\ call[c].kind = "create" => Administers(found'[c], call[c].org)
    PROVE  CallKnown' /\ OnlyNamesakesTakeOver'
<1> USE DEF IInv
<1>0. /\ DOMAIN users = 1 .. Len(users) /\ Len(users) \in Nat
      /\ \A d \in Caller : found[d] \in 0 .. Len(users)
  BY DEF TypeOK
<1>1. \A d \in Caller : found[d] # 0 => found[d] \in DOMAIN users
  BY <1>0
<1>2. CallKnown'
  <2> SUFFICES ASSUME NEW d \in Caller
               PROVE  /\ pc'[d] \in {"auth", "email", "link"} => call[d].kind = "sync"
                      /\ pc'[d] = "admin" => call[d].kind = "create"
                      /\ pc'[d] = "link" => users'[found'[d]].email = call[d].email
    BY DEF CallKnown
  <2>1. CASE d = c
    BY <2>1
  <2>2. CASE d # c
    <3>1. pc'[d] = pc[d] /\ found'[d] = found[d]
      BY <2>2
    <3>2. pc[d] = "link" => found[d] \in DOMAIN users
      BY <1>1 DEF TypeOK
    <3> QED
      BY <3>1, <3>2 DEF CallKnown
  <2> QED
    BY <2>1, <2>2
<1>3. OnlyNamesakesTakeOver'
  <2> SUFFICES ASSUME NEW d \in Caller, pc'[d] # "link", found'[d] # 0
               PROVE  /\ users'[found'[d]].auth = Login(d) \/ TakenOver(found[d])'
                      /\ call[d].kind = "create" =>
                             /\ users'[found'[d]].role = "admin"
                             /\ users'[found'[d]].org = call[d].org
    BY DEF OnlyNamesakesTakeOver, Login, Administers
  <2>1. CASE found'[d] = found[d] /\ pc[d] # "link"
    <3> DEFINE i == found[d]
    <3>1. i \in DOMAIN users /\ users'[i] = users[i]
      BY <1>1, <2>1
    <3>2. /\ users[i].auth = Login(d) \/ TakenOver(i)
          /\ call[d].kind = "create" => Administers(i, call[d].org)
      BY <2>1 DEF OnlyNamesakesTakeOver
    <3>3. TakenOver(i) => TakenOver(found[d])'
      <4>1. TakenOver(i) =>
               \E e \in Caller :
                  /\ call[e].kind = "sync" /\ pc'[e] = "done" /\ found'[e] = i
                  /\ users'[i].email = call[e].email /\ users'[i].auth = call[e].auth
        BY <3>1 DEF TakenOver
      <4> QED
        BY <2>1, <4>1 DEF TakenOver
    <3> QED
      BY <2>1, <3>1, <3>2, <3>3 DEF Administers
  <2>2. CASE d = c /\ ~(found'[d] = found[d] /\ pc[d] # "link")
    BY <2>2 DEF Administers
  <2>3. CASE d # c
    <3>1. found'[d] = found[d] /\ pc'[d] = pc[d]
      BY <2>3
    <3> QED
      BY <2>1, <3>1
  <2> QED
    BY <2>1, <2>2, <2>3
<1> QED
  BY <1>2, <1>3

(***************************************************************************)
(* Every statement of a registration, a creation or a synchronization      *)
(* keeps the invariant.                                                    *)
(***************************************************************************)
LEMMA StepKeeps == IInv /\ [Next]_vars => IInv'
<1> SUFFICES ASSUME IInv, [Next]_vars PROVE IInv'
  OBVIOUS
<1> USE DEF IInv
<1>0. /\ users \in Seq(User) /\ Len(users) \in Nat /\ DOMAIN users = 1 .. Len(users)
      /\ found \in [Caller -> 0 .. Len(users)] /\ checked \in [Caller -> 0 .. Len(users)]
      /\ call \in [Caller -> Calls]
      /\ \A d \in Caller : call[d] \in Call
  BY IdentityAssumption DEF TypeOK
<1>1. CASE UNCHANGED vars
  BY <1>1 DEF vars, TypeOK, PhoneKnown, PhoneSharedByRace, CallKnown,
              OnlyNamesakesTakeOver, TakenOver, Login, Administers
<1>2. ASSUME NEW c \in Caller, Register(c) PROVE IInv'
  <2>1. checked[c] = 0
    BY <1>2 DEF Register, PhoneKnown
  <2>2. CASE ~Registrable(c)
    <3>1. UNCHANGED <<backend, call, found, checked, orgs, users>>
      BY <1>2, <2>2 DEF Register
    <3>2. pc' = [pc EXCEPT ![c] = "done"]
      BY <1>2, <2>2 DEF Register, Goto
    <3>3. TypeOK' /\ PhoneKnown' /\ PhoneSharedByRace'
      BY <1>0, <3>1, <3>2 DEF TypeOK, PhoneKnown, PhoneSharedByRace
    <3>4. pc[c] = "register" /\ pc'[c] = "done" /\ \A d \in Caller \ {c} : pc'[d] = pc[d]
      BY <1>2, <3>2 DEF Register, TypeOK
    <3>5. CallKnown' /\ OnlyNamesakesTakeOver'
      BY <3>1, <3>4, OwnStep
    <3> QED
      BY <3>3, <3>5
  <2>3. CASE /\ AuthFree(call[c].auth, 0)
             /\ pc' = [pc EXCEPT ![c] = "fetch"]
             /\ orgs' = orgs \cup {call[c].org}
             /\ users' = Append(users, NewUser(c, None, "admin"))
    <3> DEFINE row == NewUser(c, None, "admin")
    <3>1. row \in User
      BY NewUserType DEF Role
    <3>2. row.auth = call[c].auth /\ row.checked = 0 /\ row.org = call[c].org
      BY <2>1 DEF NewUser
    <3>3. PhoneSharedByRace'
      BY <1>0, <2>3, <3>1, <3>2, AddKeeps
    <3>4. /\ users' \in Seq(User) /\ Len(users') = Len(users) + 1
          /\ DOMAIN users' = 1 .. Len(users) + 1
          /\ users'[Len(users) + 1] = row
          /\ \A i \in DOMAIN users : users'[i] = users[i]
      BY <1>0, <2>3, <3>1, AppendFacts
    <3>5. TypeOK'
      <4>1. found' \in [Caller -> 0 .. Len(users')] /\ checked' \in [Caller -> 0 .. Len(users')]
        BY <1>0, <1>2, <3>4 DEF Register
      <4>2. \A i \in DOMAIN users' : users'[i].org \in orgs'
        BY <1>0, <2>3, <3>2, <3>4 DEF TypeOK
      <4>3. UNCHANGED <<backend, call, found>>
        BY <1>2 DEF Register
      <4> QED
        BY <2>3, <3>4, <4>1, <4>2, <4>3 DEF TypeOK
    <3>6. PhoneKnown'
      <4>1. \A d \in Caller : pc'[d] = pc[d] \/ pc'[d] = "fetch"
        BY <2>3 DEF TypeOK
      <4>2. UNCHANGED <<call, checked>>
        BY <1>2 DEF Register
      <4>3. \A d \in Caller : checked[d] \in 0 .. Len(users)
        BY <1>0
      <4>4. ASSUME NEW d \in Caller, pc'[d] = "insert", call[d].phone # None,
                   NEW i \in DOMAIN users', i <= checked[d]
            PROVE  users'[i].phone # call[d].phone
        <5>1. pc[d] = "insert"
          BY <4>1, <4>4
        <5>2. i \in 1 .. Len(users) + 1 /\ checked[d] \in 0 .. Len(users) /\ Len(users) \in Nat
          BY <1>0, <3>4, <4>3
        <5>3. i \in 1 .. Len(users)
          BY ONLY <4>4, <5>2
        <5> QED
          BY <1>0, <3>4, <4>2, <4>4, <5>1, <5>3 DEF PhoneKnown
      <4> QED
        BY <2>3, <4>1, <4>2, <4>4 DEF PhoneKnown
    <3>7. /\ UNCHANGED <<call, found>>
          /\ pc[c] = "register" /\ pc'[c] = "fetch" /\ \A d \in Caller \ {c} : pc'[d] = pc[d]
      BY <1>2, <2>3 DEF Register, TypeOK
    <3>8. \A i \in DOMAIN users : i \in DOMAIN users' /\ users'[i] = users[i]
      BY <1>0, <3>4
    <3>9. CallKnown' /\ OnlyNamesakesTakeOver'
      BY <3>7, <3>8, OwnStep
    <3> QED
      BY <3>3, <3>5, <3>6, <3>9
  <2> QED
    BY <1>2, <2>2, <2>3 DEF Register, Registrable, Goto
<1>3. ASSUME NEW c \in Caller, Authenticate(c) PROVE IInv'
  <2>1. /\ UNCHANGED <<backend, call, checked, orgs, users>>
        /\ pc[c] = "admin"
        /\ \/ pc' = [pc EXCEPT ![c] = "done"] /\ found' = found
           \/ \E i \in DOMAIN users :
                 /\ users[i].auth = call[c].by /\ Administers(i, call[c].org)
                 /\ found' = [found EXCEPT ![c] = i]
                 /\ pc' = [pc EXCEPT ![c] = IF call[c].phone = None THEN "insert" ELSE "phone"]
    BY <1>3 DEF Authenticate, Goto, With
  <2>2. \A d \in Caller \ {c} : pc'[d] = pc[d] /\ found'[d] = found[d]
    BY <2>1 DEF TypeOK
  <2>3. PhoneSharedByRace'
    BY <2>1 DEF PhoneSharedByRace
  <2>4. CASE pc' = [pc EXCEPT ![c] = "done"] /\ found' = found
    <3>1. TypeOK'
      BY <1>0, <2>1, <2>4 DEF TypeOK
    <3>2. PhoneKnown'
      BY <2>1, <2>4 DEF PhoneKnown, TypeOK
    <3>3. pc'[c] = "done"
      BY <2>4 DEF TypeOK
    <3>4. CallKnown' /\ OnlyNamesakesTakeOver'
      BY <2>1, <2>2, <2>4, <3>3, OwnStep
    <3> QED
      BY <2>3, <3>1, <3>2, <3>4
  <2>5. ASSUME NEW i \in DOMAIN users, users[i].auth = call[c].by, Administers(i, call[c].org),
               found' = [found EXCEPT ![c] = i],
               pc' = [pc EXCEPT ![c] = IF call[c].phone = None THEN "insert" ELSE "phone"]
        PROVE  IInv'
    <3>1. /\ pc'[c] \in {"phone", "insert"} /\ found'[c] = i
          /\ pc'[c] = "insert" => call[c].phone = None
      BY <2>5 DEF TypeOK
    <3>2. call[c].org \in orgs
      BY <2>5 DEF Administers, TypeOK
    <3>3. TypeOK'
      <4>1. i \in 0 .. Len(users)
        BY <1>0
      <4>2. found' \in [Caller -> 0 .. Len(users)]
        BY <1>0, <2>5, <4>1
      <4>3. /\ pc' \in [Caller -> {"register", "fetch", "admin", "phone", "insert", "auth",
                                   "email", "link", "done"}]
            /\ \A d \in Caller : pc'[d] = "link" => pc[d] = "link" /\ d # c
        BY <2>2, <2>5, <3>1 DEF TypeOK
      <4> QED
        BY <2>1, <2>2, <4>2, <4>3 DEF TypeOK
    <3>4. PhoneKnown'
      BY <2>1, <2>2, <3>1, <3>2 DEF PhoneKnown
    <3>5. call[c].kind = "create" /\ users[found'[c]].auth = Login(c)
      BY <2>1, <2>5, <3>1 DEF CallKnown, Login
    <3>6. Administers(found'[c], call[c].org)
      BY <2>5, <3>1
    <3>7. CallKnown' /\ OnlyNamesakesTakeOver'
      BY <2>1, <2>2, <3>1, <3>5, <3>6, OwnStep
    <3> QED
      BY <2>3, <3>3, <3>4, <3>7
  <2> QED
    BY <2>1, <2>4, <2>5
<1>4. ASSUME NEW c \in Caller, CheckPhone(c) PROVE IInv'
  <2>1. TypeOK' /\ PhoneKnown' /\ PhoneSharedByRace'
    BY <1>0, <1>4 DEF CheckPhone, PhoneTaken, With, Goto, TypeOK, PhoneKnown,
                      PhoneSharedByRace
  <2>2. /\ UNCHANGED <<call, found, users>> /\ pc[c] = "phone"
        /\ pc'[c] \in {"done", "insert"} /\ \A d \in Caller \ {c} : pc'[d] = pc[d]
    BY <1>4 DEF CheckPhone, Goto, TypeOK
  <2>3. CallKnown' /\ OnlyNamesakesTakeOver'
    BY <2>2, OwnStep
  <2> QED
    BY <2>1, <2>3
<1>5. ASSUME NEW c \in Caller, InsertUser(c) PROVE IInv'
  <2>1. /\ UNCHANGED <<call, found>> /\ pc[c] = "insert"
        /\ pc'[c] = "done" /\ \A d \in Caller \ {c} : pc'[d] = pc[d]
    BY <1>5 DEF InsertUser, Goto, TypeOK
  <2>2. CASE users' = users
    <3>1. TypeOK' /\ PhoneKnown' /\ PhoneSharedByRace'
      BY <1>0, <1>5, <2>2
      DEF InsertUser, Goto, TypeOK, PhoneKnown, PhoneSharedByRace
    <3>2. CallKnown' /\ OnlyNamesakesTakeOver'
      BY <2>1, <2>2, OwnStep
    <3> QED
      BY <3>1, <3>2
  <2>3. CASE /\ AuthFree(call[c].auth, 0)
             /\ users' = Append(users, NewUser(c, call[c].email, call[c].role))
    <3> DEFINE row == NewUser(c, call[c].email, call[c].role)
    <3>1. row \in User
      BY <1>0, NewUserType DEF Call
    <3>2. /\ row.auth = call[c].auth /\ row.checked = checked[c]
          /\ row.org = call[c].org /\ row.phone = call[c].phone
      BY DEF NewUser
    <3>3. PhoneSharedByRace'
      <4>1. \A i \in DOMAIN users :
               users[i].phone = row.phone /\ row.phone # None => row.checked < i
        <5>1. \A i \in DOMAIN users : i \in Nat
          BY <1>0
        <5>2. checked[c] \in Nat
          BY <1>0
        <5>3. \A i \in DOMAIN users : i <= checked[c] \/ checked[c] < i
          BY <5>1, <5>2
        <5> QED
          BY <1>5, <3>2, <5>3 DEF InsertUser, PhoneKnown
      <4> QED
        BY <2>3, <3>1, <3>2, <4>1, AddKeeps
    <3>4. /\ users' \in Seq(User) /\ Len(users') = Len(users) + 1
          /\ DOMAIN users' = 1 .. Len(users) + 1
          /\ users'[Len(users) + 1] = row
          /\ \A i \in DOMAIN users : users'[i] = users[i]
      BY <1>0, <2>3, <3>1, AppendFacts
    <3>5. TypeOK'
      <4>1. found' \in [Caller -> 0 .. Len(users')] /\ checked' \in [Caller -> 0 .. Len(users')]
        BY <1>0, <1>5, <3>4 DEF InsertUser
      <4>2. call[c].org \in orgs
        BY <1>5 DEF InsertUser, PhoneKnown
      <4>3. \A i \in DOMAIN users' : users'[i].org \in orgs'
        BY <1>0, <1>5, <3>2, <3>4, <4>2 DEF TypeOK, InsertUser
      <4>4. /\ pc' = [pc EXCEPT ![c] = "done"]
            /\ UNCHANGED <<backend, call, found>>
        BY <1>5 DEF InsertUser, Goto
      <4> QED
        BY <3>4, <4>1, <4>3, <4>4 DEF TypeOK
    <3>6. PhoneKnown'
      BY <1>0, <1>5, <3>4 DEF InsertUser, Goto, PhoneKnown, TypeOK
    <3>7. \A i \in DOMAIN users : i \in DOMAIN users' /\ users'[i] = users[i]
      BY <1>0, <3>4
    <3>8. CallKnown' /\ OnlyNamesakesTakeOver'
      BY <2>1, <3>7, OwnStep
    <3> QED
      BY <3>3, <3>5, <3>6, <3>8
  <2> QED
    BY <1>5, <2>2, <2>3 DEF InsertUser
<1>6. ASSUME NEW c \in Caller, FindByAuth(c) PROVE IInv'
  <2>1. /\ UNCHANGED <<backend, call, checked, orgs, users>> /\ pc[c] = "auth"
        /\ \/ pc' = [pc EXCEPT ![c] = "email"] /\ found' = found
           \/ \E i \in DOMAIN users :
                 /\ users[i].auth = call[c].auth
                 /\ found' = [found EXCEPT ![c] = i]
                 /\ pc' = [pc EXCEPT ![c] = "done"]
    BY <1>6 DEF FindByAuth, Goto, With
  <2>2. /\ \A d \in Caller \ {c} : pc'[d] = pc[d] /\ found'[d] = found[d]
        /\ pc'[c] \in {"email", "done"}
        /\ \/ found'[c] = found[c]
           \/ found'[c] \in DOMAIN users /\ users[found'[c]].auth = call[c].auth
    BY <2>1 DEF TypeOK
  <2>3. TypeOK'
    <3>1. found' \in [Caller -> 0 .. Len(users)]
      <4>1. \A i \in DOMAIN users : i \in 0 .. Len(users)
        BY <1>0
      <4> QED
        BY <1>0, <2>1, <4>1
    <3>2. /\ pc' \in [Caller -> {"register", "fetch", "admin", "phone", "insert", "auth",
                                 "email", "link", "done"}]
          /\ \A d \in Caller : pc'[d] = "link" => pc[d] = "link" /\ d # c
      BY <2>1, <2>2 DEF TypeOK
    <3> QED
      BY <2>1, <2>2, <3>1, <3>2 DEF TypeOK
  <2>4. PhoneSharedByRace'
    BY <2>1 DEF PhoneSharedByRace
  <2>5. PhoneKnown'
    BY <2>1, <2>2 DEF PhoneKnown
  <2>6. call[c].kind = "sync" /\ Login(c) = call[c].auth
    BY <2>1 DEF CallKnown, Login
  <2>7. CallKnown' /\ OnlyNamesakesTakeOver'
    BY <2>1, <2>2, <2>6, OwnStep
  <2> QED
    BY <2>3, <2>4, <2>5, <2>7
<1>7. ASSUME NEW c \in Caller, FindByEmail(c) PROVE IInv'
  <2>1. /\ UNCHANGED <<backend, call, checked, orgs, users>> /\ pc[c] = "email"
        /\ \/ pc' = [pc EXCEPT ![c] = "done"] /\ found' = found
           \/ \E i \in DOMAIN users :
                 /\ users[i].email = call[c].email
                 /\ found' = [found EXCEPT ![c] = i] /\ pc' = [pc EXCEPT ![c] = "link"]
    BY <1>7 DEF FindByEmail, Goto, With
  <2>2. TypeOK'
    <3>1. CASE pc' = [pc EXCEPT ![c] = "done"] /\ found' = found
      BY <1>0, <2>1, <3>1 DEF TypeOK
    <3>2. ASSUME NEW i \in DOMAIN users, found' = [found EXCEPT ![c] = i],
                 pc' = [pc EXCEPT ![c] = "link"]
          PROVE  TypeOK'
      <4>1. i \in 0 .. Len(users) /\ i # 0
        BY <1>0
      <4>2. found' \in [Caller -> 0 .. Len(users)] /\ found'[c] # 0
        BY <1>0, <3>2, <4>1
      <4> QED
        BY <1>0, <2>1, <3>2, <4>2 DEF TypeOK
    <3> QED
      BY <2>1, <3>1, <3>2
  <2>3. PhoneSharedByRace'
    BY <2>1 DEF PhoneSharedByRace
  <2>4. \A d \in Caller : pc'[d] = pc[d] \/ pc'[d] \in {"done", "link"}
    BY <2>1 DEF TypeOK
  <2>5. PhoneKnown'
    BY <2>1, <2>4 DEF PhoneKnown
  <2>6. /\ \A d \in Caller \ {c} : pc'[d] = pc[d] /\ found'[d] = found[d]
        /\ \/ pc'[c] = "done" /\ found'[c] = found[c]
           \/ /\ pc'[c] = "link" /\ found'[c] \in DOMAIN users
              /\ users[found'[c]].email = call[c].email
    BY <2>1 DEF TypeOK
  <2>7. call[c].kind = "sync"
    BY <2>1 DEF CallKnown
  <2>8. CallKnown' /\ OnlyNamesakesTakeOver'
    BY <2>1, <2>6, <2>7, OwnStep
  <2> QED
    BY <2>2, <2>3, <2>5, <2>8
<1>8. ASSUME NEW c \in Caller, Link(c) PROVE IInv'
  <2> DEFINE f == found[c]
             a == call[c].auth
  <2>1. f \in DOMAIN users
    BY <1>0, <1>8 DEF Link, TypeOK
  <2>2. CASE users' = users /\ found' = [found EXCEPT ![c] = 0]
    <3>1. TypeOK' /\ PhoneKnown' /\ PhoneSharedByRace'
      BY <1>0, <1>8, <2>2
      DEF Link, Goto, TypeOK, PhoneKnown, PhoneSharedByRace
    <3>2. /\ call' = call /\ pc[c] = "link" /\ pc'[c] = "done" /\ found'[c] = 0
          /\ \A d \in Caller \ {c} : pc'[d] = pc[d] /\ found'[d] = found[d]
      BY <1>8, <2>2 DEF Link, Goto, TypeOK
    <3>3. CallKnown' /\ OnlyNamesakesTakeOver'
      BY <2>2, <3>2, OwnStep
    <3> QED
      BY <3>1, <3>3
  <2>3. CASE AuthFree(a, f) /\ users' = [users EXCEPT ![f].auth = a] /\ found' = found
    <3>1. users[f] \in User /\ a \in {d.auth : d \in Calls}
      BY <1>0, <2>1
    <3>2. [users[f] EXCEPT !.auth = a] \in User
      BY <3>1 DEF User
    <3>3. /\ users' \in Seq(User) /\ Len(users') = Len(users)
          /\ DOMAIN users' = DOMAIN users
          /\ users'[f] = [users[f] EXCEPT !.auth = a]
          /\ \A i \in DOMAIN users : i # f => users'[i] = users[i]
      BY <1>0, <2>1, <2>3, <3>2
    <3>4. /\ users'[f].auth = a
          /\ \A i \in DOMAIN users :
                /\ users'[i].phone = users[i].phone
                /\ users'[i].checked = users[i].checked
                /\ users'[i].org = users[i].org
                /\ users'[i].email = users[i].email
                /\ users'[i].role = users[i].role
      BY <3>1, <3>3 DEF User
    <3>6. PhoneSharedByRace'
      BY <3>3, <3>4 DEF PhoneSharedByRace
    <3>7. pc' = [pc EXCEPT ![c] = "done"] /\ UNCHANGED <<backend, call, found, checked, orgs>>
      BY <1>8, <2>3 DEF Link, Goto
    <3>8. TypeOK'
      BY <1>0, <3>3, <3>4, <3>7 DEF TypeOK
    <3>9. \A d \in Caller : pc'[d] = pc[d] \/ pc'[d] = "done"
      BY <3>7 DEF TypeOK
    <3>10. PhoneKnown'
      BY <3>3, <3>4, <3>7, <3>9 DEF PhoneKnown
    <3>11. \A d \in Caller : found[d] # 0 => found[d] \in DOMAIN users
      BY <1>0
    <3>12. /\ pc[c] = "link" /\ pc'[c] = "done"
           /\ \A d \in Caller : d # c => pc'[d] = pc[d]
      BY <1>8, <3>7 DEF Link, TypeOK
    <3>13. CallKnown'
      <4>1. \A d \in Caller : pc'[d] = "link" => found[d] \in DOMAIN users
        BY <3>9, <3>11 DEF TypeOK
      <4> QED
        BY <3>4, <3>7, <3>9, <4>1 DEF CallKnown
    <3>14. TakenOver(f)'
      <4>1. call[c].kind = "sync" /\ users[f].email = call[c].email
        BY <3>12 DEF CallKnown
      <4>2. users'[f].email = call[c].email /\ users'[f].auth = call[c].auth
        BY <2>1, <3>4, <4>1
      <4>3. call' = call /\ found' = found
        BY <3>7
      <4> QED
        BY <3>12, <4>1, <4>2, <4>3 DEF TakenOver
    <3>15. OnlyNamesakesTakeOver'
      <4> SUFFICES ASSUME NEW d \in Caller, pc'[d] # "link", found[d] # 0
                   PROVE  /\ users'[found[d]].auth = Login(d) \/ TakenOver(found[d])'
                          /\ call[d].kind = "create" =>
                                 /\ users'[found[d]].role = "admin"
                                 /\ users'[found[d]].org = call[d].org
        BY <3>7 DEF OnlyNamesakesTakeOver, Login, Administers
      <4> DEFINE i == found[d]
      <4>1. i \in DOMAIN users
        BY <3>11
      <4>2. CASE i = f
        <5>1. TakenOver(found[d])'
          BY <3>7, <3>14, <4>2
        <5>2. call[d].kind = "create" => Administers(i, call[d].org)
          <6>1. d = c => call[d].kind = "sync"
            BY <3>12 DEF CallKnown
          <6>2. d # c => pc[d] # "link"
            BY <3>12
          <6> QED
            BY <6>1, <6>2 DEF OnlyNamesakesTakeOver
        <5> QED
          BY <3>4, <4>1, <5>1, <5>2 DEF Administers
      <4>3. CASE i # f
        <5>1. d # c /\ pc[d] # "link" /\ users'[i] = users[i]
          BY <3>3, <3>12, <4>1, <4>3
        <5>2. /\ users[i].auth = Login(d) \/ TakenOver(i)
              /\ call[d].kind = "create" => Administers(i, call[d].org)
          BY <5>1 DEF OnlyNamesakesTakeOver
        <5>3. TakenOver(i) => TakenOver(found[d])'
          BY <3>7, <3>12, <5>1 DEF TakenOver
        <5> QED
          BY <5>1, <5>2, <5>3 DEF Administers
      <4> QED
        BY <4>2, <4>3
    <3> QED
      BY <3>6, <3>8, <3>10, <3>13, <3>15
  <2> QED
    BY <1>8, <2>2, <2>3 DEF Link
<1>9. ASSUME NEW c \in Caller, Fetch(c) PROVE IInv'
  <2>1. TypeOK' /\ PhoneKnown' /\ PhoneSharedByRace'
    BY <1>0, <1>9 DEF Fetch, Goto, TypeOK, PhoneKnown, PhoneSharedByRace
  <2>2. /\ UNCHANGED <<call, found, users>> /\ pc[c] = "fetch"
        /\ pc'[c] = "done" /\ \A d \in Caller \ {c} : pc'[d] = pc[d]
    BY <1>9 DEF Fetch, Goto, TypeOK
  <2>3. CallKnown' /\ OnlyNamesakesTakeOver'
    BY <2>2, OwnStep
  <2> QED
    BY <2>1, <2>3
<1> QED
  BY <1>1, <1>2, <1>3, <1>4, <1>5, <1>6, <1>7, <1>8, <1>9 DEF Next, Step

-----------------------------------------------------------------------------
(***************************************************************************)
(* Type correctness, for any callers and calls.                            *)
(***************************************************************************)
THEOREM IdentityTypeCorrect == Spec => []TypeOK
<1>1. IInv => TypeOK
  BY DEF IInv
<1> QED
  BY InitHolds, StepKeeps, <1>1, PTL DEF Spec

(***************************************************************************)
(* Two users share a phone only by a race or by a registration, however    *)
(* many calls run and whatever they ask for.                               *)
(***************************************************************************)
THEOREM PhonesApart == Spec => []PhoneSharedByRace
<1>1. IInv => PhoneSharedByRace
  BY DEF IInv
<1> QED
  BY InitHolds, StepKeeps, <1>1, PTL DEF Spec

(***************************************************************************)
(* The row that a call acts for stays the row of its login, and an         *)
(* administrator's, until another first login with the e-mail of the row   *)
(* takes it over: for any number of calls, whatever they ask for.          *)
(***************************************************************************)
THEOREM RowsGoByEmail == Spec => []OnlyNamesakesTakeOver
<1>1. IInv => OnlyNamesakesTakeOver
  BY DEF IInv
<1> QED
  BY InitHolds, StepKeeps, <1>1, PTL DEF Spec
=============================================================================
