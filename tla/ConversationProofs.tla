------------------------- MODULE ConversationProofs -------------------------
(***************************************************************************)
(* Proofs about Conversation, for every set of callers and every choice of *)
(* calls: type correctness, the freshness of status writes under the       *)
(* Postgres repository, and what rests on it.                              *)
(***************************************************************************)
EXTENDS Conversation, FiniteSetTheorems, TLAPS

(***************************************************************************)
(* The transition table of ConversationLifecycle and the copy the Supabase *)
(* repository keeps inside update_status have the same entries.            *)
(***************************************************************************)
THEOREM TablesAgree == ValidTransitions = RepoValidNext
<1>1. ASSUME NEW s \in Status
      PROVE  ValidTransitions[s] = RepoValidNext[s]
  BY <1>1 DEF ValidTransitions, RepoValidNext, Status, ActiveStatuses,
              PausedStatuses, ClosedStatuses
<1>2. QED
  BY <1>1 DEF ValidTransitions, RepoValidNext

(***************************************************************************)
(* What a call asks for is a status, unless it is an update that asks for  *)
(* none.                                                                   *)
(***************************************************************************)
LEMMA CallTargets ==
    ASSUME NEW c \in Call
    PROVE  /\ c.kind \notin {"extend", "transfer", "assign"} => c.to \in Status
           /\ c.kind # "none"
  BY DEF Call, RequestCalls, MessageCalls, SweepCalls, CleanupCalls, UpdateCalls,
         Status, ActiveStatuses, PausedStatuses, ClosedStatuses

-----------------------------------------------------------------------------
\* The row and every caller are of their types before the calls begin.
LEMMA InitTypeOK == Init => TypeOK
<1> SUFFICES ASSUME Init PROVE TypeOK
  OBVIOUS
<1> USE ConversationAssumption
<1>1. row \in Row
  BY DEF Init, Row
<1>2. RowObject \in Object /\ RowCurrent \in Current
  BY <1>1 DEF RowObject, RowCurrent, Row, Object, Current
<1>3. QED
  BY <1>1, <1>2 DEF Init, TypeOK, PC, MaxRetries

\* A versioned update (extend, transfer, escalate, assign) yields a row.
LEMMA UpdatedType ==
    ASSUME NEW p \in Caller, NEW v \in Nat, row \in Row, seen[p] \in Object
    PROVE  Updated(p, v) \in Row
<1>1. "progress" \in Status /\ "escalated" \in ContextKeys
  BY DEF Status, ActiveStatuses, ContextKeys
<1>2. CASE call[p].kind = "extend"
  BY <1>2 DEF Updated, Row
<1>3. CASE call[p].kind = "transfer"
  BY <1>3 DEF Updated, Row, Object
<1>4. CASE call[p].kind = "escalate"
  BY <1>1, <1>4 DEF Updated, Row, Object
<1>5. CASE call[p].kind \notin {"extend", "transfer", "escalate"}
  BY <1>5 DEF Updated, Row
<1>6. QED
  BY <1>2, <1>3, <1>4, <1>5

\* Type correctness, one step of a call at a time.
LEMMA StepTypeOK ==
    ASSUME TypeOK, NEW p \in Caller, Step(p)
    PROVE  TypeOK'
<1> USE ConversationAssumption
<1>0. /\ row \in Row
      /\ RowObject \in Object
      /\ RowCurrent \in Current
  BY DEF TypeOK, RowObject, RowCurrent, Row, Object, Current
<1>a. pc[p] # "idle" =>
        /\ call[p] \in Call
        /\ call[p].kind \notin {"extend", "transfer", "assign"} => call[p].to \in Status
  BY CallTargets DEF TypeOK
<1>1. CASE Load(p)
  BY <1>0, <1>1 DEF Load, LoadRequest, LoadCandidate, Begin, Goto, TypeOK, PC
<1>2. CASE PlainMessage(p) \/ IgnoreLowerPriority(p) \/ RejectTransition(p)
  BY <1>2 DEF PlainMessage, IgnoreLowerPriority, RejectTransition, WantsStatus,
              Goto, TypeOK, PC
<1>3. CASE ReadCurrent(p)
  BY <1>0, <1>3 DEF ReadCurrent, WantsStatus, Goto, TypeOK, PC
<1>4. CASE WriteStatus(p)
  <2>1. call[p].to \in Status
    BY <1>a, <1>4 DEF WriteStatus, TypeOK, VersionedKinds
  <2>2. VersionAfterStatus \in Nat
    BY <1>0 DEF VersionAfterStatus, Row
  <2>3. (row.expired /\ call[p].kind # "agent_text") \in BOOLEAN
    OBVIOUS
  <2>4. row' \in Row
    BY <1>0, <1>4, <2>1, <2>2, <2>3 DEF WriteStatus, Row
  <2>5. QED
    BY <2>4, <1>4 DEF WriteStatus, Goto, TypeOK, PC
<1>5. CASE StatusConflict(p) \/ UpdateConflict(p)
  BY <1>5 DEF StatusConflict, UpdateConflict, GiveUpOrRetry, Goto, TypeOK, PC, MaxRetries
<1>6. CASE Reload(p)
  BY <1>0, <1>6 DEF Reload, Goto, TypeOK, PC
<1>7. CASE LogHistory(p)
  <2>1. AuditEntry(p) \in HistoryEntry
    BY <1>a, <1>7 DEF LogHistory, AuditEntry, HistoryEntry, TypeOK, VersionedKinds, Current
  <2>2. QED
    BY <2>1, <1>7 DEF LogHistory, Goto, TypeOK, PC
<1>8. CASE UpdateContext(p)
  <2>1. row' \in Row
    BY <1>0, <1>8 DEF UpdateContext, WithContext, Row, Object, ContextKeys, TypeOK
  <2>2. QED
    BY <2>1, <1>8 DEF UpdateContext, WithContext, Goto, TypeOK, PC, MessageKinds
<1>9. CASE UpdateTimestamp(p)
  BY <1>0, <1>9 DEF UpdateTimestamp, Goto, TypeOK, PC, Row
<1>10. CASE VersionedUpdate(p)
  <2>1. /\ seen[p].version + 1 \in Nat
        /\ seen[p] \in Object
        /\ row' = Updated(p, seen[p].version + 1)
    BY <1>10 DEF VersionedUpdate, Object, TypeOK
  <2>2. row' \in Row
    BY ONLY <1>0, <2>1, UpdatedType
  <2>3. QED
    BY <2>2, <1>10 DEF VersionedUpdate, Goto, TypeOK, PC
<1>11. CASE Abort(p)
  BY <1>11 DEF Abort, InFlight, Goto, TypeOK, PC
<1>12. QED
  BY <1>1, <1>2, <1>3, <1>4, <1>5, <1>6, <1>7, <1>8, <1>9, <1>10, <1>11 DEF Step

\* The passing of expires_at and of the idle threshold keeps the types.
LEMMA ClockTypeOK ==
    ASSUME TypeOK, ExpiryPasses \/ IdleThresholdPasses
    PROVE  TypeOK'
BY DEF TypeOK, ExpiryPasses, IdleThresholdPasses, Row

\* Type correctness is inductive by itself.
LEMMA NextTypeOK == TypeOK /\ [Next]_vars => TypeOK'
<1> SUFFICES ASSUME TypeOK, [Next]_vars PROVE TypeOK'
  OBVIOUS
<1>1. CASE Next
  BY <1>1, StepTypeOK, ClockTypeOK DEF Next
<1>2. CASE UNCHANGED vars
  BY <1>2 DEF vars, TypeOK
<1>3. QED
  BY <1>1, <1>2

(***************************************************************************)
(* Type correctness of the row, of every call in flight and of the         *)
(* history, under both repositories.                                       *)
(***************************************************************************)
THEOREM TypeCorrect == Spec => []TypeOK
BY InitTypeOK, NextTypeOK, PTL DEF Spec

-----------------------------------------------------------------------------
(***************************************************************************)
(* Versions only grow, and nobody holds a version the row never had.  Both *)
(* repositories.                                                           *)
(***************************************************************************)
VersionsLag ==
    \A p \in Caller : seen[p].version <= row.version /\ cur[p].version <= row.version

\* No statement of either repository takes the version of the row back.
LEMMA VersionGrows ==
    ASSUME TypeOK, [Next]_vars
    PROVE  row'.version \in Nat /\ row'.version >= row.version
<1>0. row \in Row /\ row' \in Row
  BY NextTypeOK DEF TypeOK
<1>1. CASE \E p \in Caller : WriteStatus(p)
  BY <1>0, <1>1 DEF WriteStatus, VersionAfterStatus, Row
<1>2. CASE \E p \in Caller : VersionedUpdate(p)
  <2>1. PICK p \in Caller : VersionedUpdate(p)
    BY <1>2
  <2>2. row' = Updated(p, row.version + 1)
    BY <2>1 DEF VersionedUpdate
  <2>3. row'.version = row.version + 1
    BY <1>0, <2>2 DEF Updated, Row
  <2>4. QED
    BY <1>0, <2>3 DEF Row
<1>3. CASE /\ ~ \E p \in Caller : WriteStatus(p) \/ VersionedUpdate(p)
           /\ Next
  <2>1. row'.version = row.version
    BY <1>0, <1>3 DEF Next, Step, Load, LoadRequest, LoadCandidate, Begin, PlainMessage, IgnoreLowerPriority,
           RejectTransition, ReadCurrent, StatusConflict, Reload, LogHistory,
           UpdateContext, WithContext, UpdateTimestamp, UpdateConflict, Abort, ExpiryPasses,
           IdleThresholdPasses, Row
  <2>2. QED
    BY <1>0, <2>1 DEF Row
<1>4. CASE UNCHANGED vars
  BY <1>0, <1>4 DEF vars, Row
<1>5. QED
  BY <1>1, <1>2, <1>3, <1>4

(***************************************************************************)
(* What a step does to the objects held by a caller: they stay, or they    *)
(* become a copy of the row, which then stays.                             *)
(***************************************************************************)
LEMMA HeldObjects ==
    ASSUME TypeOK, [Next]_vars, NEW p \in Caller
    PROVE  /\ \/ seen'[p] = seen[p]
              \/ seen'[p] = RowObject /\ row' = row
           /\ \/ cur'[p] = cur[p]
              \/ cur'[p] = RowCurrent /\ row' = row
BY DEF TypeOK, Next, Step, Load, LoadRequest, LoadCandidate, Begin, PlainMessage, IgnoreLowerPriority,
       RejectTransition, ReadCurrent, WriteStatus, StatusConflict, Reload,
       LogHistory, UpdateContext, WithContext, UpdateTimestamp, VersionedUpdate,
       UpdateConflict, Abort, ExpiryPasses, IdleThresholdPasses, vars

\* VersionsLag holds at the start and through every step.
LEMMA VersionsLagInductive ==
    /\ Init => VersionsLag
    /\ TypeOK /\ VersionsLag /\ [Next]_vars => VersionsLag'
<1>1. Init => VersionsLag
  BY DEF Init, VersionsLag, RowObject, RowCurrent
<1>2. ASSUME TypeOK, VersionsLag, [Next]_vars
      PROVE  VersionsLag'
  <2> SUFFICES ASSUME NEW p \in Caller
               PROVE  seen'[p].version <= row'.version /\ cur'[p].version <= row'.version
    BY DEF VersionsLag
  <2>1. row.version \in Nat /\ seen[p].version \in Nat /\ cur[p].version \in Nat
    BY <1>2 DEF TypeOK, Row, Object, Current
  <2>2. row'.version \in Nat /\ row'.version >= row.version
    BY <1>2, VersionGrows
  <2>3. seen'[p].version = seen[p].version \/ seen'[p].version = row'.version
    BY <1>2, HeldObjects DEF RowObject
  <2>4. cur'[p].version = cur[p].version \/ cur'[p].version = row'.version
    BY <1>2, HeldObjects DEF RowCurrent
  <2>5. QED
    BY <1>2, <2>1, <2>2, <2>3, <2>4 DEF VersionsLag
<1>3. QED
  BY <1>1, <1>2

-----------------------------------------------------------------------------
(***************************************************************************)
(* Under the Postgres repository no step changes the status and leaves the *)
(* version: the versioned update is the only statement that sets it.       *)
(***************************************************************************)
LEMMA StatusMovesVersion ==
    ASSUME Backend = "postgres", TypeOK, [Next]_vars, row'.version = row.version
    PROVE  row'.status = row.status
<1>0. row \in Row /\ row' \in Row
  BY NextTypeOK DEF TypeOK
<1>1. ~ \E p \in Caller : WriteStatus(p)
  <2>1. SUFFICES ASSUME NEW p \in Caller, WriteStatus(p)
                 PROVE  FALSE
    OBVIOUS
  <2>2. row'.version = VersionAfterStatus
    BY <1>0, <2>1 DEF WriteStatus, Row
  <2>3. VersionAfterStatus = row.version + 1
    BY DEF VersionAfterStatus
  <2>4. QED
    BY <1>0, <2>2, <2>3 DEF Row
<1>2. ~ \E p \in Caller : VersionedUpdate(p)
  <2>1. SUFFICES ASSUME NEW p \in Caller, VersionedUpdate(p)
                 PROVE  FALSE
    OBVIOUS
  <2>2. row' = Updated(p, row.version + 1)
    BY <2>1 DEF VersionedUpdate
  <2>3. row'.version = row.version + 1
    BY <1>0, <2>2 DEF Updated, Row
  <2>4. QED
    BY <1>0, <2>3 DEF Row
<1>3. QED
  BY <1>0, <1>1, <1>2 DEF Next, Step, Load, LoadRequest, LoadCandidate, Begin, PlainMessage, IgnoreLowerPriority,
       RejectTransition, ReadCurrent, StatusConflict, Reload, LogHistory,
       UpdateContext, WithContext, UpdateTimestamp, UpdateConflict, Abort, ExpiryPasses,
       IdleThresholdPasses, vars, Row

\* Under Postgres, StatusFresh is inductive relative to VersionsLag.
LEMMA StatusFreshInductive ==
    ASSUME Backend = "postgres"
    PROVE  /\ Init => StatusFresh
           /\ TypeOK /\ VersionsLag /\ StatusFresh /\ [Next]_vars => StatusFresh'
<1>1. Init => StatusFresh
  BY DEF Init, StatusFresh, RowObject, RowCurrent
<1>2. ASSUME TypeOK, VersionsLag, StatusFresh, [Next]_vars
      PROVE  StatusFresh'
  <2> SUFFICES ASSUME NEW p \in Caller
               PROVE  /\ cur'[p].version = row'.version => cur'[p].status = row'.status
                      /\ seen'[p].version = row'.version => seen'[p].status = row'.status
    BY DEF StatusFresh
  <2>0. /\ row.version \in Nat /\ seen[p].version \in Nat /\ cur[p].version \in Nat
        /\ row'.version \in Nat /\ row'.version >= row.version
        /\ seen[p].version <= row.version /\ cur[p].version <= row.version
    BY <1>2, VersionGrows DEF TypeOK, Row, Object, Current, VersionsLag
  <2>1. ASSUME cur'[p].version = row'.version
        PROVE  cur'[p].status = row'.status
    <3>1. CASE cur'[p] = RowCurrent /\ row' = row
      BY <3>1 DEF RowCurrent
    <3>2. CASE cur'[p] = cur[p]
      <4>1. row'.version = row.version /\ cur[p].version = row.version
        BY <2>0, <2>1, <3>2
      <4>2. row'.status = row.status
        BY <1>2, <4>1, StatusMovesVersion
      <4>3. QED
        BY <1>2, <3>2, <4>1, <4>2 DEF StatusFresh
    <3>3. QED
      BY <1>2, <3>1, <3>2, HeldObjects
  <2>2. ASSUME seen'[p].version = row'.version
        PROVE  seen'[p].status = row'.status
    <3>1. CASE seen'[p] = RowObject /\ row' = row
      BY <3>1 DEF RowObject
    <3>2. CASE seen'[p] = seen[p]
      <4>1. row'.version = row.version /\ seen[p].version = row.version
        BY <2>0, <2>2, <3>2
      <4>2. row'.status = row.status
        BY <1>2, <4>1, StatusMovesVersion
      <4>3. QED
        BY <1>2, <3>2, <4>1, <4>2 DEF StatusFresh
    <3>3. QED
      BY <1>2, <3>1, <3>2, HeldObjects
  <2>3. QED
    BY <2>1, <2>2
<1>3. QED
  BY <1>1, <1>2

(***************************************************************************)
(* Optimistic locking works under the Postgres repository: whatever the    *)
(* calls and however many run at once, a status write that takes effect    *)
(* replaces the very status its caller read.                               *)
(***************************************************************************)
THEOREM PostgresStatusFresh ==
    ASSUME Backend = "postgres"
    PROVE  Spec => []StatusFresh
<1>1. Init => TypeOK /\ VersionsLag /\ StatusFresh
  BY InitTypeOK, VersionsLagInductive, StatusFreshInductive
<1>2. TypeOK /\ VersionsLag /\ StatusFresh /\ [Next]_vars
        => (TypeOK /\ VersionsLag /\ StatusFresh)'
  BY NextTypeOK, VersionsLagInductive, StatusFreshInductive
<1>3. QED
  BY <1>1, <1>2, PTL DEF Spec

-----------------------------------------------------------------------------
(***************************************************************************)
(* A caller that is about to write has had its target accepted, by the     *)
(* table of transitions or by the priorities; only the cleanup loop has    *)
(* not asked.                                                              *)
(***************************************************************************)
Accepted(p) ==
    \/ IsValidTransition(seen[p].status, call[p].to)
    \/ Overrides(p) /\ Outranks(call[p].to, seen[p].status)

WritesAccepted ==
    \A p \in Caller : pc[p] = "write" /\ call[p].kind # "cleanup" => Accepted(p)

\* A caller is at its write since a validation of the object it still holds.
LEMMA WriteAfterValidation ==
    ASSUME TypeOK, [Next]_vars, NEW p \in Caller, pc'[p] = "write"
    PROVE  /\ call'[p] = call[p] /\ seen'[p] = seen[p]
           /\ pc[p] = "write" \/ ReadCurrent(p)
<1>1. CASE \E q \in Caller : Load(q)
  BY <1>1 DEF TypeOK, Load, LoadRequest, LoadCandidate, Begin, Goto
<1>2. CASE ~ \E q \in Caller : Load(q)
  BY <1>2 DEF TypeOK, Next, Step, PlainMessage, IgnoreLowerPriority,
         RejectTransition, ReadCurrent, WriteStatus, StatusConflict, Reload,
         LogHistory, UpdateContext, WithContext, UpdateTimestamp, VersionedUpdate,
         UpdateConflict, Abort, ExpiryPasses, IdleThresholdPasses, vars,
         GiveUpOrRetry, Goto
<1>3. QED
  BY <1>1, <1>2

\* WritesAccepted holds at the start and through every step, under both repositories.
LEMMA WritesAcceptedInductive ==
    /\ Init => WritesAccepted
    /\ TypeOK /\ WritesAccepted /\ [Next]_vars => WritesAccepted'
<1>1. Init => WritesAccepted
  BY DEF Init, WritesAccepted
<1>2. ASSUME TypeOK, WritesAccepted, [Next]_vars
      PROVE  WritesAccepted'
  <2> SUFFICES ASSUME NEW p \in Caller, pc'[p] = "write", call'[p].kind # "cleanup"
               PROVE  Accepted(p)'
    BY DEF WritesAccepted
  <2>1. /\ call'[p] = call[p] /\ seen'[p] = seen[p]
        /\ pc[p] = "write" \/ ReadCurrent(p)
    BY <1>2, WriteAfterValidation
  <2>2. Accepted(p)
    <3>1. CASE pc[p] = "write"
      BY <1>2, <2>1, <3>1 DEF WritesAccepted
    <3>2. CASE ReadCurrent(p)
      BY <2>1, <3>2 DEF ReadCurrent, WantsStatus, ObjectAccepts, Accepted
    <3>3. QED
      BY <2>1, <3>1, <3>2
  <2>3. QED
    BY <2>1, <2>2 DEF Accepted, Overrides
<1>3. QED
  BY <1>1, <1>2

\* An accepted write over the status of the object in hand is a step of Lifecycle.
LEMMA AcceptedWriteMoves ==
    ASSUME TypeOK, StatusFresh, WritesAccepted, NEW p \in Caller, WriteStatus(p),
           seen[p].version = row.version, call[p].kind # "cleanup"
    PROVE  Machine!Next
<1>1. call[p].to \in Status
  BY CallTargets, ConversationAssumption DEF WriteStatus, TypeOK, VersionedKinds
<1>2. row'.status = call[p].to
  BY DEF WriteStatus, TypeOK, Row
<1>3. seen[p].status = row.status
  BY DEF StatusFresh
<1>4. Accepted(p)
  BY DEF WritesAccepted, WriteStatus
<1>5. CASE IsValidTransition(seen[p].status, call[p].to)
  <2>1. Machine!Transition(call[p].to)
    BY <1>2, <1>3, <1>5 DEF Machine!Transition, Machine!IsValidTransition,
          IsValidTransition, Machine!ValidTransitions, ValidTransitions,
          Machine!Status, Status, Machine!ActiveStatuses, ActiveStatuses,
          Machine!PausedStatuses, PausedStatuses, Machine!ClosedStatuses, ClosedStatuses
  <2>2. QED
    BY <1>1, <2>1 DEF Machine!Next, Machine!Status, Status, Machine!ActiveStatuses,
          ActiveStatuses, Machine!PausedStatuses, PausedStatuses,
          Machine!ClosedStatuses, ClosedStatuses
<1>6. CASE Overrides(p) /\ Outranks(call[p].to, seen[p].status)
  <2>1. Machine!Override(call[p].to)
    BY <1>2, <1>3, <1>6 DEF Overrides, Machine!Override, Machine!IsClosed, IsClosed,
          Machine!Outranks, Outranks, Machine!Priority, Priority,
          Machine!Status, Status, Machine!ActiveStatuses, ActiveStatuses,
          Machine!PausedStatuses, PausedStatuses, Machine!ClosedStatuses, ClosedStatuses
  <2>2. QED
    BY <1>1, <2>1 DEF Machine!Next, Machine!Status, Status, Machine!ActiveStatuses,
          ActiveStatuses, Machine!PausedStatuses, PausedStatuses,
          Machine!ClosedStatuses, ClosedStatuses
<1>7. QED
  BY <1>4, <1>5, <1>6 DEF Accepted

(***************************************************************************)
(* Under the Postgres repository a status write by a caller whose object   *)
(* is current moves the status as Lifecycle says, whatever else runs: only *)
(* a stale object takes a conversation off the documented machine.         *)
(***************************************************************************)
THEOREM PostgresFreshWritesObey ==
    ASSUME Backend = "postgres"
    PROVE  Spec => FreshWritesObey
<1> DEFINE Obeys == \A p \in Caller :
                       /\ WriteStatus(p)
                       /\ seen[p].version = row.version
                       /\ call[p].kind # "cleanup"
                       => Machine!Next
<1>1. Spec => []WritesAccepted
  BY InitTypeOK, NextTypeOK, WritesAcceptedInductive, TypeCorrect, PTL DEF Spec
<1>2. TypeOK /\ StatusFresh /\ WritesAccepted => [Obeys]_vars
  BY AcceptedWriteMoves
<1>3. QED
  BY <1>1, <1>2, TypeCorrect, PostgresStatusFresh, PTL DEF FreshWritesObey

-----------------------------------------------------------------------------
(***************************************************************************)
(* The history.  An entry is owed by each caller between its write and its *)
(* insert; the entries of different callers differ.                        *)
(***************************************************************************)
LEMMA OwedStays ==
    ASSUME \A p \in Caller :
              /\ pc'[p] = "log" <=> pc[p] = "log"
              /\ pc[p] = "log" => cur'[p] = cur[p] /\ call'[p] = call[p]
    PROVE  Owed' = Owed
BY DEF Owed, AuditEntry

\* A write of the status makes its caller owe one entry more.
LEMMA OwedGrows ==
    ASSUME NEW p \in Caller, pc[p] # "log", pc' = [pc EXCEPT ![p] = "log"],
           pc \in [Caller -> PC], UNCHANGED <<cur, call>>
    PROVE  Owed' = Owed \cup {AuditEntry(p)}
BY DEF Owed, AuditEntry

\* A caller that leaves "log", writing or losing its entry, owes it no longer.
LEMMA OwedShrinks ==
    ASSUME NEW p \in Caller, NEW l \in PC \ {"log"}, pc[p] = "log",
           pc' = [pc EXCEPT ![p] = l],
           pc \in [Caller -> PC], UNCHANGED <<cur, call>>
    PROVE  /\ AuditEntry(p) \in Owed
           /\ Owed' = Owed \ {AuditEntry(p)}
<1>1. AuditEntry(p) \in Owed
  BY DEF Owed
<1>2. \A q \in Caller : q # p => AuditEntry(q) # AuditEntry(p)
  BY DEF AuditEntry
<1>3. QED
  BY <1>1, <1>2 DEF Owed, AuditEntry

\* escalate writes the status by the generic update, which has no history.
NoEscalation == \A c \in Calls : c.kind # "escalate"

\* Every step of a call is a change, a settlement or a stutter of the audit trail.
LEMMA AuditStep ==
    ASSUME NoEscalation, TypeOK, StatusFresh, NEW p \in Caller, Step(p)
    PROVE  [Audit!Next]_Audit!vars
<1> USE DEF Audit!vars
<1>0. row \in Row /\ row' \in Row /\ pc \in [Caller -> PC]
  BY StepTypeOK DEF TypeOK
<1>1. CASE WriteStatus(p)
  <2>1. cur[p].status = row.status
    BY <1>1 DEF WriteStatus, StatusFresh
  <2>2. call[p].to \in Status /\ row'.status = call[p].to
    <3>1. call[p] \in Call /\ call[p].kind \notin VersionedKinds
      BY <1>1, ConversationAssumption DEF WriteStatus, TypeOK
    <3>2. call[p].to \in Status
      BY <3>1, CallTargets DEF VersionedKinds
    <3>3. QED
      BY <1>0, <1>1, <3>2 DEF WriteStatus, Row
  <2>3. Owed' = Owed \cup {AuditEntry(p)} /\ history' = history
    BY <1>0, <1>1, OwedGrows DEF WriteStatus, Goto
  <2>4. AuditEntry(p) = [by |-> p, from |-> row.status, to |-> call[p].to]
    BY <2>1 DEF AuditEntry
  <2>5. Audit!Change(p, call[p].to)
    BY <2>2, <2>3, <2>4 DEF Audit!Change
  <2>6. QED
    BY <2>2, <2>5 DEF Audit!Next, Audit!Status, Status, Audit!ActiveStatuses,
          Audit!PausedStatuses, Audit!ClosedStatuses, ActiveStatuses,
          PausedStatuses, ClosedStatuses
<1>2. CASE LogHistory(p)
  <2>1. AuditEntry(p) \in Owed /\ Owed' = Owed \ {AuditEntry(p)}
    BY <1>0, <1>2, OwedShrinks DEF LogHistory, Goto, PC
  <2>2. Audit!Settle(AuditEntry(p))
    BY <1>2, <2>1 DEF LogHistory, Audit!Settle
  <2>3. QED
    BY <2>1, <2>2 DEF Audit!Next
<1>3. CASE Abort(p) /\ pc[p] = "log"
  <2>1. AuditEntry(p) \in Owed /\ Owed' = Owed \ {AuditEntry(p)}
    BY <1>0, <1>3, OwedShrinks DEF Abort, Goto, PC
  <2>2. Audit!Settle(AuditEntry(p))
    BY <1>3, <2>1 DEF Abort, Audit!Settle
  <2>3. QED
    BY <2>1, <2>2 DEF Audit!Next
<1>4. CASE VersionedUpdate(p)
  <2>1. call[p].kind # "escalate"
    BY <1>4 DEF VersionedUpdate, NoEscalation, TypeOK
  <2>2. row'.status = row.status
    BY <1>0, <1>4, <2>1 DEF VersionedUpdate, Updated, Row
  <2>3. Owed' = Owed
    BY <1>0, <1>4, OwedStays DEF VersionedUpdate, Goto
  <2>4. QED
    BY <1>4, <2>2, <2>3 DEF VersionedUpdate
<1>5. CASE /\ ~WriteStatus(p) /\ ~LogHistory(p) /\ ~VersionedUpdate(p)
           /\ ~(Abort(p) /\ pc[p] = "log")
  <2>1. row'.status = row.status /\ history' = history
    BY <1>0, <1>5 DEF Step, Load, LoadRequest, LoadCandidate, Begin, PlainMessage, IgnoreLowerPriority,
       RejectTransition, ReadCurrent, StatusConflict, Reload, UpdateContext, WithContext,
       UpdateTimestamp, UpdateConflict, Abort, Row
  <2>2. \A q \in Caller :
           /\ pc'[q] = "log" <=> pc[q] = "log"
           /\ pc[q] = "log" => cur'[q] = cur[q] /\ call'[q] = call[q]
    BY <1>0, <1>5 DEF TypeOK, Step, Load, LoadRequest, LoadCandidate, Begin, PlainMessage, IgnoreLowerPriority,
       RejectTransition, WantsStatus, ReadCurrent, StatusConflict, Reload,
       UpdateContext, WithContext, UpdateTimestamp, UpdateConflict, Abort, GiveUpOrRetry, Goto
  <2>3. QED
    BY <2>1, <2>2, OwedStays
<1>6. QED
  BY <1>1, <1>2, <1>3, <1>4, <1>5

(***************************************************************************)
(* Under the Postgres repository the history tells the truth: as long as   *)
(* nobody escalates, the status and the history of a conversation are an   *)
(* AuditTrail, for every set of concurrent calls.                          *)
(***************************************************************************)
THEOREM PostgresAuditTrail ==
    ASSUME Backend = "postgres", NoEscalation
    PROVE  Spec => ImplementsAuditTrail
<1>1. Init => Audit!Init
  <2>1. ASSUME Init PROVE Owed = {} /\ history = {} /\ row.status \in Status
    BY <2>1, ConversationAssumption DEF Init, Owed
  <2>2. QED
    BY <2>1 DEF Audit!Init, Audit!Status, Status, Audit!ActiveStatuses,
          Audit!PausedStatuses, Audit!ClosedStatuses, ActiveStatuses,
          PausedStatuses, ClosedStatuses
<1>2. TypeOK /\ StatusFresh /\ [Next]_vars => [Audit!Next]_Audit!vars
  <2> SUFFICES ASSUME TypeOK, StatusFresh, [Next]_vars
               PROVE  [Audit!Next]_Audit!vars
    OBVIOUS
  <2>1. CASE \E p \in Caller : Step(p)
    BY <2>1, AuditStep
  <2>2. CASE ExpiryPasses \/ IdleThresholdPasses
    <3>1. row'.status = row.status /\ history' = history
      BY <2>2 DEF ExpiryPasses, IdleThresholdPasses, TypeOK, Row
    <3>2. Owed' = Owed
      BY <2>2, OwedStays DEF ExpiryPasses, IdleThresholdPasses
    <3>3. QED
      BY <3>1, <3>2 DEF Audit!vars
  <2>3. CASE UNCHANGED vars
    <3>1. Owed' = Owed
      BY <2>3, OwedStays DEF vars
    <3>2. QED
      BY <2>3, <3>1 DEF vars, Audit!vars
  <2>4. QED
    BY <2>1, <2>2, <2>3 DEF Next
<1>3. QED
  BY <1>1, <1>2, TypeCorrect, PostgresStatusFresh, PTL
     DEF Spec, ImplementsAuditTrail, Audit!Spec
-----------------------------------------------------------------------------
(***************************************************************************)
(* Transfers.  add_message is the one call that writes the context without *)
(* a version check; without it, the versioned updates lose no transfer.    *)
(***************************************************************************)
NoTexts == \A c \in Calls : c.kind \notin TextKinds

\* An attempt whose version still matches works on the transfers of the row.
TransfersFresh ==
    \A p \in Caller :
        pc[p] = "called" /\ seen[p].version = row.version
            => seen[p].transfers = row.transfers

\* What a versioned update does to the transfers and to the version.
LEMMA UpdatedTransfers ==
    ASSUME TypeOK, TransfersFresh, NEW p \in Caller, VersionedUpdate(p)
    PROVE  /\ row'.version = row.version + 1
           /\ row.transfers \subseteq row'.transfers
           /\ call[p].kind = "transfer" => p \in row'.transfers
<1>1. /\ row \in Row
      /\ row' = Updated(p, row.version + 1)
      /\ seen[p].transfers = row.transfers
  BY DEF VersionedUpdate, TransfersFresh, TypeOK
<1>2. CASE call[p].kind = "transfer"
  BY <1>1, <1>2 DEF Updated, Row
<1>3. CASE call[p].kind # "transfer"
  BY <1>1, <1>3 DEF Updated, Row
<1>4. QED
  BY <1>2, <1>3

\* Every other step of a system without texts leaves the transfers alone.
LEMMA OthersKeepTransfers ==
    ASSUME NoTexts, TypeOK, [Next]_vars, ~ \E p \in Caller : VersionedUpdate(p)
    PROVE  row'.transfers = row.transfers
<1>0. row \in Row
  BY DEF TypeOK
<1>1. ~ \E p \in Caller : UpdateContext(p)
  BY DEF UpdateContext, WithContext, TypeOK, NoTexts
<1>2. CASE \E p \in Caller : WriteStatus(p)
  BY <1>0, <1>2 DEF WriteStatus, Row
<1>3. CASE ~ \E p \in Caller : WriteStatus(p)
  BY <1>0, <1>1, <1>3 DEF Next, Step, Load, LoadRequest, LoadCandidate, Begin, PlainMessage, IgnoreLowerPriority,
       RejectTransition, ReadCurrent, StatusConflict, Reload, LogHistory,
       UpdateTimestamp, UpdateConflict, Abort, ExpiryPasses,
       IdleThresholdPasses, vars, Row
<1>4. QED
  BY <1>2, <1>3

\* A caller is ready to start an attempt since it read the row.
LEMMA ReadyAfterRead ==
    ASSUME TypeOK, [Next]_vars, NEW p \in Caller, pc'[p] = "called"
    PROVE  \/ pc[p] = "called" /\ seen'[p] = seen[p]
           \/ seen'[p] = RowObject /\ row' = row
<1>1. CASE \E q \in Caller : Load(q)
  BY <1>1 DEF TypeOK, Load, LoadRequest, LoadCandidate, Begin, Goto
<1>2. CASE ~ \E q \in Caller : Load(q)
  BY <1>2 DEF TypeOK, Next, Step, PlainMessage, IgnoreLowerPriority,
         RejectTransition, ReadCurrent, WriteStatus, StatusConflict, Reload,
         LogHistory, UpdateContext, WithContext, UpdateTimestamp, VersionedUpdate,
         UpdateConflict, Abort, ExpiryPasses, IdleThresholdPasses, vars,
         GiveUpOrRetry, Goto
<1>3. QED
  BY <1>1, <1>2

\* Without texts, TransfersFresh is inductive relative to VersionsLag.
LEMMA TransfersFreshInductive ==
    ASSUME NoTexts
    PROVE  /\ Init => TransfersFresh
           /\ TypeOK /\ VersionsLag /\ TransfersFresh /\ [Next]_vars => TransfersFresh'
<1>1. Init => TransfersFresh
  BY DEF Init, TransfersFresh
<1>2. ASSUME TypeOK, VersionsLag, TransfersFresh, [Next]_vars
      PROVE  TransfersFresh'
  <2> SUFFICES ASSUME NEW p \in Caller, pc'[p] = "called",
                      seen'[p].version = row'.version
               PROVE  seen'[p].transfers = row'.transfers
    BY DEF TransfersFresh
  <2>0. /\ row.version \in Nat /\ seen[p].version \in Nat
        /\ row'.version \in Nat /\ row'.version >= row.version
        /\ seen[p].version <= row.version
    BY <1>2, VersionGrows DEF TypeOK, Row, Object, VersionsLag
  <2>1. CASE seen'[p] = RowObject /\ row' = row
    BY <2>1 DEF RowObject
  <2>2. CASE pc[p] = "called" /\ seen'[p] = seen[p]
    <3>1. row'.version = row.version /\ seen[p].version = row.version
      BY <2>0, <2>2
    <3>2. ~ \E q \in Caller : VersionedUpdate(q)
      BY <1>2, <2>0, <3>1, UpdatedTransfers
    <3>3. row'.transfers = row.transfers
      BY <1>2, <3>2, OthersKeepTransfers
    <3>4. QED
      BY <1>2, <2>2, <3>1, <3>3 DEF TransfersFresh
  <2>3. QED
    BY <1>2, <2>1, <2>2, ReadyAfterRead
<1>3. QED
  BY <1>1, <1>2

\* A transfer that has just returned is the one whose update took effect.
LEMMA TransfersStayKnown ==
    ASSUME NoTexts, TypeOK, TransfersFresh, NoTransferLost, [Next]_vars
    PROVE  NoTransferLost'
<1> SUFFICES ASSUME NEW p \in Caller, pc'[p] = "done", call'[p].kind = "transfer"
             PROVE  p \in row'.transfers
  BY DEF NoTransferLost
<1>1. row.transfers \subseteq row'.transfers
  <2>1. CASE \E q \in Caller : VersionedUpdate(q)
    BY <2>1, UpdatedTransfers
  <2>2. CASE ~ \E q \in Caller : VersionedUpdate(q)
    BY <2>2, OthersKeepTransfers
  <2>3. QED
    BY <2>1, <2>2
<1>2. CASE pc[p] = "done" /\ call'[p] = call[p]
  BY <1>1, <1>2 DEF NoTransferLost
<1>3. CASE VersionedUpdate(p)
  BY <1>3, UpdatedTransfers DEF VersionedUpdate
<1>4. CASE ~(pc[p] = "done" /\ call'[p] = call[p]) /\ ~VersionedUpdate(p)
  <2>1. PICK q \in Caller : Step(q)
    BY <1>4 DEF Next, ExpiryPasses, IdleThresholdPasses, vars
  <2>2. q = p
    BY <1>4, <2>1 DEF TypeOK, Step, Load, LoadRequest, LoadCandidate, Begin, PlainMessage, IgnoreLowerPriority,
       RejectTransition, ReadCurrent, WriteStatus, StatusConflict, Reload,
       LogHistory, UpdateContext, WithContext, UpdateTimestamp, VersionedUpdate,
       UpdateConflict, Abort, GiveUpOrRetry, Goto
  <2>3. IgnoreLowerPriority(p) \/ LogHistory(p) \/ UpdateTimestamp(p)
    BY <1>4, <2>1, <2>2 DEF TypeOK, Step, Load, LoadRequest, LoadCandidate, Begin, PlainMessage,
       RejectTransition, ReadCurrent, WriteStatus, StatusConflict, Reload,
       UpdateContext, WithContext, UpdateConflict, Abort, GiveUpOrRetry, Goto
  <2>4. call[p].kind # "transfer" /\ call' = call
    BY <2>3 DEF TypeOK, IgnoreLowerPriority, Overrides, LogHistory,
       UpdateTimestamp, VersionedKinds, MessageKinds, TextKinds
  <2>5. QED
    BY <2>4
<1>5. QED
  BY <1>1, <1>2, <1>3, <1>4

(***************************************************************************)
(* As long as no message other than a goodbye is added, a transfer that    *)
(* returned stays in transfer_history, under both repositories and for any *)
(* number of concurrent calls.                                             *)
(***************************************************************************)
THEOREM TransfersKept ==
    ASSUME NoTexts
    PROVE  Spec => []NoTransferLost
<1>1. Init => TypeOK /\ VersionsLag /\ TransfersFresh /\ NoTransferLost
  <2>1. Init => NoTransferLost
    BY DEF Init, NoTransferLost
  <2>2. QED
    BY <2>1, InitTypeOK, VersionsLagInductive, TransfersFreshInductive
<1>2. TypeOK /\ VersionsLag /\ TransfersFresh /\ NoTransferLost /\ [Next]_vars
        => (TypeOK /\ VersionsLag /\ TransfersFresh /\ NoTransferLost)'
  BY NextTypeOK, VersionsLagInductive, TransfersFreshInductive, TransfersStayKnown
<1>3. QED
  BY <1>1, <1>2, PTL DEF Spec
-----------------------------------------------------------------------------
(***************************************************************************)
(* The attempts of a goodbye.  The version of the row starts at 1 and no   *)
(* statement moves it twice: a goodbye tries again only after somebody     *)
(* else has moved the version since its last attempt.                      *)
(***************************************************************************)
Answered(p) == IsClosed(seen[p].status) \/ IsClosed(cur[p].status)

ConflictsPaid(p) ==
    /\ pc[p] = "idle" => tries[p] = 0
    /\ call[p].kind = "user_bye" =>
          /\ tries[p] + 1 <= row.version
          /\ pc[p] = "write" => tries[p] + 1 <= cur[p].version
          /\ pc[p] = "failed" => Answered(p) \/ row.version > MaxRetries

Conflicts == row.version >= 1 /\ \A p \in Caller : ConflictsPaid(p)

\* An open conversation can always be closed by its user, says either table.
LEMMA OpenAcceptsGoodbye ==
    ASSUME NEW s \in Status, ~ IsClosed(s)
    PROVE  IsValidTransition(s, "user_closed") /\ RepoAccepts(s, "user_closed")
<1>1. s \in ActiveStatuses \cup PausedStatuses
  BY DEF Status, IsClosed
<1>2. "user_closed" \in ValidTransitions[s]
  BY <1>1 DEF ValidTransitions, ActiveStatuses, PausedStatuses, ClosedStatuses, Status
<1> QED
  BY <1>2, TablesAgree DEF IsValidTransition, RepoAccepts

\* What the others do, and the clock, leaves a caller what it has.
LEMMA OthersStay ==
    ASSUME TypeOK, NEW p \in Caller, [Next]_vars, ~ Step(p)
    PROVE  /\ pc'[p] = pc[p] /\ call'[p] = call[p] /\ seen'[p] = seen[p]
           /\ cur'[p] = cur[p] /\ tries'[p] = tries[p]
<1> DEFINE Same == /\ pc'[p] = pc[p] /\ call'[p] = call[p] /\ seen'[p] = seen[p]
                   /\ cur'[p] = cur[p] /\ tries'[p] = tries[p]
<1>1. /\ DOMAIN pc = Caller /\ DOMAIN call = Caller /\ DOMAIN seen = Caller
      /\ DOMAIN cur = Caller /\ DOMAIN tries = Caller
      /\ pc = [x \in Caller |-> pc[x]] /\ call = [x \in Caller |-> call[x]]
      /\ seen = [x \in Caller |-> seen[x]] /\ cur = [x \in Caller |-> cur[x]]
      /\ tries = [x \in Caller |-> tries[x]]
  BY DEF TypeOK
<1>2. CASE UNCHANGED vars \/ ExpiryPasses \/ IdleThresholdPasses
  BY <1>2 DEF vars, ExpiryPasses, IdleThresholdPasses
<1>3. CASE \E q \in Caller : Step(q)
  <2> PICK q \in Caller : Step(q)
    BY <1>3
  <2>1. q # p
    OBVIOUS
  <2>2. CASE Load(q)
    BY <1>1, <2>1, <2>2 DEF Load, LoadRequest, LoadCandidate, Begin, Goto
  <2>3. CASE ReadCurrent(q)
    BY <1>1, <2>1, <2>3 DEF ReadCurrent, Goto
  <2>4. CASE Reload(q)
    BY <1>1, <2>1, <2>4 DEF Reload, Goto
  <2>5. CASE StatusConflict(q) \/ UpdateConflict(q)
    <3>1. GiveUpOrRetry(q) /\ UNCHANGED <<call, seen, cur>>
      BY <2>5 DEF StatusConflict, UpdateConflict
    <3>2. pc'[p] = pc[p] /\ tries'[p] = tries[p]
      BY <1>1, <2>1, <3>1 DEF GiveUpOrRetry, Goto
    <3> QED
      BY <3>1, <3>2
  <2>6. CASE \/ PlainMessage(q) \/ IgnoreLowerPriority(q) \/ RejectTransition(q)
             \/ WriteStatus(q) \/ LogHistory(q) \/ UpdateContext(q)
             \/ UpdateTimestamp(q) \/ VersionedUpdate(q) \/ Abort(q)
    <3>1. UNCHANGED <<call, seen, cur, tries>> /\ \E l \in PC : Goto(q, l)
      BY <2>6 DEF PlainMessage, IgnoreLowerPriority, RejectTransition, WriteStatus,
         LogHistory, UpdateContext, UpdateTimestamp, VersionedUpdate, Abort, PC
    <3> QED
      BY <1>1, <2>1, <3>1 DEF Goto
  <2> QED
    BY <2>2, <2>3, <2>4, <2>5, <2>6 DEF Step
<1> QED
  BY <1>2, <1>3 DEF Next

(***************************************************************************)
(* A step of the goodbye itself: refused by one of the two tables, or by   *)
(* the version after its last attempt.                                     *)
(***************************************************************************)
LEMMA GoodbyeStep ==
    ASSUME TypeOK, VersionsLag, Conflicts, NEW p \in Caller, Step(p)
    PROVE  ConflictsPaid(p)'
<1> DEFINE v == row.version
           w == row'.version
<1>1. /\ v \in Nat /\ w \in Nat /\ w >= v /\ v >= 1 /\ cur[p].version \in Nat
      /\ cur[p].version <= v /\ tries[p] \in Nat
  <2>1. [Next]_vars
    BY DEF Next
  <2>2. tries[p] \in 0 .. MaxRetries - 1
    BY DEF TypeOK
  <2> QED
    BY <2>1, <2>2, VersionGrows DEF TypeOK, Row, Current, VersionsLag, Conflicts, MaxRetries
<1>2. ConflictsPaid(p)
  BY DEF Conflicts
<1>3. /\ pc \in [Caller -> PC] /\ call \in [Caller -> Calls \cup {NoCall}]
      /\ seen \in [Caller -> Object] /\ cur \in [Caller -> Current]
      /\ tries \in [Caller -> 0 .. MaxRetries - 1] /\ row.status \in Status
  BY DEF TypeOK, Row
<1>4. pc'[p] # "idle"
  BY <1>3 DEF Step, Load, LoadRequest, LoadCandidate, Begin, PlainMessage, IgnoreLowerPriority,
     RejectTransition, ReadCurrent, WriteStatus, StatusConflict, Reload, LogHistory,
     UpdateContext, UpdateTimestamp, VersionedUpdate, UpdateConflict, Abort,
     GiveUpOrRetry, Goto
<1>5. CASE Load(p)
  <2>1. pc[p] = "idle" /\ pc'[p] = "called" /\ tries' = tries /\ row' = row
    BY <1>3, <1>5 DEF Load, LoadRequest, LoadCandidate, Begin, Goto
  <2> QED
    BY <1>1, <1>2, <2>1 DEF ConflictsPaid
<1>6. CASE RejectTransition(p)
  <2>1. /\ pc'[p] = "failed" /\ UNCHANGED <<row, call, seen, cur, tries>>
        /\ pc[p] = "called" /\ ~ ObjectAccepts(p)
    BY <1>3, <1>6 DEF RejectTransition, WantsStatus, Goto
  <2>2. call[p].kind = "user_bye" => IsClosed(seen[p].status)
    <3> SUFFICES ASSUME call[p].kind = "user_bye", ~ IsClosed(seen[p].status) PROVE FALSE
      OBVIOUS
    <3>1. call[p].to = "user_closed"
      BY <1>3, ConversationAssumption DEF NoCall, Call, RequestCalls, MessageCalls, SweepCalls,
         CleanupCalls, UpdateCalls
    <3>2. seen[p].status \in Status
      BY <1>3 DEF Object
    <3> QED
      BY <2>1, <3>1, <3>2, OpenAcceptsGoodbye DEF ObjectAccepts
  <2> QED
    BY <1>2, <2>1, <2>2 DEF ConflictsPaid, Answered
<1>7. CASE ReadCurrent(p)
  <2>1. /\ UNCHANGED <<row, call, seen, tries>> /\ cur'[p] = RowCurrent
        /\ pc'[p] = "write" \/ (pc'[p] = "failed" /\ ~ RowAccepts(p))
        /\ pc[p] = "called"
    BY <1>3, <1>7 DEF ReadCurrent, WantsStatus, Goto
  <2>2. call[p].kind = "user_bye" /\ ~ RowAccepts(p) => IsClosed(row.status)
    <3> SUFFICES ASSUME call[p].kind = "user_bye", ~ IsClosed(row.status) PROVE RowAccepts(p)
      OBVIOUS
    <3>1. call[p].to = "user_closed"
      BY <1>3, ConversationAssumption DEF NoCall, Call, RequestCalls, MessageCalls, SweepCalls,
         CleanupCalls, UpdateCalls
    <3> QED
      BY <1>3, <3>1, OpenAcceptsGoodbye DEF RowAccepts
  <2>3. cur'[p].version = v /\ cur'[p].status = row.status
    BY <2>1 DEF RowCurrent
  <2> QED
    BY <1>2, <1>4, <2>1, <2>2, <2>3 DEF ConflictsPaid, Answered
<1>8. CASE StatusConflict(p)
  <2>1. /\ pc[p] = "write" /\ v # cur[p].version /\ UNCHANGED <<row, call, seen, cur>>
        /\ \/ tries'[p] = tries[p] + 1 /\ pc'[p] = "reload"
           \/ /\ tries'[p] = tries[p] /\ pc'[p] = "failed"
              /\ call[p].kind \notin RetryingKinds \/ ~ (tries[p] < MaxRetries - 1)
    BY <1>3, <1>8 DEF StatusConflict, GiveUpOrRetry, Goto
  <2>2. call[p].kind = "user_bye" => tries[p] + 2 <= v
    BY <1>1, <1>2, <2>1 DEF ConflictsPaid
  <2>3. call[p].kind = "user_bye" => call[p].kind \in RetryingKinds
    BY DEF RetryingKinds, MessageKinds
  <2>4. call[p].kind = "user_bye" /\ pc'[p] = "failed" => v > MaxRetries
    BY <1>1, <2>1, <2>2, <2>3 DEF MaxRetries
  <2> QED
    BY <1>1, <1>4, <2>1, <2>2, <2>4 DEF ConflictsPaid
<1>9. CASE ~ Load(p) /\ ~ RejectTransition(p) /\ ~ ReadCurrent(p) /\ ~ StatusConflict(p)
  <2>1. /\ call'[p] = call[p] /\ (call[p].kind = "user_bye" => tries'[p] = tries[p])
        /\ pc'[p] # "write" /\ (call[p].kind = "user_bye" => pc'[p] # "failed")
    BY <1>3, <1>9 DEF Step, PlainMessage, IgnoreLowerPriority, WriteStatus, Reload, LogHistory,
       UpdateContext, UpdateTimestamp, VersionedUpdate, UpdateConflict, Abort,
       GiveUpOrRetry, Goto, VersionedKinds
  <2> QED
    BY <1>1, <1>2, <1>4, <2>1 DEF ConflictsPaid
<1> QED
  BY <1>5, <1>6, <1>7, <1>8, <1>9

LEMMA ConflictsInductive ==
    /\ Init => Conflicts
    /\ TypeOK /\ VersionsLag /\ Conflicts /\ [Next]_vars => Conflicts'
<1>1. Init => Conflicts
  BY DEF Init, Conflicts, ConflictsPaid, NoCall
<1>2. ASSUME TypeOK, VersionsLag, Conflicts, [Next]_vars PROVE Conflicts'
  <2>1. row.version \in Nat /\ row'.version \in Nat /\ row'.version >= row.version /\ row.version >= 1
    BY <1>2, VersionGrows DEF TypeOK, Row, Conflicts
  <2>2. ASSUME NEW p \in Caller PROVE ConflictsPaid(p)'
    <3>1. CASE Step(p)
      BY <1>2, <3>1, GoodbyeStep
    <3>2. CASE ~ Step(p)
      <4>1. /\ pc'[p] = pc[p] /\ call'[p] = call[p] /\ seen'[p] = seen[p]
            /\ cur'[p] = cur[p] /\ tries'[p] = tries[p]
        BY <1>2, <3>2, OthersStay
      <4>2. tries[p] \in Nat
        <5>1. tries[p] \in 0 .. MaxRetries - 1
          BY <1>2 DEF TypeOK
        <5> QED
          BY <5>1
      <4>3. ConflictsPaid(p)
        BY <1>2 DEF Conflicts
      <4> QED
        BY <2>1, <4>1, <4>2, <4>3 DEF ConflictsPaid, Answered, MaxRetries
    <3> QED
      BY <3>1, <3>2
  <2> QED
    BY <2>1, <2>2 DEF Conflicts
<1> QED
  BY <1>1, <1>2
(***************************************************************************)
(* With any number of callers and on both repositories, a goodbye is       *)
(* refused only by a closed conversation as long as the version of the     *)
(* row, which starts at 1, has not been moved as often as the goodbye may  *)
(* try.                                                                    *)
(***************************************************************************)
THEOREM GoodbyesHeard == Spec => [](row.version <= MaxRetries => GoodbyeHeard)
<1>1. Init => TypeOK /\ VersionsLag /\ Conflicts
  BY InitTypeOK, VersionsLagInductive, ConflictsInductive
<1>2. (TypeOK /\ VersionsLag /\ Conflicts) /\ [Next]_vars => (TypeOK /\ VersionsLag /\ Conflicts)'
  BY NextTypeOK, VersionsLagInductive, ConflictsInductive
<1>3. TypeOK /\ VersionsLag /\ Conflicts => (row.version <= MaxRetries => GoodbyeHeard)
  <2> SUFFICES ASSUME TypeOK, Conflicts, row.version <= MaxRetries,
                      NEW p \in Caller, pc[p] = "failed", call[p].kind = "user_bye"
               PROVE  Answered(p)
    BY DEF GoodbyeHeard, Answered
  <2>1. row.version \in Nat
    BY DEF TypeOK, Row
  <2> QED
    BY <2>1 DEF Conflicts, ConflictsPaid, MaxRetries
<1> QED
  BY <1>1, <1>2, <1>3, PTL DEF Spec

-----------------------------------------------------------------------------
(***************************************************************************)
(* A call moves the version at most once, and then it has not failed.      *)
(***************************************************************************)
Moved == {p \in Caller : pc[p] \in {"log", "context", "stamp", "done", "aborted"}}

MovesCounted == row.version <= 1 + Cardinality(Moved)

LEMMA MovedFinite ==
    ASSUME IsFiniteSet(Caller)
    PROVE  /\ IsFiniteSet(Moved) /\ Cardinality(Moved) \in Nat
           /\ Moved # Caller => Cardinality(Moved) < Cardinality(Caller)
<1>1. Moved \subseteq Caller
  BY DEF Moved
<1>2. /\ IsFiniteSet(Moved) /\ Cardinality(Moved) \in Nat /\ Cardinality(Caller) \in Nat
      /\ Cardinality(Moved) <= Cardinality(Caller)
  BY <1>1, FS_Subset, FS_CardinalityType
<1>3. ASSUME Cardinality(Moved) = Cardinality(Caller) PROVE Moved = Caller
  BY <1>1, <1>3, FS_Subset
<1> QED
  BY <1>2, <1>3

\* Who has moved the version stays with those who have.
LEMMA MovedStay ==
    ASSUME TypeOK, [Next]_vars
    PROVE  Moved \subseteq Moved'
<1> SUFFICES ASSUME NEW p \in Moved PROVE p \in Moved'
  OBVIOUS
<1>1. p \in Caller /\ pc[p] \in {"log", "context", "stamp", "done", "aborted"} /\ pc \in [Caller -> PC]
  BY DEF Moved, TypeOK
<1>2. CASE Step(p)
  <2>1. LogHistory(p) \/ UpdateContext(p) \/ UpdateTimestamp(p) \/ Abort(p)
    BY <1>1, <1>2 DEF Step, Load, LoadRequest, LoadCandidate, Begin, PlainMessage,
       IgnoreLowerPriority, RejectTransition, ReadCurrent, WantsStatus, WriteStatus, StatusConflict,
       Reload, VersionedUpdate, UpdateConflict
  <2>2. pc'[p] \in {"context", "done", "stamp", "aborted"}
    BY <1>1, <2>1 DEF LogHistory, UpdateContext, UpdateTimestamp, Abort, Goto
  <2> QED
    BY <1>1, <2>2 DEF Moved
<1>3. CASE ~ Step(p)
  BY <1>1, <1>3, OthersStay DEF Moved
<1> QED
  BY <1>2, <1>3

LEMMA MovesCountedInductive ==
    ASSUME IsFiniteSet(Caller)
    PROVE  /\ Init => MovesCounted
           /\ TypeOK /\ MovesCounted /\ [Next]_vars => MovesCounted'
<1>1. ASSUME Init PROVE MovesCounted
  <2>1. row.version = 1
    BY <1>1 DEF Init
  <2> QED
    BY <2>1, MovedFinite DEF MovesCounted
<1>2. ASSUME TypeOK, MovesCounted, [Next]_vars PROVE MovesCounted'
  <2>1. row \in Row /\ row.version \in Nat /\ row'.version \in Nat /\ pc \in [Caller -> PC]
    BY <1>2, VersionGrows DEF TypeOK, Row
  <2>2. Moved \subseteq Moved' /\ IsFiniteSet(Moved') /\ Cardinality(Moved) \in Nat
        /\ Cardinality(Moved') \in Nat
    <3>1. Moved' \subseteq Caller
      BY DEF Moved
    <3> QED
      BY <1>2, <3>1, MovedStay, MovedFinite, FS_Subset, FS_CardinalityType
  <2>3. Cardinality(Moved) <= Cardinality(Moved')
    BY <2>2, FS_Subset
  <2>4. ASSUME NEW p \in Caller, WriteStatus(p) \/ VersionedUpdate(p)
        PROVE  MovesCounted'
    <3>1. row'.version <= row.version + 1
      <4>1. CASE WriteStatus(p)
        BY <2>1, <4>1 DEF WriteStatus, VersionAfterStatus, Row
      <4>2. CASE VersionedUpdate(p)
        <5>1. row' = Updated(p, row.version + 1)
          BY <4>2 DEF VersionedUpdate
        <5>2. row'.version = row.version + 1
          BY <2>1, <5>1 DEF Updated, Row
        <5> QED
          BY <2>1, <5>2
      <4> QED
        BY <2>4, <4>1, <4>2
    <3>2. p \notin Moved /\ p \in Moved'
      BY <2>1, <2>4 DEF Moved, WriteStatus, VersionedUpdate, Goto
    <3>3. Cardinality(Moved \cup {p}) = Cardinality(Moved) + 1
      BY <3>2, MovedFinite, FS_AddElement
    <3>4. Cardinality(Moved \cup {p}) <= Cardinality(Moved')
      BY <2>2, <3>2, FS_Subset
    <3> QED
      BY <1>2, <2>1, <2>2, <3>1, <3>3, <3>4 DEF MovesCounted
  <2>5. ASSUME ~ \E p \in Caller : WriteStatus(p) \/ VersionedUpdate(p)
        PROVE  MovesCounted'
    <3>1. row'.version = row.version
      BY <1>2, <2>1, <2>5 DEF Next, Step, Load, LoadRequest, LoadCandidate, Begin, PlainMessage,
         IgnoreLowerPriority, RejectTransition, ReadCurrent, StatusConflict, Reload, LogHistory,
         UpdateContext, WithContext, UpdateTimestamp, UpdateConflict, Abort, ExpiryPasses,
         IdleThresholdPasses, Row, vars
    <3> QED
      BY <1>2, <2>1, <2>2, <2>3, <3>1 DEF MovesCounted
  <2> QED
    BY <2>4, <2>5
<1> QED
  BY <1>1, <1>2

(***************************************************************************)
(* The retry loop of add_message is long enough for as many concurrent     *)
(* calls as it makes attempts, whatever they are: a call moves the version *)
(* once, and the goodbye that failed has not moved it.                     *)
(***************************************************************************)
THEOREM GoodbyesHeardByFew ==
    ASSUME IsFiniteSet(Caller), Cardinality(Caller) <= MaxRetries
    PROVE  Spec => []GoodbyeHeard
<1>1. Spec => []MovesCounted
  BY InitTypeOK, NextTypeOK, MovesCountedInductive, PTL DEF Spec
<1>2. TypeOK /\ MovesCounted /\ (row.version <= MaxRetries => GoodbyeHeard) => GoodbyeHeard
  <2> SUFFICES ASSUME TypeOK, MovesCounted, row.version <= MaxRetries => GoodbyeHeard,
                      NEW p \in Caller, pc[p] = "failed"
               PROVE  GoodbyeHeard
    BY DEF GoodbyeHeard
  <2>1. Moved # Caller
    BY DEF Moved
  <2>2. /\ Cardinality(Moved) \in Nat /\ Cardinality(Caller) \in Nat
        /\ Cardinality(Moved) < Cardinality(Caller)
    BY <2>1, MovedFinite, FS_CardinalityType
  <2>3. row.version \in Nat
    BY DEF TypeOK, Row
  <2> QED
    BY <2>2, <2>3 DEF MovesCounted, MaxRetries
<1> QED
  BY <1>1, <1>2, TypeCorrect, GoodbyesHeard, PTL
=============================================================================
