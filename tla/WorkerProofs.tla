----------------------------- MODULE WorkerProofs -----------------------------
(***************************************************************************)
(* Theorems about Worker for every set of appointments, any number of      *)
(* overlapping scans, and any bounds on the clock and the outbox.          *)
(***************************************************************************)
EXTENDS Worker, TLAPS, FiniteSetTheorems

-----------------------------------------------------------------------------
(* Types.  A write to a row is well-typed because what a scan has read is    *)
(* never removed from the table: a deleted row keeps what the scan knows.    *)

\* What a scan works on is a row that was inserted.
ScanNamesRows(s) ==
  /\ outbox[s].pc = "next" => \A r \in outbox[s].todo : rows[r] # NoRow
  /\ outbox[s].pc \in {"loaded", "accepted", "refused"} =>
       /\ rows[outbox[s].row] # NoRow
       /\ \A r \in outbox[s].todo : rows[r] # NoRow

TypeInv == WorkerTypeOK /\ \A s \in OutboxScans : ScanNamesRows(s)

LEMMA ScanShape ==
  ASSUME NEW o \in OutboxScan
  PROVE  /\ o.pc = "next" => o.todo \in SUBSET RowIds
         /\ o.pc \in {"loaded", "accepted", "refused"} =>
              /\ o.row \in RowIds /\ o.todo \in SUBSET RowIds
         /\ o.pc # "rest" => o.pc \in {"next", "loaded", "accepted", "refused"}
BY DEF OutboxScan, Resting

LEMMA ScansMade ==
  ASSUME NEW l \in SUBSET RowIds
  PROVE  /\ Resting \in OutboxScan
         /\ l # {} => [pc |-> "next", todo |-> l] \in OutboxScan
         /\ \A r \in RowIds : [pc |-> "loaded", row |-> r, todo |-> l] \in OutboxScan
<1>1. Resting \in OutboxScan
  BY DEF OutboxScan
<1>2. ASSUME l # {}
      PROVE  [pc |-> "next", todo |-> l] \in OutboxScan
  <2>1. l \in {k \in SUBSET RowIds : k # {}}
    BY <1>2
  <2>2. QED
    BY <2>1 DEF OutboxScan
<1>3. ASSUME NEW r \in RowIds
      PROVE  [pc |-> "loaded", row |-> r, todo |-> l] \in OutboxScan
  <2>1. [pc |-> "loaded", row |-> r, todo |-> l] \in
          [pc : {"loaded", "accepted", "refused"}, row : RowIds, todo : SUBSET RowIds]
    OBVIOUS
  <2>2. QED
    BY <2>1 DEF OutboxScan
<1>4. QED
  BY <1>1, <1>2, <1>3

LEMMA RowFields ==
  ASSUME NEW x \in Row
  PROVE  /\ x # NoRow
         /\ x.appt \in Appts /\ x.due \in BOOLEAN
         /\ x.type \in {"CONFIRMATION", "RESCHEDULE", "CANCELLATION", "REMINDER"}
         /\ x.status \in {"QUEUED", "FAILED", "SENT", "deleted"}
         /\ \A t \in {"QUEUED", "FAILED", "SENT", "deleted"} :
              /\ [x EXCEPT !.status = t] \in Row
              /\ [x EXCEPT !.status = t].status = t
              /\ [x EXCEPT !.status = t].type = x.type
              /\ [x EXCEPT !.status = t].appt = x.appt
<1>1. x # NoRow
  BY DEF Row, NoRow
<1>2. /\ x.appt \in Appts /\ x.due \in BOOLEAN
      /\ x.type \in {"CONFIRMATION", "RESCHEDULE", "CANCELLATION", "REMINDER"}
      /\ x.status \in {"QUEUED", "FAILED", "SENT", "deleted"}
  BY DEF Row
<1>3. ASSUME NEW t \in {"QUEUED", "FAILED", "SENT", "deleted"}
      PROVE  /\ [x EXCEPT !.status = t] \in Row
             /\ [x EXCEPT !.status = t].status = t
             /\ [x EXCEPT !.status = t].type = x.type
             /\ [x EXCEPT !.status = t].appt = x.appt
  BY DEF Row
<1>4. QED
  BY <1>1, <1>2, <1>3

\* Every row that is there stays there, as the same mail.
RowKept(r) ==
  \/ rows'[r] = rows[r]
  \/ /\ rows[r] = NoRow /\ rows'[r] \in Row
     /\ rows'[r].status = "QUEUED"
  \/ /\ rows[r] \in Row /\ rows'[r] \in Row
     /\ rows'[r].appt = rows[r].appt /\ rows'[r].type = rows[r].type

RowsAreKept == rows' \in [RowIds -> Row \cup {NoRow}] /\ \A r \in RowIds : RowKept(r)

LEMMA QueueKeeps ==
  ASSUME TypeInv, NEW a \in Appts,
         NEW type \in {"CONFIRMATION", "RESCHEDULE", "CANCELLATION", "REMINDER"},
         Queue(a, type)
  PROVE  RowsAreKept
<1> DEFINE x == [appt |-> a, type |-> type, status |-> "QUEUED", due |-> TRUE]
<1>1. x \in Row /\ x.status = "QUEUED"
  BY DEF Row
<1>2. PICK r \in RowIds : rows[r] = NoRow /\ rows' = [rows EXCEPT ![r] = x]
  BY DEF Queue
<1> HIDE DEF x
<1>3. QED
  BY <1>1, <1>2 DEF RowsAreKept, RowKept, TypeInv, WorkerTypeOK

LEMMA DeletePersonalDataKeeps ==
  ASSUME TypeInv, DeletePersonalData
  PROVE  RowsAreKept
<1>1. \A r \in RowIds : Undelivered(r) => rows[r] \in Row
  BY DEF Undelivered, NoRow, TypeInv, WorkerTypeOK
<1>2. \A r \in RowIds : Undelivered(r) =>
        [rows[r] EXCEPT !.status = "deleted"] \in Row
  BY <1>1, RowFields
<1>3. \A r \in RowIds : RowKept(r)
  BY <1>1, <1>2, RowFields DEF DeletePersonalData, RowKept
<1>4. QED
  BY <1>2, <1>3 DEF DeletePersonalData, RowsAreKept, TypeInv, WorkerTypeOK

LEMMA OutboxLoadKeeps ==
  ASSUME TypeInv, NEW s \in OutboxScans, OutboxLoad(s)
  PROVE  RowsAreKept
<1>1. CASE UNCHANGED rows
  BY <1>1 DEF RowsAreKept, RowKept, TypeInv, WorkerTypeOK
<1>2. CASE ~ UNCHANGED rows
  <2>1. PICK r \in RowIds : r \in outbox[s].todo /\ Delete(r)
    BY <1>2 DEF OutboxLoad, Oldest
  <2>2. rows[r] \in Row
    BY <2>1 DEF OutboxLoad, TypeInv, ScanNamesRows, WorkerTypeOK
  <2> DEFINE x == [rows[r] EXCEPT !.status = "deleted"]
  <2>3. x \in Row /\ x.type = rows[r].type /\ x.appt = rows[r].appt
    BY <2>2, RowFields
  <2>4. rows' = [rows EXCEPT ![r] = x]
    BY <2>1 DEF Delete
  <2> HIDE DEF x
  <2>5. QED
    BY <2>2, <2>3, <2>4 DEF RowsAreKept, RowKept, TypeInv, WorkerTypeOK
<1>3. QED
  BY <1>1, <1>2

LEMMA OutcomeRow ==
  ASSUME TypeInv, NEW s \in OutboxScans, NEW x \in Row
  PROVE  /\ Outcome(s, x) \in Row
         /\ Outcome(s, x).appt = x.appt /\ Outcome(s, x).type = x.type
         /\ Outcome(s, x).status # "deleted"
         /\ Outcome(s, x).status = "SENT" => outbox[s].pc = "accepted"
BY DEF Outcome, Row

LEMMA OutboxMarkKeeps ==
  ASSUME TypeInv, NEW s \in OutboxScans, OutboxMark(s)
  PROVE  RowsAreKept
<1>1. CASE UNCHANGED rows
  BY <1>1 DEF RowsAreKept, RowKept, TypeInv, WorkerTypeOK
<1>2. CASE ~ UNCHANGED rows
  <2>1. PICK r \in RowIds : r = outbox[s].row
    BY ScanShape DEF OutboxMark, TypeInv, WorkerTypeOK
  <2>2. rows[r] \in Row
    BY <2>1 DEF OutboxMark, TypeInv, ScanNamesRows, WorkerTypeOK
  <2>3. rows' = [rows EXCEPT ![r] = Outcome(s, rows[r])]
    BY <1>2, <2>1 DEF OutboxMark
  <2>4. QED
    BY <2>2, <2>3, OutcomeRow DEF RowsAreKept, RowKept, TypeInv, WorkerTypeOK
<1>3. QED
  BY <1>1, <1>2

LEMMA BackoffKeeps ==
  ASSUME TypeInv, NEW r \in RowIds, BackoffEnds(r)
  PROVE  RowsAreKept
<1>1. rows[r] \in Row
  BY DEF BackoffEnds, NoRow, TypeInv, WorkerTypeOK
<1>2. rows' = [rows EXCEPT ![r] = [rows[r] EXCEPT !.due = TRUE]]
  BY DEF BackoffEnds
<1>3. /\ [rows[r] EXCEPT !.due = TRUE] \in Row
      /\ [rows[r] EXCEPT !.due = TRUE].appt = rows[r].appt
      /\ [rows[r] EXCEPT !.due = TRUE].type = rows[r].type
  BY <1>1 DEF Row
<1>4. QED
  BY <1>1, <1>2, <1>3 DEF RowsAreKept, RowKept, TypeInv, WorkerTypeOK

LEMMA RowMoves == TypeInv /\ [Next]_vars => RowsAreKept
<1> SUFFICES ASSUME TypeInv, [Next]_vars
             PROVE  RowsAreKept
  OBVIOUS
<1>1. CASE UNCHANGED rows
  BY <1>1 DEF RowsAreKept, RowKept, TypeInv, WorkerTypeOK
<1>2. CASE Next /\ ~ UNCHANGED rows
  BY <1>2, QueueKeeps, DeletePersonalDataKeeps, OutboxLoadKeeps, OutboxMarkKeeps, BackoffKeeps
  DEF Next, Book, Move, Cancel, WithdrawConsent, OutboxStep, OutboxRead, ProviderAccepts,
      ProviderFails, ReminderRead, ReminderQueue, Tick, WorkerCrashes, clientVars
<1>3. QED
  BY <1>1, <1>2 DEF vars

\* What can become of a scan: it rests, or goes on with rows that are there.
NamesRows(o) ==
  /\ o.pc = "next" => \A r \in o.todo : rows[r] # NoRow
  /\ o.pc \in {"loaded", "accepted", "refused"} =>
       rows[o.row] # NoRow /\ \A r \in o.todo : rows[r] # NoRow

Continues(s) ==
  \/ UNCHANGED outbox
  \/ outbox' = [t \in OutboxScans |-> Resting]
  \/ \E o \in OutboxScan : NamesRows(o) /\ outbox' = [outbox EXCEPT ![s] = o]

LEMMA AdvanceContinues ==
  ASSUME NEW s \in OutboxScans, NEW rest \in SUBSET RowIds, Advance(s, rest),
         \A r \in rest : rows[r] # NoRow
  PROVE  Continues(s)
<1>1. CASE rest = {}
  BY <1>1, ScansMade DEF Advance, Continues, NamesRows, Resting
<1>2. CASE rest # {}
  <2> DEFINE o == [pc |-> "next", todo |-> rest]
  <2>1. o \in OutboxScan /\ NamesRows(o)
    BY <1>2, ScansMade DEF NamesRows
  <2>2. outbox' = [outbox EXCEPT ![s] = o]
    BY <1>2 DEF Advance
  <2>3. QED
    BY <2>1, <2>2 DEF Continues
<1>3. QED
  BY <1>1, <1>2

LEMMA OutboxReadContinues ==
  ASSUME TypeInv, NEW s \in OutboxScans, OutboxRead(s)
  PROVE  Continues(s)
<1> DEFINE l == {r \in RowIds : Due(r)}
           o == [pc |-> "next", todo |-> l]
<1>1. \A r \in l : rows[r] # NoRow
  BY DEF Due, DeliverableStatuses, NoRow
<1>2. l \in SUBSET RowIds /\ l # {}
  BY DEF OutboxRead
<1>3. outbox' = [outbox EXCEPT ![s] = o]
  BY DEF OutboxRead
<1> HIDE DEF l
<1>4. o \in OutboxScan /\ NamesRows(o)
  BY <1>1, <1>2, ScansMade DEF NamesRows
<1>5. QED
  BY <1>3, <1>4 DEF Continues

LEMMA OutboxLoadContinues ==
  ASSUME TypeInv, NEW s \in OutboxScans, OutboxLoad(s)
  PROVE  Continues(s)
<1> DEFINE l == outbox[s].todo
<1>1. l \in SUBSET RowIds /\ \A r \in l : rows[r] # NoRow
  BY ScanShape DEF OutboxLoad, TypeInv, WorkerTypeOK, ScanNamesRows
<1>2. PICK r \in RowIds :
        /\ r \in l
        /\ \/ outbox' = [outbox EXCEPT ![s] = [pc |-> "loaded", row |-> r, todo |-> l \ {r}]]
           \/ Advance(s, l \ {r})
           \/ ProcessEnds
  BY DEF OutboxLoad, Oldest
<1> HIDE DEF l
<1>3. CASE Advance(s, l \ {r})
  BY <1>1, <1>3, AdvanceContinues
<1>4. CASE ProcessEnds
  BY <1>4 DEF ProcessEnds, Continues
<1>5. CASE outbox' = [outbox EXCEPT ![s] = [pc |-> "loaded", row |-> r, todo |-> l \ {r}]]
  <2> DEFINE o == [pc |-> "loaded", row |-> r, todo |-> l \ {r}]
  <2>1. o \in OutboxScan
    BY <1>1, ScansMade
  <2>2. NamesRows(o)
    BY <1>1, <1>2 DEF NamesRows
  <2>3. QED
    BY <1>5, <2>1, <2>2 DEF Continues
<1>6. QED
  BY <1>2, <1>3, <1>4, <1>5

LEMMA ProviderContinues ==
  ASSUME TypeInv, NEW s \in OutboxScans, ProviderAccepts(s) \/ ProviderFails(s)
  PROVE  Continues(s)
<1>1. PICK p \in {"accepted", "refused"} : outbox' = [outbox EXCEPT ![s].pc = p]
  BY DEF ProviderAccepts, ProviderFails
<1> DEFINE o == [outbox[s] EXCEPT !.pc = p]
<1>2. outbox[s] \in OutboxScan /\ outbox[s].pc = "loaded" /\ ScanNamesRows(s)
  BY DEF ProviderAccepts, ProviderFails, TypeInv, WorkerTypeOK
<1>a. outbox[s] \in
        [pc : {"loaded", "accepted", "refused"}, row : RowIds, todo : SUBSET RowIds]
  BY <1>2 DEF OutboxScan, Resting
<1>3. o \in OutboxScan /\ o.pc = p /\ o.row = outbox[s].row /\ o.todo = outbox[s].todo
  BY <1>a DEF OutboxScan
<1>4. outbox' = [outbox EXCEPT ![s] = o]
  BY <1>1
<1> HIDE DEF o
<1>5. NamesRows(o)
  BY <1>2, <1>3 DEF NamesRows, ScanNamesRows
<1>6. QED
  BY <1>3, <1>4, <1>5 DEF Continues

LEMMA OutboxMarkContinues ==
  ASSUME TypeInv, NEW s \in OutboxScans, OutboxMark(s)
  PROVE  Continues(s)
<1> DEFINE l == outbox[s].todo
<1>1. l \in SUBSET RowIds /\ \A r \in l : rows[r] # NoRow
  BY ScanShape DEF OutboxMark, TypeInv, WorkerTypeOK, ScanNamesRows
<1>2. Advance(s, l) \/ ProcessEnds
  BY DEF OutboxMark
<1> HIDE DEF l
<1>3. QED
  BY <1>1, <1>2, AdvanceContinues DEF ProcessEnds, Continues

LEMMA ScansMove == TypeInv /\ [Next]_vars =>
  UNCHANGED outbox \/ outbox' = [t \in OutboxScans |-> Resting]
    \/ \E s \in OutboxScans : Continues(s)
<1> SUFFICES ASSUME TypeInv, Next, ~ UNCHANGED outbox,
                    ~ (outbox' = [t \in OutboxScans |-> Resting])
             PROVE  \E s \in OutboxScans : Continues(s)
  BY DEF vars
<1>1. \E s \in OutboxScans : OutboxStep(s)
  BY DEF Next, Book, Move, Cancel, WithdrawConsent, DeletePersonalData, ReminderRead,
         ReminderQueue, BackoffEnds, Tick, WorkerCrashes, ProcessEnds, clientVars
<1>2. QED
  BY <1>1, OutboxReadContinues, OutboxLoadContinues, ProviderContinues, OutboxMarkContinues
  DEF OutboxStep

LEMMA NamesRowsStays ==
  ASSUME TypeInv, [Next]_vars, NEW o \in OutboxScan, NamesRows(o)
  PROVE  NamesRows(o)'
<1>1. \A r \in RowIds : rows[r] # NoRow => rows'[r] # NoRow
  BY RowMoves, RowFields DEF RowsAreKept, RowKept
<1>2. QED
  BY <1>1, ScanShape DEF NamesRows

LEMMA ScansStaySound == TypeInv /\ [Next]_vars =>
  outbox' \in [OutboxScans -> OutboxScan] /\ \A s \in OutboxScans : ScanNamesRows(s)'
<1> SUFFICES ASSUME TypeInv, [Next]_vars
             PROVE  /\ outbox' \in [OutboxScans -> OutboxScan]
                    /\ \A s \in OutboxScans : ScanNamesRows(s)'
  OBVIOUS
<1>1. outbox \in [OutboxScans -> OutboxScan]
  BY DEF TypeInv, WorkerTypeOK
<1>2. ASSUME NEW s \in OutboxScans, outbox'[s] = outbox[s]
      PROVE  ScanNamesRows(s)'
  <2>1. PICK o \in OutboxScan : o = outbox[s]
    BY <1>1
  <2>2. NamesRows(o)
    BY <2>1 DEF TypeInv, ScanNamesRows, NamesRows
  <2>3. NamesRows(o)'
    BY <2>2, NamesRowsStays
  <2>4. QED
    BY <1>2, <2>1, <2>3 DEF ScanNamesRows, NamesRows
<1>3. CASE UNCHANGED outbox
  BY <1>1, <1>2, <1>3
<1>4. CASE outbox' = [t \in OutboxScans |-> Resting]
  BY <1>4 DEF Resting, OutboxScan, ScanNamesRows
<1>5. ASSUME NEW s \in OutboxScans, NEW o \in OutboxScan, NamesRows(o),
             outbox' = [outbox EXCEPT ![s] = o]
      PROVE  /\ outbox' \in [OutboxScans -> OutboxScan]
             /\ \A t \in OutboxScans : ScanNamesRows(t)'
  <2>1. /\ outbox' \in [OutboxScans -> OutboxScan]
        /\ outbox'[s] = o /\ \A t \in OutboxScans \ {s} : outbox'[t] = outbox[t]
    BY <1>1, <1>5
  <2>2. NamesRows(o)'
    BY <1>5, NamesRowsStays
  <2>3. ScanNamesRows(s)'
    BY <2>1, <2>2 DEF ScanNamesRows, NamesRows
  <2>4. QED
    BY <1>2, <2>1, <2>3
<1>6. QED
  BY <1>3, <1>4, <1>5, ScansMove DEF Continues

ApptRow == [status : Live \cup {"cancelled"}, start : Time]

LEMMA AppointmentsStayTyped == TypeInv /\ [Next]_vars =>
  appts' \in [Appts -> ApptRow \cup {Unbooked}] /\ now' \in Time /\ withdrawn' \in BOOLEAN
<1> SUFFICES ASSUME TypeInv, [Next]_vars
             PROVE  /\ appts' \in [Appts -> ApptRow \cup {Unbooked}]
                    /\ now' \in Time /\ withdrawn' \in BOOLEAN
  OBVIOUS
<1>1. /\ appts \in [Appts -> ApptRow \cup {Unbooked}]
      /\ now \in Time /\ withdrawn \in BOOLEAN
  BY DEF TypeInv, WorkerTypeOK, ApptRow
<1>2. ASSUME NEW a \in Appts, NEW t \in Time, Book(a, t)
      PROVE  appts' \in [Appts -> ApptRow \cup {Unbooked}]
  BY <1>1, <1>2 DEF Book, ApptRow
<1>3. \A a \in Appts : appts[a].status \in Live => appts[a] \in ApptRow
  BY <1>1 DEF Unbooked, Live
<1>4. ASSUME NEW a \in Appts, NEW t \in Time, Move(a, t)
      PROVE  appts' \in [Appts -> ApptRow \cup {Unbooked}]
  <2>1. appts' = [appts EXCEPT ![a] = [appts[a] EXCEPT !.start = t]]
    BY <1>4 DEF Move
  <2>2. [appts[a] EXCEPT !.start = t] \in ApptRow
    BY <1>3, <1>4 DEF Move, ApptRow
  <2>3. QED
    BY <1>1, <2>1, <2>2
<1>5. \A x \in ApptRow : [x EXCEPT !.status = "cancelled"] \in ApptRow
  BY DEF ApptRow
<1>6. ASSUME NEW a \in Appts, Cancel(a)
      PROVE  appts' \in [Appts -> ApptRow \cup {Unbooked}]
  <2>1. appts' = [appts EXCEPT ![a] = [appts[a] EXCEPT !.status = "cancelled"]]
    BY <1>6 DEF Cancel
  <2>2. [appts[a] EXCEPT !.status = "cancelled"] \in ApptRow
    BY <1>3, <1>5, <1>6 DEF Cancel
  <2>3. QED
    BY <1>1, <2>1, <2>2
<1>7. CASE DeletePersonalData
  BY <1>1, <1>3, <1>5, <1>7 DEF DeletePersonalData
<1>8. CASE Tick
  BY <1>1, <1>8, WorkerAssumption DEF Tick, Time
<1>9. CASE UNCHANGED clientVars
  BY <1>1, <1>9 DEF clientVars
<1>10. CASE Next /\ ~ UNCHANGED clientVars
  <2>1. \/ \E a \in Appts, t \in Time : Book(a, t) \/ Move(a, t)
        \/ \E a \in Appts : Cancel(a)
        \/ WithdrawConsent \/ DeletePersonalData \/ Tick
    BY <1>10
    DEF Next, OutboxStep, OutboxRead, OutboxLoad, ProviderAccepts, ProviderFails, OutboxMark,
        ReminderRead, ReminderQueue, BackoffEnds, WorkerCrashes
  <2>2. QED
    BY <1>1, <1>2, <1>4, <1>6, <1>7, <1>8, <2>1
    DEF Book, Move, Cancel, WithdrawConsent, DeletePersonalData, Tick
<1>11. QED
  BY <1>9, <1>10 DEF vars, clientVars

ReminderScanType == [pc : {"scan"}, todo : SUBSET Appts] \cup {Resting}

LEMMA ReminderMade ==
  ASSUME NEW l \in SUBSET Appts
  PROVE  [pc |-> "scan", todo |-> l] \in ReminderScanType
BY DEF ReminderScanType

LEMMA ReminderShape ==
  ASSUME NEW m \in ReminderScanType, m.pc = "scan", NEW l \in SUBSET Appts
  PROVE  /\ m.todo \in SUBSET Appts
         /\ [m EXCEPT !.todo = l] = [pc |-> "scan", todo |-> l]
BY DEF ReminderScanType, Resting

LEMMA RemindersStayTyped == TypeInv /\ [Next]_vars =>
  reminder' \in [ReminderScans -> ReminderScanType]
<1> SUFFICES ASSUME TypeInv, [Next]_vars
             PROVE  reminder' \in [ReminderScans -> ReminderScanType]
  OBVIOUS
<1>1. reminder \in [ReminderScans -> ReminderScanType]
  BY DEF TypeInv, WorkerTypeOK, ReminderScanType
<1>2. ASSUME NEW s \in ReminderScans, ReminderRead(s)
      PROVE  reminder' \in [ReminderScans -> ReminderScanType]
  <2> DEFINE l == {a \in Appts : NeedsReminder(a)}
  <2>1. l \in SUBSET Appts
    OBVIOUS
  <2>2. reminder' = [reminder EXCEPT ![s] = [pc |-> "scan", todo |-> l]]
    BY <1>2 DEF ReminderRead
  <2> HIDE DEF l
  <2>3. QED
    BY <1>1, <2>1, <2>2, ReminderMade
<1>3. ASSUME NEW s \in ReminderScans, NEW a \in Appts, ReminderQueue(s, a)
      PROVE  reminder' \in [ReminderScans -> ReminderScanType]
  <2>1. reminder[s] \in ReminderScanType /\ reminder[s].pc = "scan"
    BY <1>1, <1>3 DEF ReminderQueue
  <2> DEFINE l == reminder[s].todo \ {a}
  <2>2. l \in SUBSET Appts
    BY <2>1, ReminderShape
  <2>3. \/ reminder' = [reminder EXCEPT ![s] = Resting]
        \/ reminder' = [reminder EXCEPT ![s] = [reminder[s] EXCEPT !.todo = l]]
    BY <1>3 DEF ReminderQueue
  <2> HIDE DEF l
  <2>4. Resting \in ReminderScanType /\ [reminder[s] EXCEPT !.todo = l] \in ReminderScanType
    <3>1. [reminder[s] EXCEPT !.todo = l] = [pc |-> "scan", todo |-> l]
      BY <2>1, <2>2, ReminderShape
    <3>2. QED
      BY <2>2, <3>1, ReminderMade DEF ReminderScanType
  <2>5. QED
    BY <1>1, <2>3, <2>4
<1>4. CASE reminder' = [s \in ReminderScans |-> Resting]
  BY <1>4 DEF ReminderScanType
<1>5. CASE UNCHANGED reminder
  BY <1>1, <1>5
<1>6. CASE Next /\ ~ UNCHANGED reminder
  <2>1. \/ \E s \in ReminderScans : ReminderRead(s) \/ \E a \in Appts : ReminderQueue(s, a)
        \/ reminder' = [s \in ReminderScans |-> Resting]
    BY <1>6
    DEF Next, Book, Move, Cancel, WithdrawConsent, DeletePersonalData, OutboxStep, OutboxRead,
        OutboxLoad, ProviderAccepts, ProviderFails, OutboxMark, BackoffEnds, Tick,
        WorkerCrashes, ProcessEnds
  <2>2. QED
    BY <1>2, <1>3, <1>4, <2>1
<1>7. QED
  BY <1>5, <1>6 DEF vars

LEMMA DeliveredStaysTyped == TypeInv /\ [Next]_vars =>
  delivered' \subseteq [key : RowIds, row : RowIds]
<1> SUFFICES ASSUME TypeInv, [Next]_vars
             PROVE  delivered' \subseteq [key : RowIds, row : RowIds]
  OBVIOUS
<1>1. delivered \subseteq [key : RowIds, row : RowIds]
  BY DEF TypeInv, WorkerTypeOK
<1>2. ASSUME NEW s \in OutboxScans, outbox[s].pc = "loaded", Deliver(s)
      PROVE  delivered' \subseteq [key : RowIds, row : RowIds]
  <2>1. outbox[s].row \in RowIds
    BY <1>2, ScanShape DEF TypeInv, WorkerTypeOK
  <2>2. QED
    BY <1>1, <1>2, <2>1 DEF Deliver, IdempotencyKey
<1>3. CASE UNCHANGED delivered
  BY <1>1, <1>3
<1>4. CASE Next /\ ~ UNCHANGED delivered
  <2>1. \E s \in OutboxScans : outbox[s].pc = "loaded" /\ Deliver(s)
    BY <1>4
    DEF Next, Book, Move, Cancel, WithdrawConsent, DeletePersonalData, OutboxStep, OutboxRead,
        OutboxLoad, ProviderAccepts, ProviderFails, OutboxMark, ReminderRead, ReminderQueue,
        BackoffEnds, Tick, WorkerCrashes
  <2>2. QED
    BY <1>2, <2>1
<1>5. QED
  BY <1>3, <1>4 DEF vars

LEMMA WorkerTypeInit == Init => TypeInv
<1> SUFFICES ASSUME Init
             PROVE  TypeInv
  OBVIOUS
<1>1. 0 \in Time
  BY WorkerAssumption DEF Time
<1>2. appts \in [Appts -> [status : Live \cup {"cancelled"}, start : Time] \cup {Unbooked}]
  BY DEF Init
<1>3. \A s \in OutboxScans : ScanNamesRows(s)
  BY DEF Init, Resting, ScanNamesRows
<1>4. QED
  BY <1>1, <1>2, <1>3 DEF Init, TypeInv, WorkerTypeOK, OutboxScan

LEMMA WorkerTypeNext == TypeInv /\ [Next]_vars => TypeInv'
BY RowMoves, ScansStaySound, AppointmentsStayTyped, RemindersStayTyped, DeliveredStaysTyped
DEF TypeInv, WorkerTypeOK, RowsAreKept, ApptRow, ReminderScanType

\* A scan works on rows that are there, with the data it loaded for them
\* (index.ts 44-80).
THEOREM WorkerTypeInv == Spec => []TypeInv
BY WorkerTypeInit, WorkerTypeNext, PTL DEF Spec

\* The worker's tables and the locals of its scans keep their types.
THEOREM WorkerTyped == Spec => []WorkerTypeOK
<1>1. TypeInv => WorkerTypeOK
  BY DEF TypeInv
<1>2. QED
  BY <1>1, WorkerTypeInv, PTL

-----------------------------------------------------------------------------
(* Deliveries.  SENT is written by a scan whose call the provider accepted,  *)
(* and the key of a mail is the id of its row.                               *)

Mailed(r) == \E d \in delivered : d.row = r

Accepted(s) == outbox[s].pc = "accepted" => Mailed(outbox[s].row)

DeliveryInv ==
  /\ \A d \in delivered : d.key = d.row
  /\ \A s \in OutboxScans : Accepted(s)
  /\ SentWasDelivered

LEMMA DeliveryInit == Init => DeliveryInv
BY DEF Init, DeliveryInv, Accepted, Resting, NoRow, SentWasDelivered

LEMMA DeliverMails ==
  ASSUME TypeInv, DeliveryInv, NEW s \in OutboxScans, Deliver(s), NEW r, r = outbox[s].row
  PROVE  /\ \A d \in delivered' : d.key = d.row
         /\ \E d \in delivered' : d.row = r
<1> DEFINE x == [key |-> r, row |-> r]
<1>1. x.key = r /\ x.row = r
  OBVIOUS
<1>2. \/ delivered' = delivered /\ \E d \in delivered : d.key = r
      \/ delivered' = delivered \cup {x}
  BY DEF Deliver, IdempotencyKey
<1> HIDE DEF x
<1>3. \A d \in delivered : d.key = d.row
  BY DEF DeliveryInv
<1>4. QED
  BY <1>1, <1>2, <1>3

LEMMA DeliveredGrows ==
  ASSUME [Next]_vars
  PROVE  delivered \subseteq delivered'
BY DEF Next, vars, Book, Move, Cancel, WithdrawConsent, DeletePersonalData, OutboxStep,
       OutboxRead, OutboxLoad, ProviderAccepts, ProviderFails, OutboxMark, ReminderRead,
       ReminderQueue, BackoffEnds, Tick, WorkerCrashes, Deliver

\* A step that writes neither SENT nor "accepted".
LEMMA DeliveryRests ==
  ASSUME TypeInv, DeliveryInv, delivered \subseteq delivered',
         \A d \in delivered' : d.key = d.row,
         \A r \in RowIds : rows'[r].status = "SENT" => rows[r].status = "SENT",
         \A s \in OutboxScans : outbox'[s].pc = "accepted" => outbox'[s] = outbox[s]
  PROVE  DeliveryInv'
BY DEF DeliveryInv, Accepted, Mailed, SentWasDelivered

\* SENT is written by OutboxMark only.
LEMMA SentOnlyByMark ==
  ASSUME TypeInv, [Next]_vars, \A s \in OutboxScans : ~ OutboxMark(s),
         NEW r \in RowIds, rows'[r].status = "SENT"
  PROVE  rows[r].status = "SENT"
<1>1. CASE UNCHANGED rows
  BY <1>1
<1>2. ASSUME NEW a \in Appts, NEW type, Queue(a, type)
      PROVE  rows[r].status = "SENT"
  <2>1. [appt |-> a, type |-> type, status |-> "QUEUED", due |-> TRUE].status # "SENT"
    OBVIOUS
  <2>2. QED
    BY <1>2, <2>1 DEF Queue, TypeInv, WorkerTypeOK
<1>3. ASSUME NEW q \in RowIds, NEW t \in {"deleted"},
             rows' = [rows EXCEPT ![q] = [rows[q] EXCEPT !.status = t]],
             rows[q] \in Row
      PROVE  rows[r].status = "SENT"
  BY <1>3, RowFields DEF TypeInv, WorkerTypeOK
<1>4. CASE DeletePersonalData
  <2>1. Undelivered(r) => rows[r] \in Row
    BY DEF Undelivered, NoRow, TypeInv, WorkerTypeOK
  <2>2. QED
    BY <1>4, <2>1, RowFields DEF DeletePersonalData
<1>5. ASSUME NEW s \in OutboxScans, OutboxLoad(s), ~ UNCHANGED rows
      PROVE  rows[r].status = "SENT"
  <2>1. PICK q \in RowIds : q \in outbox[s].todo /\ Delete(q)
    BY <1>5 DEF OutboxLoad, Oldest
  <2>2. rows[q] \in Row
    BY <1>5, <2>1 DEF OutboxLoad, TypeInv, ScanNamesRows, WorkerTypeOK
  <2>3. QED
    BY <1>3, <2>1, <2>2 DEF Delete
<1>6. ASSUME NEW q \in RowIds, BackoffEnds(q)
      PROVE  rows[r].status = "SENT"
  <2>1. rows[q] \in Row
    BY <1>6 DEF BackoffEnds, NoRow, TypeInv, WorkerTypeOK
  <2>2. [rows[q] EXCEPT !.due = TRUE].status = rows[q].status
    BY <2>1 DEF Row
  <2>3. rows' = [rows EXCEPT ![q] = [rows[q] EXCEPT !.due = TRUE]]
    BY <1>6 DEF BackoffEnds
  <2>4. QED
    BY <2>2, <2>3 DEF TypeInv, WorkerTypeOK
<1>7. QED
  BY <1>1, <1>2, <1>4, <1>5, <1>6
  DEF Next, vars, Book, Move, Cancel, WithdrawConsent, OutboxStep, OutboxRead, ProviderAccepts,
      ProviderFails, ReminderRead, ReminderQueue, Tick, WorkerCrashes, clientVars

\* A scan's call is accepted in ProviderAccepts only.
LEMMA AcceptedOnlyByProvider ==
  ASSUME TypeInv, [Next]_vars, \A s \in OutboxScans : ~ ProviderAccepts(s),
         NEW t \in OutboxScans, outbox'[t].pc = "accepted"
  PROVE  outbox'[t] = outbox[t]
<1>1. ASSUME NEW s \in OutboxScans, NEW o, outbox' = [outbox EXCEPT ![s] = o],
             o.pc # "accepted"
      PROVE  outbox'[t] = outbox[t]
  BY <1>1 DEF TypeInv, WorkerTypeOK
<1>2. CASE UNCHANGED outbox
  BY <1>2
<1>3. CASE ProcessEnds
  BY <1>3 DEF ProcessEnds, Resting
<1>4. ASSUME NEW s \in OutboxScans, NEW rest, Advance(s, rest)
      PROVE  outbox'[t] = outbox[t]
  <2>1. Resting.pc # "accepted" /\ [pc |-> "next", todo |-> rest].pc # "accepted"
    BY DEF Resting
  <2>2. QED
    BY <1>1, <1>4, <2>1 DEF Advance
<1>5. ASSUME NEW s \in OutboxScans, OutboxRead(s)
      PROVE  outbox'[t] = outbox[t]
  <2> DEFINE o == [pc |-> "next", todo |-> {r \in RowIds : Due(r)}]
  <2>1. o.pc # "accepted" /\ outbox' = [outbox EXCEPT ![s] = o]
    BY <1>5 DEF OutboxRead
  <2> HIDE DEF o
  <2>2. QED
    BY <1>1, <2>1
<1>6. ASSUME NEW s \in OutboxScans, OutboxLoad(s)
      PROVE  outbox'[t] = outbox[t]
  <2>1. ProcessEnds \/ \E r \in RowIds :
          \/ Advance(s, outbox[s].todo \ {r})
          \/ outbox' = [outbox EXCEPT ![s] =
               [pc |-> "loaded", row |-> r, todo |-> outbox[s].todo \ {r}]]
    BY <1>6 DEF OutboxLoad
  <2>2. ASSUME NEW r \in RowIds,
               outbox' = [outbox EXCEPT ![s] =
                 [pc |-> "loaded", row |-> r, todo |-> outbox[s].todo \ {r}]]
        PROVE  outbox'[t] = outbox[t]
    <3> DEFINE o == [pc |-> "loaded", row |-> r, todo |-> outbox[s].todo \ {r}]
    <3>1. o.pc # "accepted" /\ outbox' = [outbox EXCEPT ![s] = o]
      BY <2>2
    <3> HIDE DEF o
    <3>2. QED
      BY <1>1, <3>1
  <2>3. QED
    BY <1>3, <1>4, <2>1, <2>2
<1>7. ASSUME NEW s \in OutboxScans, ProviderFails(s)
      PROVE  outbox'[t] = outbox[t]
  <2> DEFINE o == [outbox[s] EXCEPT !.pc = "refused"]
  <2>1. outbox[s] \in
          [pc : {"loaded", "accepted", "refused"}, row : RowIds, todo : SUBSET RowIds]
    BY <1>7 DEF ProviderFails, TypeInv, WorkerTypeOK, OutboxScan, Resting
  <2>2. o.pc # "accepted" /\ outbox' = [outbox EXCEPT ![s] = o]
    BY <1>7, <2>1 DEF ProviderFails
  <2> HIDE DEF o
  <2>3. QED
    BY <1>1, <2>2
<1>8. QED
  BY <1>2, <1>3, <1>4, <1>5, <1>6, <1>7
  DEF Next, vars, Book, Move, Cancel, WithdrawConsent, DeletePersonalData, OutboxStep,
      OutboxMark, ReminderRead, ReminderQueue, BackoffEnds, Tick, WorkerCrashes

LEMMA DeliveryNext == TypeInv /\ DeliveryInv /\ [Next]_vars => DeliveryInv'
<1> SUFFICES ASSUME TypeInv, DeliveryInv, [Next]_vars
             PROVE  DeliveryInv'
  OBVIOUS
<1>1. delivered \subseteq delivered'
  BY DeliveredGrows
<1>2. ASSUME NEW s \in OutboxScans, ProviderAccepts(s)
      PROVE  DeliveryInv'
  <2>1. PICK r \in RowIds : r = outbox[s].row
    BY <1>2, ScanShape DEF ProviderAccepts, TypeInv, WorkerTypeOK
  <2>2. (\A d \in delivered' : d.key = d.row) /\ \E d \in delivered' : d.row = r
    BY <1>2, <2>1, DeliverMails DEF ProviderAccepts
  <2>3. outbox[s] \in
          [pc : {"loaded", "accepted", "refused"}, row : RowIds, todo : SUBSET RowIds]
    BY <1>2 DEF ProviderAccepts, TypeInv, WorkerTypeOK, OutboxScan, Resting
  <2>4. outbox'[s].row = r /\ \A t \in OutboxScans \ {s} : outbox'[t] = outbox[t]
    BY <1>2, <2>1, <2>3 DEF ProviderAccepts, TypeInv, WorkerTypeOK
  <2>5. \A t \in OutboxScans : Accepted(t)'
    BY <1>1, <2>2, <2>4 DEF DeliveryInv, Accepted, Mailed
  <2>6. SentWasDelivered'
    BY <1>1, <1>2 DEF ProviderAccepts, DeliveryInv, SentWasDelivered
  <2>7. QED
    BY <2>2, <2>5, <2>6 DEF DeliveryInv
<1>3. ASSUME NEW s \in OutboxScans, ProviderFails(s)
      PROVE  DeliveryInv'
  <2>1. PICK r \in RowIds : r = outbox[s].row
    BY <1>3, ScanShape DEF ProviderFails, TypeInv, WorkerTypeOK
  <2>2. \A d \in delivered' : d.key = d.row
    BY <1>3, <2>1, DeliverMails DEF ProviderFails, DeliveryInv
  <2>3. ASSUME NEW t \in OutboxScans, outbox'[t].pc = "accepted"
        PROVE  outbox'[t] = outbox[t]
    <3>1. outbox'[s].pc = "refused"
      BY <1>3 DEF ProviderFails, TypeInv, WorkerTypeOK, OutboxScan, Resting
    <3>2. QED
      BY <1>3, <2>3, <3>1 DEF ProviderFails, TypeInv, WorkerTypeOK
  <2>4. QED
    BY <1>1, <1>3, <2>2, <2>3, DeliveryRests DEF ProviderFails
<1>4. ASSUME NEW s \in OutboxScans, OutboxMark(s)
      PROVE  DeliveryInv'
  <2>1. delivered' = delivered
    BY <1>4 DEF OutboxMark
  <2>2. PICK q \in RowIds : q = outbox[s].row
    BY <1>4, ScanShape DEF OutboxMark, TypeInv, WorkerTypeOK
  <2>3. \/ UNCHANGED rows
        \/ rows[q] \in Row /\ rows' = [rows EXCEPT ![q] = Outcome(s, rows[q])]
    BY <1>4, <2>2 DEF OutboxMark, TypeInv, ScanNamesRows, WorkerTypeOK
  <2>4. ASSUME NEW r \in RowIds, rows'[r].status = "SENT"
        PROVE  Mailed(r)
    <3>1. CASE rows'[r] = rows[r]
      BY <2>4, <3>1 DEF DeliveryInv, SentWasDelivered, Mailed
    <3>2. CASE rows'[r] # rows[r]
      <4>1. r = q /\ rows'[r] = Outcome(s, rows[q]) /\ rows[q] \in Row
        BY <2>3, <3>2 DEF TypeInv, WorkerTypeOK
      <4>2. outbox[s].pc = "accepted"
        BY <2>4, <4>1, OutcomeRow
      <4>3. QED
        BY <2>2, <4>1, <4>2 DEF DeliveryInv, Accepted
    <3>3. QED
      BY <3>1, <3>2
  <2>5. ASSUME NEW t \in OutboxScans, ProviderAccepts(t)
        PROVE  DeliveryInv'
    BY <1>2, <2>5
  <2>6. CASE \A t \in OutboxScans : ~ ProviderAccepts(t)
    <3>1. \A t \in OutboxScans : outbox'[t].pc = "accepted" => outbox'[t] = outbox[t]
      BY <2>6, AcceptedOnlyByProvider
    <3>2. \A t \in OutboxScans : Accepted(t)'
      BY <2>1, <3>1 DEF DeliveryInv, Accepted, Mailed
    <3>3. SentWasDelivered'
      BY <2>1, <2>4 DEF SentWasDelivered, Mailed
    <3>4. QED
      BY <2>1, <3>2, <3>3 DEF DeliveryInv
  <2>7. QED
    BY <2>5, <2>6
<1>5. CASE \A s \in OutboxScans : ~ ProviderAccepts(s) /\ ~ ProviderFails(s) /\ ~ OutboxMark(s)
  <2>1. delivered' = delivered
    BY <1>5
    DEF Next, vars, Book, Move, Cancel, WithdrawConsent, DeletePersonalData, OutboxStep,
        OutboxRead, OutboxLoad, ReminderRead, ReminderQueue, BackoffEnds, Tick, WorkerCrashes
  <2>2. \A d \in delivered' : d.key = d.row
    BY <2>1 DEF DeliveryInv
  <2>3. \A r \in RowIds : rows'[r].status = "SENT" => rows[r].status = "SENT"
    BY <1>5, SentOnlyByMark
  <2>4. \A s \in OutboxScans : outbox'[s].pc = "accepted" => outbox'[s] = outbox[s]
    BY <1>5, AcceptedOnlyByProvider
  <2>5. QED
    BY <1>1, <2>2, <2>3, <2>4, DeliveryRests
<1>6. QED
  BY <1>2, <1>3, <1>4, <1>5

\* What was delivered, what the rows say of it and what a scan is about to write
\* back agree at every step (index.ts 55-80).
THEOREM WorkerDeliveryInv == Spec => []DeliveryInv
BY WorkerTypeInv, DeliveryInit, DeliveryNext, PTL DEF Spec

\* A row marked SENT has gone out (index.ts 65-75), whatever overlapped, crashed
\* or was deleted in between.
THEOREM WorkerSentIsDelivered == Spec => []SentWasDelivered
<1>1. DeliveryInv => SentWasDelivered
  BY DEF DeliveryInv
<1>2. QED
  BY <1>1, WorkerDeliveryInv, PTL

\* One row is one mail (index.ts 66-70): a row sent again is sent under the same
\* key.
THEOREM WorkerMailsOnce == Spec => []OneMailPerRow
<1>1. WorkerTypeOK /\ DeliveryInv => OneMailPerRow
  BY DEF WorkerTypeOK, DeliveryInv, OneMailPerRow
<1>2. QED
  BY <1>1, WorkerTyped, WorkerDeliveryInv, PTL

\* No scan takes up a reminder after the withdrawal (index.ts 51-54).
THEOREM WorkerQuietAfterWithdrawal == Spec => QuietAfterWithdrawal
<1>1. ASSUME TypeInv, [Next]_vars, NEW s \in OutboxScans, withdrawn,
             outbox[s].pc = "next", outbox'[s].pc = "loaded"
      PROVE  rows[outbox'[s].row].type # "REMINDER"
  <2>1. PICK t \in OutboxScans : OutboxStep(t)
    <3>1. ~ (outbox' = [t \in OutboxScans |-> Resting])
      BY <1>1 DEF Resting
    <3>2. ~ UNCHANGED outbox
      BY <1>1
    <3>3. QED
      BY <1>1, <3>1, <3>2
      DEF Next, vars, Book, Move, Cancel, WithdrawConsent, DeletePersonalData, ReminderRead,
          ReminderQueue, BackoffEnds, Tick, WorkerCrashes, ProcessEnds, clientVars
  <2>2. CASE OutboxLoad(t)
    <3>1. PICK r \in RowIds :
            \/ /\ ~ Unwanted(r)
               /\ outbox' = [outbox EXCEPT ![t] =
                    [pc |-> "loaded", row |-> r, todo |-> outbox[t].todo \ {r}]]
            \/ Advance(t, outbox[t].todo \ {r})
            \/ ProcessEnds
      BY <2>2 DEF OutboxLoad
    <3>2. ASSUME NEW rest, Advance(t, rest)
          PROVE  outbox'[s].pc # "loaded"
      <4>1. Resting.pc # "loaded" /\ [pc |-> "next", todo |-> rest].pc # "loaded"
        BY DEF Resting
      <4>2. QED
        BY <1>1, <3>2, <4>1 DEF Advance, TypeInv, WorkerTypeOK
    <3>3. ~ ProcessEnds
      BY <1>1 DEF ProcessEnds, Resting
    <3> DEFINE o == [pc |-> "loaded", row |-> r, todo |-> outbox[t].todo \ {r}]
    <3>4. ~ Unwanted(r) /\ outbox' = [outbox EXCEPT ![t] = o]
      BY <1>1, <3>1, <3>2, <3>3
    <3>5. o.row = r
      OBVIOUS
    <3> HIDE DEF o
    <3>6. outbox'[s].row = r
      BY <1>1, <3>4, <3>5 DEF TypeInv, WorkerTypeOK
    <3>7. QED
      BY <1>1, <3>4, <3>6 DEF Unwanted
  <2>3. CASE ProviderAccepts(t) \/ ProviderFails(t)
    <3>1. PICK p \in {"accepted", "refused"} : outbox' = [outbox EXCEPT ![t].pc = p]
      BY <2>3 DEF ProviderAccepts, ProviderFails
    <3>2. t # s /\ outbox'[s] = outbox[s]
      BY <1>1, <2>3, <3>1 DEF ProviderAccepts, ProviderFails, TypeInv, WorkerTypeOK
    <3>3. QED
      BY <1>1, <3>2
  <2>4. CASE OutboxRead(t)
    BY <1>1, <2>4 DEF OutboxRead, Resting, TypeInv, WorkerTypeOK
  <2>5. CASE OutboxMark(t)
    <3>1. ~ ProcessEnds
      BY <1>1 DEF ProcessEnds, Resting
    <3>2. Advance(t, outbox[t].todo)
      BY <2>5, <3>1 DEF OutboxMark
    <3>3. Resting.pc # "loaded" /\ [pc |-> "next", todo |-> outbox[t].todo].pc # "loaded"
      BY DEF Resting
    <3>4. QED
      BY <1>1, <3>2, <3>3 DEF Advance, TypeInv, WorkerTypeOK
  <2>6. QED
    BY <2>1, <2>2, <2>3, <2>4, <2>5 DEF OutboxStep
<1>2. TypeInv /\ [Next]_vars =>
        [\A s \in OutboxScans :
           (withdrawn /\ outbox[s].pc = "next" /\ outbox'[s].pc = "loaded")
             => rows[outbox'[s].row].type # "REMINDER"]_vars
  BY <1>1
<1>3. QED
  BY <1>2, WorkerTypeInv, PTL DEF Spec, QuietAfterWithdrawal

-----------------------------------------------------------------------------
(* Reminders, while reminder scans do not overlap: what a scan has read as   *)
(* not yet reminded stays so until the scan itself inserts the row, and a    *)
(* reminder is deleted only after a withdrawal, after which none is queued.  *)

OneReminderScan == \A s, t \in ReminderScans : s = t

Reminder(r, a) == rows[r] # NoRow /\ rows[r].type = "REMINDER" /\ rows[r].appt = a

ReminderInv ==
  /\ \A r \in RowIds : rows[r].status = "deleted" => withdrawn
  /\ \A s \in ReminderScans : reminder[s].pc = "scan" =>
       \A a \in reminder[s].todo, r \in RowIds : ~ Reminder(r, a)
  /\ \A a \in Appts, q, r \in RowIds : Reminder(q, a) /\ Reminder(r, a) => q = r

LEMMA ReminderInit == Init => ReminderInv
BY DEF Init, ReminderInv, Reminder, NoRow, Resting

LEMMA DeletedOnlyAfterWithdrawal ==
  ASSUME TypeInv, ReminderInv, [Next]_vars, NEW r \in RowIds, rows'[r].status = "deleted"
  PROVE  withdrawn'
<1>1. withdrawn => withdrawn'
  BY DEF Next, vars, clientVars, Book, Move, Cancel, WithdrawConsent, DeletePersonalData,
         OutboxStep, OutboxRead, OutboxLoad, ProviderAccepts, ProviderFails, OutboxMark,
         ReminderRead, ReminderQueue, BackoffEnds, Tick, WorkerCrashes
<1>2. CASE rows'[r] = rows[r]
  BY <1>1, <1>2 DEF ReminderInv
<1>3. CASE DeletePersonalData
  BY <1>3 DEF DeletePersonalData
<1>4. ASSUME NEW a \in Appts, NEW type, Queue(a, type), rows'[r] # rows[r]
      PROVE  FALSE
  <2>1. [appt |-> a, type |-> type, status |-> "QUEUED", due |-> TRUE].status # "deleted"
    OBVIOUS
  <2>2. QED
    BY <1>4, <2>1 DEF Queue, TypeInv, WorkerTypeOK
<1>5. ASSUME NEW s \in OutboxScans, OutboxLoad(s), rows'[r] # rows[r]
      PROVE  withdrawn
  BY <1>5 DEF OutboxLoad, Unwanted
<1>6. ASSUME NEW s \in OutboxScans, OutboxMark(s), rows'[r] # rows[r]
      PROVE  FALSE
  <2>1. PICK q \in RowIds : q = outbox[s].row
    BY <1>6, ScanShape DEF OutboxMark, TypeInv, WorkerTypeOK
  <2>2. rows[q] \in Row /\ rows' = [rows EXCEPT ![q] = Outcome(s, rows[q])]
    BY <1>6, <2>1 DEF OutboxMark, TypeInv, ScanNamesRows, WorkerTypeOK
  <2>3. QED
    BY <1>6, <2>2, OutcomeRow DEF TypeInv, WorkerTypeOK
<1>7. ASSUME NEW q \in RowIds, BackoffEnds(q)
      PROVE  withdrawn
  <2>1. rows[q] \in Row
    BY <1>7 DEF BackoffEnds, NoRow, TypeInv, WorkerTypeOK
  <2>2. [rows[q] EXCEPT !.due = TRUE].status = rows[q].status
    BY <2>1 DEF Row
  <2>3. rows' = [rows EXCEPT ![q] = [rows[q] EXCEPT !.due = TRUE]]
    BY <1>7 DEF BackoffEnds
  <2>4. rows[r].status = "deleted"
    BY <2>2, <2>3 DEF TypeInv, WorkerTypeOK
  <2>5. QED
    BY <2>4 DEF ReminderInv
<1>8. QED
  BY <1>1, <1>2, <1>3, <1>4, <1>5, <1>6, <1>7
  DEF Next, vars, Book, Move, Cancel, WithdrawConsent, OutboxStep, OutboxRead, ProviderAccepts,
      ProviderFails, ReminderRead, ReminderQueue, Tick, WorkerCrashes, clientVars

\* Reminders appear in ReminderQueue only.
LEMMA ReminderOnlyByScan ==
  ASSUME TypeInv, [Next]_vars,
         \A s \in ReminderScans, a \in Appts : ~ ReminderQueue(s, a),
         NEW a \in Appts, NEW r \in RowIds, Reminder(r, a)'
  PROVE  Reminder(r, a)
<1>1. CASE rows[r] \in Row
  BY <1>1, RowMoves, RowFields DEF RowsAreKept, RowKept, Reminder
<1>2. CASE rows[r] = NoRow
  <2>1. rows'[r] # rows[r]
    BY <1>2 DEF Reminder
  <2>2. ASSUME NEW b \in Appts, NEW type \in {"CONFIRMATION", "RESCHEDULE", "CANCELLATION"},
               Queue(b, type)
        PROVE  FALSE
    <3> DEFINE x == [appt |-> b, type |-> type, status |-> "QUEUED", due |-> TRUE]
    <3>1. x.type # "REMINDER"
      OBVIOUS
    <3>2. PICK q \in RowIds : rows' = [rows EXCEPT ![q] = x]
      BY <2>2 DEF Queue
    <3> HIDE DEF x
    <3>3. rows'[r] = x
      BY <2>1, <3>2 DEF TypeInv, WorkerTypeOK
    <3>4. QED
      BY <3>1, <3>3 DEF Reminder
  <2>3. ~ DeletePersonalData
    BY <1>2, <2>1 DEF DeletePersonalData, Undelivered, NoRow
  <2>4. ASSUME NEW s \in OutboxScans, OutboxLoad(s)
        PROVE  FALSE
    <3>1. PICK q \in RowIds : q \in outbox[s].todo /\ Delete(q)
      BY <2>1, <2>4 DEF OutboxLoad, Oldest
    <3>2. r = q
      BY <2>1, <3>1 DEF Delete, TypeInv, WorkerTypeOK
    <3>3. QED
      BY <1>2, <2>4, <3>1, <3>2 DEF OutboxLoad, TypeInv, ScanNamesRows
  <2>5. ASSUME NEW s \in OutboxScans, OutboxMark(s)
        PROVE  FALSE
    <3>1. PICK q \in RowIds : q = outbox[s].row
      BY <2>5, ScanShape DEF OutboxMark, TypeInv, WorkerTypeOK
    <3>2. rows[q] # NoRow /\ rows' = [rows EXCEPT ![q] = Outcome(s, rows[q])]
      BY <2>1, <2>5, <3>1 DEF OutboxMark, TypeInv, ScanNamesRows, WorkerTypeOK
    <3>3. QED
      BY <1>2, <2>1, <3>2 DEF TypeInv, WorkerTypeOK
  <2>6. ASSUME NEW q \in RowIds, BackoffEnds(q)
        PROVE  FALSE
    BY <1>2, <2>1, <2>6 DEF BackoffEnds, NoRow, TypeInv, WorkerTypeOK
  <2>7. QED
    BY <2>1, <2>2, <2>3, <2>4, <2>5, <2>6
    DEF Next, vars, Book, Move, Cancel, WithdrawConsent, OutboxStep, OutboxRead,
        ProviderAccepts, ProviderFails, ReminderRead, Tick, WorkerCrashes, clientVars
<1>3. QED
  BY <1>1, <1>2 DEF TypeInv, WorkerTypeOK

LEMMA ReminderQueueOnce ==
  ASSUME OneReminderScan, TypeInv, ReminderInv, NEW s \in ReminderScans, NEW a \in Appts,
         ReminderQueue(s, a), [Next]_vars
  PROVE  ReminderInv'
<1>1. /\ reminder[s].pc = "scan" /\ a \in reminder[s].todo
      /\ reminder[s] \in ReminderScanType
  BY DEF ReminderQueue, TypeInv, WorkerTypeOK, ReminderScanType
<1> DEFINE x == [appt |-> a, type |-> "REMINDER", status |-> "QUEUED", due |-> TRUE]
           l == reminder[s].todo \ {a}
<1>2. PICK n \in RowIds : rows[n] = NoRow /\ rows' = [rows EXCEPT ![n] = x]
  BY DEF ReminderQueue, Queue
<1>3. x.appt = a /\ a \notin l /\ l \in SUBSET Appts /\ l \subseteq reminder[s].todo
  BY <1>1, ReminderShape
<1>4. \/ reminder' = [reminder EXCEPT ![s] = Resting]
      \/ reminder' = [reminder EXCEPT ![s] = [reminder[s] EXCEPT !.todo = l]]
  BY DEF ReminderQueue
<1> HIDE DEF x, l
<1>5. rows'[n] = x /\ \A r \in RowIds \ {n} : rows'[r] = rows[r]
  BY <1>2 DEF TypeInv, WorkerTypeOK
<1>6. \A b \in Appts, r \in RowIds : Reminder(r, b)' => (r = n /\ b = a) \/ Reminder(r, b)
  BY <1>3, <1>5 DEF Reminder
<1>7. \A r \in RowIds : ~ Reminder(r, a)
  BY <1>1 DEF ReminderInv
<1>8. ASSUME NEW b \in Appts, NEW q \in RowIds, NEW r \in RowIds,
             Reminder(q, b)', Reminder(r, b)'
      PROVE  q = r
  BY <1>2, <1>6, <1>7, <1>8 DEF ReminderInv, Reminder
<1>9. reminder'[s] = Resting \/ reminder'[s] = [pc |-> "scan", todo |-> l]
  <2>1. [reminder[s] EXCEPT !.todo = l] = [pc |-> "scan", todo |-> l]
    BY <1>1, <1>3, ReminderShape
  <2>2. QED
    BY <1>4, <2>1 DEF TypeInv, WorkerTypeOK
<1>10. ASSUME NEW b, reminder'[s].pc = "scan", b \in reminder'[s].todo
       PROVE  b \in l
  BY <1>9, <1>10 DEF Resting
<1>11. \A t \in ReminderScans : reminder'[t].pc = "scan" =>
         \A b \in reminder'[t].todo, r \in RowIds : ~ Reminder(r, b)'
  <2>1. \A t \in ReminderScans : t = s
    BY DEF OneReminderScan
  <2>2. QED
    BY <1>1, <1>3, <1>6, <1>10, <2>1 DEF ReminderInv
<1>12. \A r \in RowIds : rows'[r].status = "deleted" => withdrawn'
  BY DeletedOnlyAfterWithdrawal
<1>13. QED
  BY <1>8, <1>11, <1>12 DEF ReminderInv

LEMMA ReminderRests ==
  ASSUME TypeInv, ReminderInv, [Next]_vars,
         \A s \in ReminderScans, a \in Appts : ~ ReminderQueue(s, a)
  PROVE  ReminderInv'
<1>1. \A a \in Appts, r \in RowIds : Reminder(r, a)' => Reminder(r, a)
  BY ReminderOnlyByScan
<1>2. ASSUME NEW s \in ReminderScans, reminder'[s].pc = "scan"
      PROVE  \A a \in reminder'[s].todo, r \in RowIds : ~ Reminder(r, a)'
  <2>1. CASE reminder'[s] = reminder[s]
    <3>1. reminder[s].todo \subseteq Appts
      BY <1>2, <2>1 DEF TypeInv, WorkerTypeOK, Resting
    <3>2. QED
      BY <1>1, <1>2, <2>1, <3>1 DEF ReminderInv
  <2>2. CASE reminder'[s] # reminder[s]
    <3>1. ~ ProcessEnds
      BY <1>2 DEF ProcessEnds, Resting
    <3>2. PICK t \in ReminderScans : ReminderRead(t)
      BY <2>2, <3>1
      DEF Next, vars, Book, Move, Cancel, WithdrawConsent, DeletePersonalData, OutboxStep,
          OutboxRead, OutboxLoad, ProviderAccepts, ProviderFails, OutboxMark, BackoffEnds,
          Tick, WorkerCrashes
    <3> DEFINE l == {a \in Appts : NeedsReminder(a)}
    <3>3. reminder'[s].todo = l /\ UNCHANGED rows
      BY <2>2, <3>2 DEF ReminderRead, TypeInv, WorkerTypeOK
    <3>4. ASSUME NEW a \in l, NEW r \in RowIds, Reminder(r, a)
          PROVE  FALSE
      <4>1. a \in Appts /\ NeedsReminder(a)
        OBVIOUS
      <4>2. r \in Reminders(a)
        BY <3>4 DEF Reminders, Reminder
      <4>3. rows[r].status = "deleted" /\ ~ withdrawn
        BY <4>1, <4>2 DEF NeedsReminder
      <4>4. QED
        BY <4>3 DEF ReminderInv
    <3>5. \A a \in l : a \in Appts
      OBVIOUS
    <3> HIDE DEF l
    <3>6. QED
      BY <1>1, <3>3, <3>4, <3>5
  <2>3. QED
    BY <2>1, <2>2
<1>3. \A r \in RowIds : rows'[r].status = "deleted" => withdrawn'
  BY DeletedOnlyAfterWithdrawal
<1>4. \A a \in Appts, q, r \in RowIds : Reminder(q, a)' /\ Reminder(r, a)' => q = r
  BY <1>1 DEF ReminderInv
<1>5. QED
  BY <1>2, <1>3, <1>4 DEF ReminderInv

LEMMA AtMostOneReminder == ReminderInv => RemindedOnce
<1> SUFFICES ASSUME ReminderInv, NEW a \in Appts
             PROVE  Cardinality(Reminders(a)) <= 1
  BY DEF RemindedOnce
<1>1. CASE Reminders(a) = {}
  BY <1>1, FS_EmptySet
<1>2. CASE Reminders(a) # {}
  <2>1. PICK r \in Reminders(a) : TRUE
    BY <1>2
  <2>2. Reminders(a) = {r}
    BY <2>1 DEF Reminders, ReminderInv, Reminder
  <2>3. QED
    BY <2>2, FS_Singleton
<1>3. QED
  BY <1>1, <1>2

\* A client is reminded of an appointment at most once, through moves, withdrawals
\* and crashes (index.ts 92-118), where reminder scans do not overlap; the cron
\* does not ensure that they do not.
THEOREM WorkerRemindsOnce ==
  ASSUME OneReminderScan
  PROVE  Spec => []RemindedOnce
<1>1. TypeInv /\ ReminderInv /\ [Next]_vars => ReminderInv'
  BY OneReminderScan, ReminderQueueOnce, ReminderRests
<1>2. Spec => []ReminderInv
  BY <1>1, ReminderInit, WorkerTypeInv, PTL DEF Spec
<1>3. QED
  BY <1>2, AtMostOneReminder, PTL

=============================================================================
