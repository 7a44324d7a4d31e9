------------------------------ MODULE QueueDB ------------------------------
(***************************************************************************)
(* The work_queue table of queue_db.py, as operators on a table value.     *)
(*                                                                         *)
(* A table is a function from offense ids to rows; NoRow is the absence of *)
(* a row.  Every operator is the body of one BEGIN IMMEDIATE transaction   *)
(* (or of one autocommitted UPDATE/DELETE), so a module that uses it makes *)
(* it one atomic step.  Timestamps are integers: the strings of the code   *)
(* are fixed-width UTC and compare as the numbers do.                      *)
(*                                                                         *)
(* Of a row's columns, `lens` and `result` are left out: nothing in the    *)
(* queue or in the worker reads them back.  `overrides` is kept as the one *)
(* override that changes what /process-one does with its database: force. *)
(***************************************************************************)
EXTENDS Integers, FiniteSets

CONSTANTS
    Offense,    \* offense ids; the primary key, compared as the last tie-break
    NoRow,      \* stands for "SELECT returned no row"
    Magnitude   \* the magnitudes QRadar assigns

ASSUME OffenseAssumption == Offense \subseteq Nat
ASSUME MagnitudeAssumption == Magnitude \subseteq Nat

Status == {"QUEUED", "IN_PROGRESS", "DONE", "ERROR"}
Source == {"auto", "manual", "catchup"}

NULL == -1      \* lease_until of a row nobody holds

Row == [status: Status, magnitude: Magnitude, source: Source, force: BOOLEAN,
        enqueued_at: Nat, lease_until: Nat \cup {NULL}, attempts: Nat]

ASSUME NoRowAssumption == NoRow \notin Row

(***************************************************************************)
(* ORDER_BY: magnitude DESC, (source = 'manual') DESC, enqueued_at ASC,    *)
(* offense_id ASC.                                                         *)
(***************************************************************************)
IsManual(r) == r.source = "manual"

\* Variants named ...Wrong... are slips the properties must notice; no definition
\* of the model uses them.
PrecedesWrongFifo(q, o, p) ==
    q[o].enqueued_at < q[p].enqueued_at
    \/ (q[o].enqueued_at = q[p].enqueued_at /\ o < p)

Precedes(q, o, p) ==
    \/ q[o].magnitude > q[p].magnitude
    \/ /\ q[o].magnitude = q[p].magnitude
       /\ \/ IsManual(q[o]) /\ ~IsManual(q[p])
          \/ /\ IsManual(q[o]) = IsManual(q[p])
             /\ \/ q[o].enqueued_at < q[p].enqueued_at
                \/ q[o].enqueued_at = q[p].enqueued_at /\ o < p

Rows(q) == {o \in Offense : q[o] # NoRow}

WithStatus(q, s) == {o \in Rows(q) : q[o].status = s}

(***************************************************************************)
(* claim_next: a QUEUED row, or an IN_PROGRESS one whose lease ran out.    *)
(***************************************************************************)
ExpiredWrongAlways(r, now) == r.status = "IN_PROGRESS"

Expired(r, now) ==
    /\ r.status = "IN_PROGRESS"
    /\ r.lease_until # NULL
    /\ r.lease_until < now

Claimable(q, now) ==
    {o \in Rows(q) : q[o].status = "QUEUED" \/ Expired(q[o], now)}

IsNextClaim(q, now, o) ==
    /\ o \in Claimable(q, now)
    /\ \A p \in Claimable(q, now) \ {o} : Precedes(q, o, p)

ClaimRow(r, leaseUntil) ==
    [r EXCEPT !.status = "IN_PROGRESS", !.lease_until = leaseUntil,
              !.attempts = @ + 1]

(***************************************************************************)
(* enqueue: an offense already QUEUED only gets its magnitude refreshed;   *)
(* IN_PROGRESS is never touched; DONE and ERROR start over under force.    *)
(***************************************************************************)
NewRowWrongAttempts(m, src, force, now) ==
    [status |-> "QUEUED", magnitude |-> m, source |-> src, force |-> force,
     enqueued_at |-> now, lease_until |-> NULL, attempts |-> NULL]

NewRow(m, src, force, now) ==
    [status |-> "QUEUED", magnitude |-> m, source |-> src, force |-> force,
     enqueued_at |-> now, lease_until |-> NULL, attempts |-> 0]

EnqueueOutcomeWrongForce(q, o, m, forced) ==
    IF q[o] = NoRow THEN "inserted" ELSE IF forced THEN "requeued" ELSE "skipped"

EnqueueOutcome(q, o, m, forced) ==
    CASE q[o] = NoRow -> "inserted"
      [] q[o] # NoRow /\ q[o].status = "QUEUED" ->
            IF q[o].magnitude # m THEN "refreshed" ELSE "skipped"
      [] q[o] # NoRow /\ q[o].status \in {"DONE", "ERROR"} /\ forced -> "requeued"
      [] OTHER -> "skipped"

Enqueue(q, o, m, src, force, forced, now) ==
    LET outcome == EnqueueOutcome(q, o, m, forced) IN
    IF outcome \in {"inserted", "requeued"}
    THEN [q EXCEPT ![o] = NewRow(m, src, force, now)]
    ELSE IF outcome = "refreshed"
    THEN [q EXCEPT ![o] = [@ EXCEPT !.magnitude = m]]
    ELSE q

(***************************************************************************)
(* mark: by offense id alone, whatever the row's state and lease.          *)
(***************************************************************************)
Mark(q, o, status) ==
    IF q[o] = NoRow THEN q
    ELSE [q EXCEPT ![o] = [@ EXCEPT !.status = status, !.lease_until = NULL]]

(***************************************************************************)
(* sweep: drops the quiet QUEUED tail older than the TTL and the finished  *)
(* rows older than the retention, both aged by enqueued_at.                *)
(***************************************************************************)
SweptWrongStatus(q, lowMagMax, ttl, retention, now) ==
    {o \in Rows(q) :
        \/ q[o].magnitude <= lowMagMax /\ q[o].enqueued_at < now - ttl
        \/ q[o].status \in {"DONE", "ERROR"} /\ q[o].enqueued_at < now - retention}

Swept(q, lowMagMax, ttl, retention, now) ==
    {o \in Rows(q) :
        \/ /\ q[o].status = "QUEUED"
           /\ q[o].magnitude <= lowMagMax
           /\ q[o].enqueued_at < now - ttl
        \/ /\ q[o].status \in {"DONE", "ERROR"}
           /\ q[o].enqueued_at < now - retention}

Sweep(q, lowMagMax, ttl, retention, now) ==
    [o \in Offense |->
        IF o \in Swept(q, lowMagMax, ttl, retention, now) THEN NoRow ELSE q[o]]

(***************************************************************************)
(* position_of: its own WHERE clause, written out next to ORDER_BY, counts *)
(* the QUEUED rows ahead.  The clause is kept as the code has it, so that  *)
(* it can be compared with Precedes.                                       *)
(***************************************************************************)
ManualRank(r) == IF r.source = "manual" THEN 1 ELSE 0

AheadOfWrongTie(q, o) ==
    {p \in WithStatus(q, "QUEUED") :
        \/ q[p].magnitude > q[o].magnitude
        \/ /\ q[p].magnitude = q[o].magnitude
           /\ \/ ManualRank(q[p]) > ManualRank(q[o])
              \/ /\ ManualRank(q[p]) = ManualRank(q[o])
                 /\ q[p].enqueued_at < q[o].enqueued_at}

AheadOf(q, o) ==
    LET m == q[o].magnitude
        k == ManualRank(q[o])
        t == q[o].enqueued_at
    IN {p \in WithStatus(q, "QUEUED") :
            \/ q[p].magnitude > m
            \/ q[p].magnitude = m /\ ManualRank(q[p]) > k
            \/ /\ q[p].magnitude = m
               /\ ManualRank(q[p]) = k
               /\ q[p].enqueued_at < t \/ (q[p].enqueued_at = t /\ p < o)}

=============================================================================
