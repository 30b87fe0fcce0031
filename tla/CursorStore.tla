----------------------------- MODULE CursorStore -----------------------------
(***************************************************************************)
(* internal/cursor: the in-memory store of search cursors and the leases   *)
(* on them.                                                                *)
(*                                                                         *)
(* Cursor and lease ids are 256 random bits: a cursor is named by the call *)
(* of Issue that made it, a lease by the call that holds it.  A runtime    *)
(* has one transport, one profile and one paged action, so the scopes it   *)
(* asks for always match.  Consume, ConsumeScoped and PeekScoped have no   *)
(* caller in the program.                                                  *)
(***************************************************************************)
EXTENDS Naturals

CONSTANTS
  Cursor,  \* the cursors Issue can return
  Link,    \* the provider's continuation links
  Holder,  \* the calls that take leases
  None     \* the value of a missing key

VARIABLES records, leases

Record == [ link : Link, expiresAt : Nat ]
LeaseRecord == [ holder : Holder, expiresAt : Nat ]

TypeOK ==
  /\ records \in [Cursor -> Record \cup {None}]
  /\ leases \in [Cursor -> LeaseRecord \cup {None}]

Init ==
  /\ records = [id \in Cursor |-> None]
  /\ leases = [id \in Cursor |-> None]

Known(id) == records[id] # None
Expired(id, now) == Known(id) /\ ~ (now < records[id].expiresAt)
HasActiveLease(id, now) == leases[id] # None /\ now < leases[id].expiresAt
Holds(holder, id) == leases[id] # None /\ leases[id].holder = holder

Drop(table, id) == [table EXCEPT ![id] = None]

(* Seeded fault: the record has no expiry.                                 *)
IssueForEver(id, link, now, ttl) ==
  /\ records' = [records EXCEPT ![id] = [link |-> link]]
  /\ UNCHANGED leases

Issue(id, link, now, ttl) ==
  /\ records' = [records EXCEPT ![id] = [link |-> link, expiresAt |-> now + ttl]]
  /\ UNCHANGED leases

(* Seeded fault: a cursor under lease is leased again.                     *)
CanLeaseAgain(id, now) == Known(id) /\ ~ Expired(id, now)

(* The answer of LeaseScoped: an expired lease is no obstacle.             *)
CanLease(id, now) ==
  Known(id) /\ ~ Expired(id, now) /\ ~ HasActiveLease(id, now)

Lease(id, holder, now, ttl) ==
  /\ leases' = [leases EXCEPT ![id] = [holder |-> holder, expiresAt |-> now + ttl]]
  /\ UNCHANGED records

(* A refused LeaseScoped drops an expired cursor, whoever holds its lease. *)
RefuseLease(id, now) ==
  IF Expired(id, now)
  THEN records' = Drop(records, id) /\ leases' = Drop(leases, id)
  ELSE UNCHANGED << records, leases >>

(* Seeded fault: a commit does not ask whose lease it ends.                *)
CommitsAnyLease(holder, id, now) == HasActiveLease(id, now)

(* The answer of CommitLease.  It looks at the lease's expiry, not at the  *)
(* cursor's.                                                               *)
Commits(holder, id, now) == Holds(holder, id) /\ HasActiveLease(id, now)

(* Seeded fault: the lease is given up, the cursor is kept.                *)
CommitLeaseKeepsCursor(holder, id, now) ==
  /\ leases' = IF Holds(holder, id) THEN Drop(leases, id) ELSE leases
  /\ UNCHANGED records

(* A lease that expired is given up without the cursor it was for.         *)
CommitLease(holder, id, now) ==
  /\ leases' = IF Holds(holder, id) THEN Drop(leases, id) ELSE leases
  /\ records' = IF Commits(holder, id, now) THEN Drop(records, id) ELSE records

(* Seeded faults: a rollback drops the cursor; a rollback does nothing.    *)
RollbackLeaseDropsCursor(holder, id) ==
  /\ leases' = IF Holds(holder, id) THEN Drop(leases, id) ELSE leases
  /\ records' = IF Holds(holder, id) THEN Drop(records, id) ELSE records

RollbackLeaseForgotten(holder, id) == UNCHANGED << records, leases >>

RollbackLease(holder, id) ==
  /\ leases' = IF Holds(holder, id) THEN Drop(leases, id) ELSE leases
  /\ UNCHANGED records
=============================================================================
