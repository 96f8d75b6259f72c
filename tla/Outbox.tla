------------------------------- MODULE Outbox -------------------------------
(***************************************************************************)
(* The SQLite outbox of durable_store.mbt, as data: what a row holds, and  *)
(* what each committed transaction does to the table.  Every operation of  *)
(* SqliteOutbox runs one BEGIN IMMEDIATE .. COMMIT under transaction_lock  *)
(* and either commits all of its effect or rolls all of it back, so an     *)
(* operation is a function from tables to tables together with the         *)
(* condition under which it commits.                                       *)
(***************************************************************************)
EXTENDS Naturals, FiniteSets

CONSTANTS
    Deliveries,      \* the delivery identifiers
    MaxPacketId,     \* the largest MQTT packet identifier (65535 in the code)
    MaxRecords       \* DurableOutboxOptions.max_records

ASSUME OutboxAssumption ==
    /\ IsFiniteSet(Deliveries)
    /\ MaxPacketId \in Nat \ {0}
    /\ MaxRecords \in Nat \ {0}

PacketIds == 1..MaxPacketId

(* A table is total: an identifier that has no row maps to NoRow. *)
Row == [state    : {"absent", "pending", "blocked"},
        pid      : 0..MaxPacketId,
        seq      : Nat,
        attempts : Nat,
        started  : BOOLEAN]

NoRow == [state |-> "absent", pid |-> 0, seq |-> 0, attempts |-> 0,
          started |-> FALSE]

EmptyTable == [d \in Deliveries |-> NoRow]

Present(table) == {d \in Deliveries : table[d].state # "absent"}
Pending(table) == {d \in Deliveries : table[d].state = "pending"}
Blocked(table) == {d \in Deliveries : table[d].state = "blocked"}

(* The statements the delivery runtime issues for one delivery. *)
Statement ==
    {"insert", "attach", "mark", "check", "delete", "quarantine", "expire"}

(***************************************************************************)
(* The condition under which a statement commits.  admit counts the rows   *)
(* against max_records and its INSERT meets the unique delivery_id and     *)
(* packet_id columns; update_one and block raise DurableStoreState unless  *)
(* exactly one row changed; expire_one raises it for a missing or an       *)
(* already blocked row, also when the deadline has not passed ("check").   *)
(***************************************************************************)
Commits(stmt, table, d, pid) ==
    CASE stmt = "insert" ->
             /\ Cardinality(Present(table)) < MaxRecords
             /\ table[d].state = "absent"
             /\ \A e \in Present(table) : table[e].pid # pid
      [] stmt \in {"attach", "mark", "check", "expire"} ->
             table[d].state = "pending"
      [] stmt \in {"delete", "quarantine"}     -> table[d].state # "absent"

(* Mutation: an acknowledged row is kept, no longer pending. *)
RowAfterKeepsAcked(stmt, row, pid, seq) ==
    CASE stmt = "insert"     -> [state |-> "pending", pid |-> pid, seq |-> seq,
                                 attempts |-> 0, started |-> FALSE]
      [] stmt = "attach"     -> [row EXCEPT !.attempts = @ + 1]
      [] stmt = "mark"       -> [row EXCEPT !.started = TRUE]
      [] stmt = "check"      -> row
      [] OTHER               -> [row EXCEPT !.state = "blocked"]

(* Mutation: expiry erases a row that may have been written. *)
ExpiredRowForgets(row) == NoRow

(* expire_one past the deadline: only a row that may have been written is  *)
(* kept, as evidence.                                                      *)
ExpiredRow(row) == IF row.started THEN [row EXCEPT !.state = "blocked"]
                                  ELSE NoRow

(* The row a committed statement leaves behind.                            *)
RowAfter(stmt, row, pid, seq) ==
    CASE stmt = "insert"     -> [state |-> "pending", pid |-> pid, seq |-> seq,
                                 attempts |-> 0, started |-> FALSE]
      [] stmt = "attach"     -> [row EXCEPT !.attempts = @ + 1]
      [] stmt = "mark"       -> [row EXCEPT !.started = TRUE]
      [] stmt = "check"      -> row
      [] stmt = "delete"     -> NoRow
      [] stmt = "quarantine" -> [row EXCEPT !.state = "blocked"]
      [] stmt = "expire"     -> ExpiredRow(row)

(* expire(now): one transaction that expires every pending row past its    *)
(* deadline.                                                               *)
Swept(table, late) ==
    [d \in Deliveries |->
        IF d \in late /\ table[d].state = "pending"
        THEN ExpiredRow(table[d])
        ELSE table[d]]
=============================================================================
