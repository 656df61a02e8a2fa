-------------------------------- MODULE Listings --------------------------------
(***************************************************************************)
(* The listings that a client reads page by page: the Records of a         *)
(* Collection for an administrator (src/internal/records/query.go) and for *)
(* an application user, who sees only what the list rule allows            *)
(* (src/internal/records/authorization.go), the Request log, the Audit     *)
(* log, the Webhook deliveries, the applied history of a Collection and    *)
(* the Activity feed.                                                      *)
(*                                                                         *)
(* Rows are sorted by a key and their ID.  A cursor holds the two values   *)
(* of the last row of a page; the next page is what sorts after them, as   *)
(* the WHERE clause of the listing says in SQL.  Every page has a snapshot *)
(* of its own, and rows are written in between.                            *)
(***************************************************************************)
EXTENDS Naturals, FiniteSets

CONSTANTS
  Id,            \* IDs, positive numbers in their order
  Value,         \* values of the key, numbers in their order
  Operator,      \* operators of the filters of Records and Requests
  Limit,         \* rows of a page
  RawLimit,      \* maximumLimit: Records that ListApplication reads at a time
  SourceFacts,   \* maximumSourceFacts: facts that a source of the Activity gives
  MaxChanges     \* bound: writes during the listing

ASSUME ListingsAssumption ==
  /\ Id \subseteq Nat \ {0} /\ IsFiniteSet(Id)
  /\ Value \subseteq Nat \ {0}
  /\ Operator \subseteq {"eq", "ne", "gt", "gte", "lt", "lte"}
  /\ Limit \in Nat \ {0} /\ RawLimit \in Nat \ {0}
  /\ SourceFacts \in Nat \ {0} /\ MaxChanges \in Nat

Null == 0                    \* a Field of a Record that is empty
Keys == Value \cup {Null}
Listing == {"records", "application", "requests", "audit", "deliveries",
            "history", "activity"}
Direction == {"asc", "desc"}
Row == [key: Keys, allowed: BOOLEAN]
Place == [key: Keys, id: Id]   \* the values of a row that cursors hold
NoFilter == [op |-> "none", value |-> Null]
Absent == [key |-> Null, allowed |-> FALSE, absent |-> TRUE]

VARIABLES
  rows,      \* [Id -> Row or Absent]
  listing,   \* what is listed, and for whom
  sort,      \* the directions of the key and of the ID
  filter,    \* what the client asks for
  at,        \* "client", "request" or "done"
  nextCursor,   \* where the next page of the client starts
  raw,       \* where ListApplication reads on
  visible,   \* what it has collected: positions, in their order
  listed,    \* history: [Id -> how often the pages so far have the row]
  steady,    \* history: rows that could be listed all the time, as they are
  changed,   \* history: rows that were written
  redriven,  \* history: facts whose time a redrive has moved back
  ended,     \* history: what the key of the cursors was, "empty" or "value"
  changes

query    == <<listing, sort, filter>>
table    == <<rows, steady, changed, redriven, changes>>
pages    == <<at, nextCursor, raw, visible, listed, ended>>
listVars == <<query, table, pages>>

Start == [key |-> Null, id |-> 0]

Present == {i \in Id : rows[i] # Absent}
Position(i) == [key |-> rows[i].key, id |-> i]
OfRecords == listing \in {"records", "application"}

-----------------------------------------------------------------------------
(* What each listing can be asked for. *)

\* parseSort: Records and Requests are sorted as the client says, the others
\* from the newest on; deliveries by their ordinal alone.
Sorts == IF OfRecords \/ listing = "requests" THEN [key: Direction, id: Direction]
         ELSE {[key |-> IF listing = "deliveries" THEN "none" ELSE "desc",
                id |-> "desc"]}

\* parseFilter and validateFilterOperator: only eq and ne compare with null.
RecordFilters == {f \in [op: Operator, value: Keys] :
                    f.value = Null => f.op \in {"eq", "ne"}}

\* parseFilter: the columns of a Request are never null.
RequestFilters == [op: Operator, value: Value]

\* normalizeListOptions: an Audit listing is from a time on, or up to it.
AuditFilters == [op: {"gte", "lte"}, value: Value]

\* Deliveries are listed by status.
DeliveryFilters == [op: {"eq"}, value: Value]

Filters == {NoFilter} \cup
  CASE OfRecords              -> RecordFilters
    [] listing = "requests"   -> RequestFilters
    [] listing = "audit"      -> AuditFilters
    [] listing = "deliveries" -> DeliveryFilters
    [] OTHER                  -> {}

\* compileWhere: a comparison with an empty Field is never true in SQL.
Passes(key) ==
  \/ filter = NoFilter
  \/ filter.value = Null /\ (key = Null <=> filter.op = "eq")
  \/ /\ key # Null /\ filter.value # Null
     /\ \/ filter.op \in {"eq", "gte", "lte"} /\ key = filter.value
        \/ filter.op \in {"ne", "lt", "lte"} /\ key < filter.value
        \/ filter.op \in {"ne", "gt", "gte"} /\ key > filter.value

\* A source of the Activity reads the newest of its rows, then those that
\* the client asks for are kept; the other listings read every row.
Newest == {i \in Present : Cardinality({j \in Present : j > i}) < SourceFacts}

Candidates ==
  {i \in IF listing = "activity" THEN Newest ELSE Present :
     Passes(rows[i].key) /\ (listing = "activity" => rows[i].allowed)}

Wanted == {i \in Candidates : listing = "application" => rows[i].allowed}

ListTypeOK ==
  /\ rows \in [Id -> Row \cup {Absent}] /\ listing \in Listing
  /\ sort \in Sorts /\ filter \in Filters
  /\ at \in {"client", "request", "done"}
  /\ nextCursor \in Place \cup {Start} /\ raw \in Place \cup {Start}
  /\ visible \in SUBSET Place /\ IsFiniteSet(visible) /\ listed \in [Id -> Nat]
  /\ steady \in SUBSET Id /\ changed \in SUBSET Id /\ changes \in Nat
  /\ redriven \in SUBSET Id /\ ended \in SUBSET {"empty", "value"}

ListInit ==
  /\ listing \in Listing
  /\ rows \in [Id -> Row \cup {Absent}]
  /\ listing \notin {"application", "activity"} => \A i \in Present : rows[i].allowed
  /\ ~OfRecords => \A i \in Present : rows[i].key # Null
  /\ sort \in Sorts /\ filter \in Filters
  /\ at = "client" /\ nextCursor = Start /\ raw = Start /\ visible = {}
  /\ listed = [i \in Id |-> 0]
  /\ steady = Wanted
  /\ changed = {} /\ redriven = {} /\ changes = 0 /\ ended = {}

-----------------------------------------------------------------------------
(* The order of the rows, and what comes after a cursor. *)

\* The order of SQLite: NULL comes before every value.
Precedes(a, b, direction) == IF direction = "asc" THEN a < b ELSE b < a

\* compileOrder: by the key, then by the ID.
Before(p, q) ==
  \/ sort.key # "none" /\ Precedes(p.key, q.key, sort.key)
  \/ (sort.key = "none" \/ p.key = q.key) /\ Precedes(p.id, q.id, sort.id)

\* Mutant of AfterRecord: the ID is not compared.
AfterValue(p, c) == Precedes(c.key, p.key, sort.key)

\* compileAfterCursor: one branch for each sorted Field.  In SQL an empty Field
\* is neither less nor greater than a value; a cursor whose value is empty
\* leaves the first branch out.
AfterRecord(p, c) ==
  \/ c.key # Null /\ p.key # Null /\ Precedes(c.key, p.key, sort.key)
  \/ p.key = c.key /\ Precedes(c.id, p.id, sort.id)

\* compileCursor of the Requests: one branch for each sorted column.
AfterRequest(p, c) ==
  \/ Precedes(c.key, p.key, sort.key)
  \/ p.key = c.key /\ Precedes(c.id, p.id, sort.id)

\* The Audit log, the history and the Activity: by time, then by ID.
AfterEntry(p, c) == p.key < c.key \/ (p.key = c.key /\ p.id < c.id)

AfterCursor(p, c) ==
  \/ c = Start
  \/ OfRecords /\ AfterRecord(p, c)
  \/ listing = "requests" /\ AfterRequest(p, c)
  \/ listing = "deliveries" /\ p.id < c.id
  \/ listing \in {"audit", "history", "activity"} /\ AfterEntry(p, c)

\* What comes after the cursor; the first n of it; and the last of a page.
Matching(c)   == {p \in {Position(i) : i \in Candidates} : AfterCursor(p, c)}
FirstOf(S, n) == {p \in S : Cardinality({q \in S : Before(q, p)}) < n}
LastOf(S)     == CHOOSE p \in S : \A q \in S : ~Before(p, q)

\* The next page starts behind the position.
Ends(p) == ended' = ended \cup {IF p.key = Null THEN "empty" ELSE "value"}

\* The client gets the rows of a page.
Given(page) == listed' = [i \in Id |-> listed[i] + Cardinality({p \in page : p.id = i})]

-----------------------------------------------------------------------------
(* The pages. *)

\* One row more than the page holds is read: there is a next page if it is
\* there, and its cursor is the last row of this one.
NextPage ==
  /\ at = "client"
  /\ LET found == Matching(nextCursor)
         page  == FirstOf(found, Limit)
     IN /\ Given(page)
        /\ IF Cardinality(found) > Limit
           THEN /\ nextCursor' = LastOf(page) /\ Ends(nextCursor')
                /\ UNCHANGED at
           ELSE at' = "done" /\ UNCHANGED <<nextCursor, ended>>
  /\ UNCHANGED <<query, table, raw, visible>>

List           == listing = "records" /\ NextPage
ListRequests   == listing = "requests" /\ NextPage
ListAudit      == listing = "audit" /\ NextPage
ListDeliveries == listing = "deliveries" /\ NextPage
History        == listing = "history" /\ NextPage
ListActivity   == listing = "activity" /\ NextPage

(***************************************************************************)
(* A page for an application user: larger pages are read, each in its own  *)
(* snapshot, until one more Record than the page holds is allowed.         *)
(***************************************************************************)
ListApplication ==
  /\ listing = "application" /\ at = "client"
  /\ at' = "request" /\ raw' = nextCursor /\ visible' = {}
  /\ UNCHANGED <<query, table, nextCursor, listed, ended>>

ReadOn ==
  /\ at = "request"
  /\ LET here  == Matching(raw)
         chunk == FirstOf(here, RawLimit)
         found == visible \cup {p \in chunk : rows[p.id].allowed}
         page  == FirstOf(found, Limit)
     IN \/ /\ Cardinality(found) > Limit
           /\ Given(page) /\ nextCursor' = LastOf(page) /\ at' = "client"
           /\ Ends(nextCursor')
           /\ UNCHANGED <<raw, visible>>
        \/ /\ Cardinality(found) <= Limit /\ Cardinality(here) > RawLimit
           /\ raw' = LastOf(chunk) /\ visible' = found /\ Ends(raw')
           /\ UNCHANGED <<listed, nextCursor, at>>
        \/ /\ Cardinality(found) <= Limit /\ Cardinality(here) <= RawLimit
           /\ Given(found) /\ at' = "done"
           /\ UNCHANGED <<raw, visible, nextCursor, ended>>
  /\ UNCHANGED <<query, table>>

-----------------------------------------------------------------------------
(* Writes of others. *)

\* Only the Field of a Record may be empty.  What was steady and is no longer
\* given by its source is not any more.
Write(i, row) ==
  /\ at # "done" /\ changes < MaxChanges /\ rows[i] # row
  /\ row.key = Null => OfRecords \/ row = Absent
  /\ rows' = [rows EXCEPT ![i] = row]
  /\ steady' = (steady \ {i}) \cap (IF listing = "activity" THEN Newest' ELSE Id)
  /\ changed' = changed \cup {i}
  /\ changes' = changes + 1
  /\ UNCHANGED <<query, pages>>

\* Records are created, updated and deleted at will.
WriteRecord(i, row) == OfRecords /\ Write(i, row) /\ UNCHANGED redriven

\* A Request is appended with its answer, its duration is written again when
\* a stream ends, and it goes when it is older than the retention.
Appended(i, row) == /\ rows[i] = Absent /\ row # Absent
                    /\ Write(i, row) /\ UNCHANGED redriven
AppendRequest(i, row)    == listing = "requests" /\ Appended(i, row)
UpdateResponseMetrics(i, row) ==
  /\ listing = "requests" /\ i \in Present /\ row # Absent
  /\ Write(i, row) /\ UNCHANGED redriven
PruneOlderThan(i) ==
  listing = "requests" /\ i \in Present /\ Write(i, Absent) /\ UNCHANGED redriven

\* Audit records and applied migrations are never written again.
AppendInTransaction(i, row) == listing \in {"audit", "history"} /\ Appended(i, row)

\* A delivery has the next ordinal; it changes its status and is pruned.
WriteDelivery(i, row) ==
  /\ listing = "deliveries"
  /\ rows[i] = Absent => i \notin changed /\ \A j \in Present \cup changed : j < i
  /\ Write(i, row) /\ UNCHANGED redriven

\* A new fact has a new ID and is the newest.  The time of a fact is when its
\* work was completed, and before that when it was created: completion moves
\* it on, RetryDelivery, which clears completed_at, back.
WriteFact(i, row) ==
  /\ listing = "activity"
  /\ rows[i] = Absent => /\ i \notin changed /\ \A j \in Present \cup changed : j < i
                         /\ \A j \in Present : rows[j].key <= row.key
  /\ redriven' = IF i \in Present /\ row # Absent /\ row.key < rows[i].key
                 THEN redriven \cup {i} ELSE redriven
  /\ Write(i, row)

ListNext ==
  \/ List \/ ListApplication \/ ReadOn
  \/ ListRequests \/ ListAudit \/ ListDeliveries \/ History \/ ListActivity
  \/ \E i \in Id : PruneOlderThan(i)
  \/ \E i \in Id, row \in Row \cup {Absent} :
       \/ WriteRecord(i, row) \/ AppendRequest(i, row)
       \/ UpdateResponseMetrics(i, row) \/ AppendInTransaction(i, row)
       \/ WriteDelivery(i, row) \/ WriteFact(i, row)

ListSpec == ListInit /\ [][ListNext]_listVars

(***************************************************************************)
(* Properties.                                                             *)
(***************************************************************************)
\* A Record that the cursors of the listing do not reach: NULL sorts before
\* every value, but in SQL a comparison with NULL is not true.  Upwards, a page
\* that ends at an empty Field is followed by no Record with a value;
\* downwards, one that ends at a value is followed by none with an empty Field.
PassedOver(i) ==
  /\ OfRecords
  /\ \/ sort.key = "asc" /\ rows[i].key # Null /\ "empty" \in ended
     \/ sort.key = "desc" /\ rows[i].key = Null /\ "value" \in ended

\* Whatever is written during a listing, a row that is there all the time
\* and does not change is on exactly one of its pages, and in the listings
\* from the newest on even one that changes is on one at most
\* (compileAfterCursor, compileCursor, List, ListApplication).  There are two
\* exceptions, both against what the code says of itself.  A Record that is
\* PassedOver is on no page, though compileAfterCursor means the order of
\* SQLite; a fact of the Activity that a redrive has moved back may be on two.
ListedOnce ==
  /\ \A i \in Id :
       \/ i \notin changed \/ listing = "deliveries"
       \/ listing = "activity" /\ i \notin redriven
       => listed[i] <= 1
  /\ at = "done" => \A i \in steady : listed[i] = 1 \/ PassedOver(i)
=============================================================================
