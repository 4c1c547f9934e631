------------------------------- MODULE Items --------------------------------
(***************************************************************************)
(* The items service (app/services/item_service.py), its repository        *)
(* (app/repositories/item_repository.py) and keyset pagination             *)
(* (app/db/pagination.py) over PostgreSQL at READ COMMITTED.  Each action  *)
(* is one SQL statement or one commit; a statement that has to wait for    *)
(* another transaction is not enabled until that one ends.                 *)
(***************************************************************************)
EXTENDS Naturals, FiniteSets

CONSTANTS
  Requests,        \* requests other than lists, each is sent at most once
  Lists,           \* clients that page through a list, each once
  Ids,             \* item ids: numbers, for SQL orders by them; they are
                   \* random, so their order is not that of creation
  Earlier,         \* bound on the table at the start: the ids it may use
  Owners, Names, Statuses,
  None,            \* a row that does not exist, a field left out
  MAX_LIST_LIMIT,
  MaxClock,        \* bound on the readings of the clock
  Named,           \* bound on the ids that clients name
  MaxExpected,     \* bound on the versions that they expect
  Faults           \* TRUE: a statement or a commit may raise a driver error

ASSUME ConstantsAssumption ==
  /\ Ids \subseteq Nat /\ IsFiniteSet(Ids) /\ None \notin Ids
  /\ Earlier \subseteq Ids /\ Named \subseteq Ids
  /\ None \notin Names /\ None \notin Statuses
  /\ MAX_LIST_LIMIT \in Nat /\ MaxClock \in Nat /\ MaxExpected \in Nat /\ Faults \in BOOLEAN

VARIABLES
  items,      \* items[i]: the committed row of item i
  at,         \* at[i]: its created_at
  clock,
  pc,         \* pc[r]: the statement request r is at
  req, ans,   \* what it asks for, what its client was told
  pend,       \* pend[r]: the row its open transaction has written
  copy,       \* copy[r]: the version of the addressed item that its session
              \* has loaded, 0 if none
  list,       \* list[l]: the client's paging: its filter, limit and cursor
  seen,       \* seen[l][i]: on how many pages it has met item i
  whole       \* whole[l]: the items that have matched since its first page

listing == <<list, seen, whole>>
request == <<pc, req, ans, pend, copy>>
vars == <<items, at, clock, request, listing>>

\* What clients see is the abstract table: its rows are the committed ones.
Store == INSTANCE ItemStore WITH items <- items, req <- req, ans <- ans

\* None is told from every row and every request.
ASSUME NoneAssumption == None \notin Store!Item \cup Store!Request

NoPend == [id |-> None, row |-> None]

-----------------------------------------------------------------------------
(* Rows                                                                     *)

Live(row) == row # None /\ ~row.deleted

\* Item.get_active_by_id
get_active_by_id(owner, i) == Live(items[i]) /\ items[i].owner = owner

\* Item.get_active_by_name: the ids it may return
get_active_by_name(owner, name) ==
  {i \in Ids : get_active_by_id(owner, i) /\ items[i].name = name}

\* The index uq_items_owner_name_active keeps the rows (owner, name) that are
\* not deleted.
Indexed(row, owner, name) == Live(row) /\ row.owner = owner /\ row.name = name

\* The transaction of request q has an entry of that key in flight: it has
\* added one, or it changes the row that has it.
HoldsKey(q, owner, name) ==
  /\ pend[q] # NoPend
  /\ \/ pc[q] = "commit" /\ Indexed(pend[q].row, owner, name)
     \/ Indexed(items[pend[q].id], owner, name)

\* A statement that adds (owner, name) to the index waits for all of them.
KeyBusy(r, owner, name) == \E q \in Requests \ {r} : HoldsKey(q, owner, name)

\* ... and then fails if a committed row has the key.
KeyTaken(i, owner, name) == get_active_by_name(owner, name) \ {i} # {}

RowLocked(r, i) == \E q \in Requests \ {r} : pend[q].id = i

TypeOK ==
  /\ items \in [Ids -> Store!Item \cup {None}]
  /\ at \in [Ids -> 0 .. MaxClock] /\ clock \in 0 .. MaxClock
  /\ pc \in [Requests -> {"idle", "get", "name", "insert", "cas", "check", "current",
                          "commit", "done"}]
  /\ req \in [Requests -> Store!Request \cup {None}]
  /\ ans \in [Requests -> Store!Told]
  /\ pend \in [Requests -> [id : Ids, row : Store!Item] \cup {NoPend}]
  /\ copy \in [Requests -> Nat]

-----------------------------------------------------------------------------
(* A request                                                                *)

Goto(r, next) == pc' = [pc EXCEPT ![r] = next]

\* The transaction ends and its client is told.
Answer(r, code, version) ==
  /\ ans' = [ans EXCEPT ![r] = [code |-> code, version |-> version]]
  /\ pend' = [pend EXCEPT ![r] = NoPend]
  /\ Goto(r, "done")
  /\ UNCHANGED <<req, copy>>

\* The schemas take any version from 1 on, those included that the item does
\* not have yet, and any item id.
Versions == 1 .. MaxExpected

Change ==
  [kind : {"update"}, owner : Owners, id : Named, expected : Versions, met : {0},
   name : Names \cup {None}, status : Statuses \cup {None}]
    \cup
  [kind : {"delete"}, owner : Owners, id : Named, expected : Versions, met : {0},
   name : {None}, status : {None}]

Create ==
  [kind : {"create"}, owner : Owners, id : {None}, expected : {0}, met : {0},
   name : Names, status : Statuses]

Read ==
  [kind : {"get"}, owner : Owners, id : Named, expected : {0}, met : {0},
   name : {None}, status : {None}]

Requestable == Create \cup Read \cup Change

Entry(q) ==
  CASE q.kind = "create" -> "name"
    [] q.kind = "get"    -> "get"
    [] q.kind = "update" -> IF q.name = None THEN "cas" ELSE "name"
    [] q.kind = "delete" -> "cas"

Begin(r) ==
  /\ pc[r] = "idle"
  /\ \E q \in Requestable :
       req' = [req EXCEPT ![r] = [q EXCEPT !.met = Store!Met(q)]] /\ Goto(r, Entry(q))
  /\ UNCHANGED <<items, at, clock, ans, pend, copy, listing>>

Get(r) ==
  /\ pc[r] = "get"
  /\ IF get_active_by_id(req[r].owner, req[r].id)
     THEN Answer(r, "OK", items[req[r].id].version)
     ELSE Answer(r, "ITEM_NOT_FOUND", 0)
  /\ UNCHANGED <<items, at, clock, listing>>

\* A mutant of SelectName: the name is left to the unique index.
SelectNameSkipped(r) ==
  /\ pc[r] = "name"
  /\ Goto(r, IF req[r].kind = "create" THEN "insert" ELSE "cas")
  /\ UNCHANGED <<items, at, clock, req, ans, pend, copy, listing>>

\* A mutant of SelectName: an update that keeps its own name is a conflict.
SelectNameOwnConflicts(r) ==
  /\ pc[r] = "name"
  /\ IF get_active_by_name(req[r].owner, req[r].name) # {}
     THEN Answer(r, "ITEM_NAME_CONFLICT", 0)
     ELSE /\ Goto(r, IF req[r].kind = "create" THEN "insert" ELSE "cas")
          /\ UNCHANGED <<req, ans, pend, copy>>
  /\ UNCHANGED <<items, at, clock, listing>>

\* The SELECT by name that create and update begin with.  When it returns the
\* item to be updated, the session keeps that copy.
SelectName(r) ==
  LET q == req[r]
      existing == get_active_by_name(q.owner, q.name) IN
  /\ pc[r] = "name"
  /\ IF existing \ {q.id} # {}
     THEN Answer(r, "ITEM_NAME_CONFLICT", 0)
     ELSE /\ Goto(r, IF q.kind = "create" THEN "insert" ELSE "cas")
          /\ copy' = [copy EXCEPT ![r] = IF existing = {} THEN 0 ELSE items[q.id].version]
          /\ UNCHANGED <<req, ans, pend>>
  /\ UNCHANGED <<items, at, clock, listing>>

\* A mutant of Insert: the row is not dated.
InsertUndated(r) ==
  LET q == req[r] IN
  /\ pc[r] = "insert" /\ ~KeyBusy(r, q.owner, q.name)
  /\ IF KeyTaken(None, q.owner, q.name)
     THEN Answer(r, "ITEM_NAME_CONFLICT", 0) /\ UNCHANGED at
     ELSE \E i \in Ids :
            /\ items[i] = None /\ ~RowLocked(r, i)
            /\ at' = [at EXCEPT ![i] = None]
            /\ pend' = [pend EXCEPT ![r] = [id |-> i, row |-> Store!Created(q)]]
            /\ Goto(r, "commit")
            /\ UNCHANGED <<req, ans, copy>>
  /\ UNCHANGED <<items, clock, listing>>

\* ItemRepository.create: the row is dated before it is inserted.
Insert(r) ==
  LET q == req[r] IN
  /\ pc[r] = "insert" /\ ~KeyBusy(r, q.owner, q.name)
  /\ IF KeyTaken(None, q.owner, q.name)
     THEN Answer(r, "ITEM_NAME_CONFLICT", 0) /\ UNCHANGED <<at, clock>>
     ELSE \E i \in Ids, t \in {clock, clock + 1} :
            /\ items[i] = None /\ ~RowLocked(r, i) /\ t <= MaxClock
            /\ clock' = t /\ at' = [at EXCEPT ![i] = t]
            /\ pend' = [pend EXCEPT ![r] = [id |-> i, row |-> Store!Created(q)]]
            /\ Goto(r, "commit")
            /\ UNCHANGED <<req, ans, copy>>
  /\ UNCHANGED <<items, listing>>

\* The row the statement's WHERE clause looks for.
Matches(q) == get_active_by_id(q.owner, q.id) /\ items[q.id].version = q.expected

\* A mutant of Cas: the update does not compare the version.
CasBlind(r) ==
  LET q == req[r]
      kept == [q EXCEPT !.expected = items[q.id].version] IN
  /\ pc[r] = "cas"
  /\ IF get_active_by_id(q.owner, q.id)
     THEN /\ ~RowLocked(r, q.id)
          /\ pend' = [pend EXCEPT ![r] = [id |-> q.id, row |->
               IF q.kind = "delete" THEN Store!Deleted(items[q.id])
                                    ELSE Store!Updated(kept, items[q.id])]]
          /\ Goto(r, IF q.kind = "update" THEN "check" ELSE "commit")
     ELSE Goto(r, "current") /\ UNCHANGED pend
  /\ UNCHANGED <<items, at, clock, req, ans, copy, listing>>

\* The UPDATE of update_cas and of soft_delete_cas.  It locks the row it
\* finds; a row locked by another transaction is waited for and looked at
\* again.
Cas(r) ==
  LET q == req[r] IN
  /\ pc[r] = "cas"
  /\ IF Matches(q)
     THEN /\ ~RowLocked(r, q.id)
          /\ pend' = [pend EXCEPT ![r] = [id |-> q.id, row |->
               IF q.kind = "delete" THEN Store!Deleted(items[q.id])
                                    ELSE Store!Updated(q, items[q.id])]]
          /\ Goto(r, IF q.kind = "update" THEN "check" ELSE "commit")
     ELSE Goto(r, "current") /\ UNCHANGED pend
  /\ UNCHANGED <<items, at, clock, req, ans, copy, listing>>

\* The same UPDATE adds the new row to the unique index.
CheckName(r) ==
  LET row == pend[r].row IN
  /\ pc[r] = "check" /\ ~KeyBusy(r, row.owner, row.name)
  /\ IF KeyTaken(pend[r].id, row.owner, row.name)
     THEN Answer(r, "ITEM_NAME_CONFLICT", 0)
     ELSE Goto(r, "commit") /\ UNCHANGED <<req, ans, pend, copy>>
  /\ UNCHANGED <<items, at, clock, listing>>

\* No row matched: a second SELECT tells why.  A row the session has loaded
\* before is not read anew, so the version told may be that of the copy.
Current(r) ==
  LET q == req[r] IN
  /\ pc[r] = "current"
  /\ IF get_active_by_id(q.owner, q.id)
     THEN \E v \in (IF copy[r] = 0 THEN items[q.id].version ELSE copy[r]) .. items[q.id].version :
            Answer(r, "ITEM_VERSION_CONFLICT", v)
     ELSE Answer(r, "ITEM_NOT_FOUND", 0)
  /\ UNCHANGED <<items, at, clock, listing>>

-----------------------------------------------------------------------------
(* Lists                                                                    *)

Matching(row, l) ==
  /\ Live(row) /\ row.owner = list[l].owner
  /\ list[l].status # None => row.status = list[l].status

\* ORDER BY created_at DESC, id DESC
Precedes(i, j) == at[i] > at[j] \/ (at[i] = at[j] /\ i > j)

\* What becomes visible with a commit of item i.
Publish(i, row) ==
  /\ items' = [items EXCEPT ![i] = row]
  /\ whole' = [l \in Lists |-> IF Matching(row, l) THEN whole[l] ELSE whole[l] \ {i}]
  /\ UNCHANGED <<list, seen>>

Commit(r) ==
  /\ pc[r] = "commit"
  /\ Publish(pend[r].id, pend[r].row)
  /\ Answer(r, "OK", pend[r].row.version)
  /\ UNCHANGED <<at, clock>>

\* The driver raises: the transaction is rolled back, or the answer to its
\* commit is lost.  The error by which PostgreSQL ends a deadlock is one of
\* them.
Fail(r) ==
  /\ Faults /\ pc[r] \notin {"idle", "done"}
  /\ Answer(r, "INTERNAL_ERROR", 0)
  /\ \/ UNCHANGED <<items, listing>>
     \/ pc[r] = "commit" /\ Publish(pend[r].id, pend[r].row)
  /\ UNCHANGED <<at, clock>>

BeginList(l) ==
  /\ list[l].phase = "idle"
  /\ \E o \in Owners, s \in Statuses \cup {None}, n \in 1 .. MAX_LIST_LIMIT :
       list' = [list EXCEPT ![l] = [owner |-> o, status |-> s, limit |-> n, cursor |-> None,
                                    phase |-> "first"]]
  /\ UNCHANGED <<items, at, clock, request, seen, whole>>

\* A limit out of range, or a cursor that does not decode.
RefuseList(l) ==
  /\ list[l].phase = "idle"
  /\ list' = [list EXCEPT ![l].phase = "refused"]
  /\ UNCHANGED <<items, at, clock, request, seen, whole>>

\* A mutant of Beyond: the cursor compares the date only.
BeyondDateOnly(l) ==
  {i \in Ids : Matching(items[i], l) /\ (list[l].cursor # None => at[list[l].cursor] > at[i])}

\* The rows beyond the cursor, which names the last item of the page before.
Beyond(l) ==
  {i \in Ids : Matching(items[i], l) /\ (list[l].cursor # None => Precedes(list[l].cursor, i))}

\* list_active: one page, and the cursor of the next if there are more rows
\* than the page takes; the client goes on until there is none.
NextPage(l) ==
  LET rows == Beyond(l)
      page == {i \in rows : Cardinality({j \in rows : Precedes(j, i)}) < list[l].limit}
      last == CHOOSE i \in page : \A j \in page \ {i} : Precedes(j, i)
      more == Cardinality(rows) > list[l].limit IN
  /\ list[l].phase \in {"first", "more"}
  /\ list' = [list EXCEPT ![l].phase = IF more THEN "more" ELSE "done",
                          ![l].cursor = IF more THEN last ELSE None]
  /\ seen' = [seen EXCEPT ![l] = [i \in Ids |-> IF i \in page THEN @[i] + 1 ELSE @[i]]]
  /\ whole' = IF list[l].phase = "first" THEN [whole EXCEPT ![l] = rows] ELSE whole
  /\ UNCHANGED <<items, at, clock, request>>

-----------------------------------------------------------------------------
NewRow == [owner : Owners, name : Names, status : Statuses, version : {1}, deleted : {FALSE}]

\* The table as requests before these have left it.
Init ==
  /\ items \in [Ids -> NewRow \cup {None}] /\ \A i \in Ids \ Earlier : items[i] = None
  /\ \A i \in Ids : Live(items[i]) => ~KeyTaken(i, items[i].owner, items[i].name)
  /\ at = [i \in Ids |-> 0] /\ clock = 0
  /\ pc = [r \in Requests |-> "idle"]
  /\ req = [r \in Requests |-> None]
  /\ ans = [r \in Requests |-> Store!NoAnswer]
  /\ pend = [r \in Requests |-> NoPend]
  /\ copy = [r \in Requests |-> 0]
  /\ list = [l \in Lists |-> [owner |-> None, status |-> None, limit |-> 0, cursor |-> None,
                              phase |-> "idle"]]
  /\ seen = [l \in Lists |-> [i \in Ids |-> 0]]
  /\ whole = [l \in Lists |-> {}]

Step(r) ==
  \/ Get(r) \/ SelectName(r) \/ Insert(r) \/ Cas(r) \/ CheckName(r) \/ Current(r) \/ Commit(r)

Next ==
  \/ \E r \in Requests : Begin(r) \/ Step(r) \/ Fail(r)
  \/ \E l \in Lists : BeginList(l) \/ RefuseList(l) \/ NextPage(l)

Spec == Init /\ [][Next]_vars

-----------------------------------------------------------------------------
(* Properties                                                               *)

\* The service with its several statements implements the atomic table: every
\* answer and every change is one that a request alone could have got.
Implements == Store!Spec

\* No owner has two active items of one name, although create and update look
\* for the name in a statement before the one that writes.
NamesAreUnique ==
  \A i \in Ids : Live(items[i]) => ~KeyTaken(i, items[i].owner, items[i].name)

\* Of the changes that were sent with the same version of an item at most one
\* succeeds (update_cas, soft_delete_cas).
OneWinner ==
  \A q, r \in Requests :
    q # r /\ {ans[q].code, ans[r].code} = {"OK"}
      /\ {req[q].kind, req[r].kind} \subseteq {"update", "delete"} /\ req[q].id = req[r].id
      => req[q].expected # req[r].expected

\* A client that follows next_cursor to the end meets no item twice, and every
\* item that matched its filter all the while, although rows are added,
\* changed and deleted between its pages.
ListIsExact ==
  \A l \in Lists, i \in Ids :
    /\ seen[l][i] <= 1
    /\ list[l].phase = "done" /\ i \in whole[l] => seen[l][i] = 1

\* The statement that request r is at waits for the transaction of request q.
WaitsFor(r, q) ==
  /\ q # r
  /\ \/ pc[r] = "insert" /\ HoldsKey(q, req[r].owner, req[r].name)
     \/ pc[r] = "cas" /\ Matches(req[r]) /\ pend[q].id = req[r].id
     \/ pc[r] = "check" /\ HoldsKey(q, pend[r].row.owner, pend[r].row.name)

\* The client expects a version that the item did not have yet.
Guesses(r) == req[r].expected > req[r].met

\* Requests that expect versions their clients can have read never wait for
\* each other in a circle, whatever the others do: update_item looks for the
\* name before it locks a row.  A client that guesses a later version can send
\* its rename before that look means anything, and then PostgreSQL has to end
\* the circle.
DeadlockNeedsGuess ==
  \A S \in (SUBSET Requests) \ {{}} :
    (\A r \in S : \E q \in S : WaitsFor(r, q)) => \E r \in S : Guesses(r)

=============================================================================
