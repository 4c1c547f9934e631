----------------------------- MODULE ItemStore ------------------------------
(***************************************************************************)
(* What the items service promises its clients: a table of items that each *)
(* request reads or changes in one step.  Module Items shows how           *)
(* app/services/item_service.py keeps that promise with several statements *)
(* of concurrent transactions.                                             *)
(***************************************************************************)
EXTENDS Naturals

CONSTANTS
  Requests,   \* each is sent at most once
  Ids,        \* item ids
  Owners,     \* principals
  Names,
  Statuses,
  None        \* a row that does not exist, a field the request leaves out

VARIABLES
  items,      \* items[i]: the row of item i, deleted ones included
  req,        \* req[r]: what request r asks for
  ans         \* ans[r]: what its client was told

store == <<items, req, ans>>

Kinds == {"create", "get", "update", "delete"}

\* The field met is history: the version that the item a change addresses has
\* when the request is sent, 0 if there is no such item.  Nothing obliges the
\* client to expect just that version.
Request == [kind : Kinds, owner : Owners, id : Ids \cup {None}, expected : Nat, met : Nat,
            name : Names \cup {None}, status : Statuses \cup {None}]

Item == [owner : Owners, name : Names, status : Statuses, version : Nat \ {0},
         deleted : BOOLEAN]

Refusals == {"ITEM_NAME_CONFLICT", "ITEM_NOT_FOUND", "ITEM_VERSION_CONFLICT"}

Told == [code : Refusals \cup {"none", "OK", "INTERNAL_ERROR"}, version : Nat]

NoAnswer == [code |-> "none", version |-> 0]

-----------------------------------------------------------------------------
Active(i) == items[i] # None /\ ~items[i].deleted

\* The item a request addresses: nobody reaches the items of another owner.
Reached(q) == Active(q.id) /\ items[q.id].owner = q.owner

Addressed(r) == Reached(req[r])

Met(q) == IF q.kind \in {"update", "delete"} /\ Reached(q) THEN items[q.id].version ELSE 0

\* An active item other than i that has the name for the owner.
Taken(owner, name, i) ==
  \E j \in Ids \ {i} : Active(j) /\ items[j].owner = owner /\ items[j].name = name

Given(new, old) == IF new = None THEN old ELSE new

Created(q) == [owner |-> q.owner, name |-> q.name, status |-> q.status,
               version |-> 1, deleted |-> FALSE]

Updated(q, row) == [row EXCEPT !.name = Given(q.name, @), !.status = Given(q.status, @),
                               !.version = @ + 1]

Deleted(row) == [owner |-> row.owner, name |-> row.name, status |-> row.status,
                 version |-> row.version + 1, deleted |-> TRUE]

\* The row the request makes of item i.
Outcome(r, i) ==
  CASE req[r].kind = "create" -> Created(req[r])
    [] req[r].kind = "update" -> Updated(req[r], items[i])
    [] OTHER                  -> Deleted(items[i])

\* The request may write that row.
MayWrite(r, i) ==
  LET q == req[r] IN
  \/ /\ q.kind = "create" /\ items[i] = None
     /\ ~Taken(q.owner, q.name, i)
  \/ /\ q.kind \in {"update", "delete"} /\ i = q.id /\ Addressed(r)
     /\ items[i].version = q.expected
     /\ q.kind = "update" /\ q.name # None => ~Taken(q.owner, q.name, i)

\* The reasons for which it may be refused.  A version conflict means that
\* the item has another version than the client expects, or had another one
\* when the request was sent: who expects the version it had then is refused
\* only after somebody else has changed it.  The version told with the
\* conflict is one that the item has had since.
MayRefuse(r, code, version) ==
  LET q == req[r] IN
  \/ /\ code = "ITEM_NAME_CONFLICT" /\ version = 0
     /\ q.kind \in {"create", "update"} /\ Taken(q.owner, q.name, q.id)
  \/ /\ code = "ITEM_NOT_FOUND" /\ version = 0
     /\ q.kind # "create" /\ ~Addressed(r)
  \/ /\ code = "ITEM_VERSION_CONFLICT"
     /\ q.kind \in {"update", "delete"} /\ Addressed(r)
     /\ q.expected # items[q.id].version \/ q.expected # q.met
     /\ version \in 1 .. items[q.id].version /\ q.met <= version

-----------------------------------------------------------------------------
Answer(r, code, version) ==
  /\ req[r] # None /\ ans[r] = NoAnswer
  /\ ans' = [ans EXCEPT ![r] = [code |-> code, version |-> version]]
  /\ UNCHANGED req

Send(r) ==
  /\ req[r] = None /\ ans[r] = NoAnswer
  /\ req'[r] \in Request /\ req'[r].met = Met(req'[r])
  /\ req' = [req EXCEPT ![r] = req'[r]]
  /\ UNCHANGED <<items, ans>>

Write(r) ==
  \E i \in Ids :
    /\ req[r] # None /\ MayWrite(r, i)
    /\ items' = [items EXCEPT ![i] = Outcome(r, i)]
    /\ \/ Answer(r, "OK", Outcome(r, i).version)
       \/ Answer(r, "INTERNAL_ERROR", 0)

Read(r) ==
  /\ req[r] # None /\ req[r].kind = "get" /\ Addressed(r)
  /\ Answer(r, "OK", items[req[r].id].version)
  /\ UNCHANGED items

Refuse(r) ==
  /\ req[r] # None
  /\ \E code \in Refusals :
       MayRefuse(r, code, ans'[r].version) /\ Answer(r, code, ans'[r].version)
  /\ UNCHANGED items

Break(r) == Answer(r, "INTERNAL_ERROR", 0) /\ UNCHANGED items

Init ==
  /\ items \in [Ids -> Item \cup {None}]
  /\ \A i \in Ids : Active(i) => ~Taken(items[i].owner, items[i].name, i)
  /\ req = [r \in Requests |-> None]
  /\ ans = [r \in Requests |-> NoAnswer]

Next == \E r \in Requests : Send(r) \/ Write(r) \/ Read(r) \/ Refuse(r) \/ Break(r)

Spec == Init /\ [][Next]_store

=============================================================================
