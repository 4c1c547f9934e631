---------------------------- MODULE ItemsProofs -----------------------------
(***************************************************************************)
(* Proofs about module Items for any number of concurrent requests, lists, *)
(* items, owners and names: the service implements the atomic table of     *)
(* module ItemStore, and a client that follows the cursors of a list meets *)
(* every item once.                                                        *)
(***************************************************************************)
EXTENDS Items, FiniteSetTheorems, TLAPS

-----------------------------------------------------------------------------
(* The rows that requests write                                             *)

LEMMA CreatedRow ==
  ASSUME NEW q \in Store!Request, q.name \in Names, q.status \in Statuses
  PROVE  /\ Store!Created(q) \in Store!Item /\ Store!Created(q) # None
         /\ Live(Store!Created(q)) /\ Store!Created(q).owner = q.owner
         /\ Store!Created(q).name = q.name /\ Store!Created(q).version = 1
<1>1. Store!Created(q) \in Store!Item
  BY DEF Store!Created, Store!Item, Store!Request
<1>2. Store!Created(q) # None
  BY <1>1, NoneAssumption
<1> QED BY <1>1, <1>2 DEF Store!Created, Live

LEMMA UpdatedRow ==
  ASSUME NEW q \in Store!Request, NEW row \in Store!Item
  PROVE  /\ Store!Updated(q, row) \in Store!Item /\ Store!Updated(q, row) # None
         /\ Store!Updated(q, row).deleted = row.deleted
         /\ Store!Updated(q, row).owner = row.owner
         /\ Store!Updated(q, row).name = Store!Given(q.name, row.name)
         /\ Store!Updated(q, row).version = row.version + 1
<1>1. /\ Store!Given(q.name, row.name) \in Names /\ Store!Given(q.status, row.status) \in Statuses
      /\ row.version + 1 \in Nat \ {0}
  BY DEF Store!Given, Store!Item, Store!Request
<1>2. Store!Updated(q, row) \in Store!Item
  BY <1>1 DEF Store!Updated, Store!Item
<1>3. Store!Updated(q, row) # None
  BY <1>2, NoneAssumption
<1> QED BY <1>1, <1>2, <1>3 DEF Store!Updated, Store!Item

LEMMA DeletedRow ==
  ASSUME NEW row \in Store!Item
  PROVE  /\ Store!Deleted(row) \in Store!Item /\ Store!Deleted(row) # None
         /\ Store!Deleted(row).deleted = TRUE
         /\ Store!Deleted(row).owner = row.owner
         /\ Store!Deleted(row).version = row.version + 1
<1>1. Store!Deleted(row) \in Store!Item
  <2>1. /\ row.owner \in Owners /\ row.name \in Names /\ row.status \in Statuses
        /\ row.version + 1 \in Nat
    BY DEF Store!Item
  <2> QED BY <2>1 DEF Store!Item, Store!Deleted
<1>2. Store!Deleted(row) # None
  BY <1>1, NoneAssumption
<1> QED BY <1>1, <1>2 DEF Store!Deleted, Store!Item

-----------------------------------------------------------------------------
(* The inductive invariant                                                  *)

\* What a request asks for fits the statement it is at.
RequestFits(r) ==
  /\ pc[r] = "idle" <=> req[r] = None
  /\ pc[r] # "done" => ans[r] = Store!NoAnswer
  /\ pc[r] = "idle" => copy[r] = 0
  /\ pc[r] # "idle" =>
       /\ req[r] \in Store!Request
       /\ req[r].kind = "create" =>
            /\ req[r].id = None /\ req[r].name \in Names /\ req[r].status \in Statuses
            /\ pc[r] \in {"name", "insert", "commit", "done"}
       /\ req[r].kind = "get" => req[r].id \in Ids /\ pc[r] \in {"get", "done"}
       /\ req[r].kind = "update" =>
            pc[r] \in {"name", "cas", "check", "current", "commit", "done"}
       /\ req[r].kind = "delete" => pc[r] \in {"cas", "current", "commit", "done"}
       /\ req[r].kind \in {"update", "delete"} => req[r].id \in Ids /\ req[r].expected # 0
       /\ pc[r] = "name" => req[r].name # None

\* The item a change met is still there, and its version never falls below
\* the one it had then, nor below the one its session has loaded.  An UPDATE
\* that has missed has a reason to: the client has not expected the version
\* the item had or has.  One that succeeded has been left behind.
ChangeFits(r) ==
  pc[r] # "idle" /\ req[r].kind \in {"update", "delete"} =>
    /\ req[r].met # 0 =>
         items[req[r].id] # None /\ req[r].met <= items[req[r].id].version
    /\ copy[r] # 0 => req[r].met <= copy[r]
    /\ pc[r] = "current" /\ get_active_by_id(req[r].owner, req[r].id) =>
         req[r].expected # items[req[r].id].version \/ req[r].expected # req[r].met
    /\ ans[r].code = "OK" =>
         items[req[r].id] # None /\ req[r].expected < items[req[r].id].version

\* The row an open transaction has written is made of the committed row that
\* its lock protects.
PendingFits(r) ==
  /\ pc[r] \in {"check", "commit"} <=> pend[r] # NoPend
  /\ pend[r] # NoPend =>
       /\ req[r].kind = "create" =>
            items[pend[r].id] = None /\ pend[r].row = Store!Created(req[r])
       /\ req[r].kind = "update" =>
            /\ pend[r].id = req[r].id /\ Matches(req[r])
            /\ pend[r].row = Store!Updated(req[r], items[req[r].id])
       /\ req[r].kind = "delete" =>
            /\ pend[r].id = req[r].id /\ Matches(req[r])
            /\ pend[r].row = Store!Deleted(items[req[r].id])

\* No two transactions have written one item.
Apart ==
  \A q, r \in Requests : q # r /\ pend[q] # NoPend /\ pend[r] # NoPend => pend[q].id # pend[r].id

\* A row that is ready to be committed has a name that neither a committed row
\* nor another one that is ready has.
NameSettled(r) ==
  pc[r] = "commit" /\ Live(pend[r].row) =>
    /\ ~KeyTaken(pend[r].id, pend[r].row.owner, pend[r].row.name)
    /\ \A q \in Requests \ {r} :
         pc[q] = "commit" => ~Indexed(pend[q].row, pend[r].row.owner, pend[r].row.name)

Inv ==
  /\ TypeOK
  /\ \A r \in Requests : RequestFits(r)
  /\ \A r \in Requests : ChangeFits(r)
  /\ \A r \in Requests : PendingFits(r)
  /\ Apart
  /\ \A r \in Requests : NameSettled(r)
  /\ NamesAreUnique
  /\ OneWinner

LEMMA InitInv == Init => Inv
<1> SUFFICES ASSUME Init PROVE Inv
  OBVIOUS
<1>1. NewRow \subseteq Store!Item
  <2>1. \A V, D : V \subseteq Nat \ {0} /\ D \subseteq BOOLEAN =>
          [owner : Owners, name : Names, status : Statuses, version : V, deleted : D]
            \subseteq Store!Item
    BY DEF Store!Item
  <2>2. {1} \subseteq Nat \ {0} /\ {FALSE} \subseteq BOOLEAN
    OBVIOUS
  <2> QED BY <2>1, <2>2 DEF NewRow
<1>2. TypeOK
  <2>1. items \in [Ids -> Store!Item \cup {None}]
    BY <1>1 DEF Init
  <2>2. at \in [Ids -> 0 .. MaxClock] /\ clock \in 0 .. MaxClock
    BY ConstantsAssumption DEF Init
  <2>3. ans \in [Requests -> Store!Told]
    <3>1. Store!NoAnswer \in Store!Told
      BY DEF Store!NoAnswer, Store!Told
    <3> QED BY <3>1 DEF Init
  <2>4. /\ pend \in [Requests -> [id : Ids, row : Store!Item] \cup {NoPend}]
        /\ copy \in [Requests -> Nat]
        /\ req \in [Requests -> Store!Request \cup {None}]
        /\ pc \in [Requests -> {"idle", "get", "name", "insert", "cas", "check", "current",
                                "commit", "done"}]
    BY DEF Init
  <2> QED BY <2>1, <2>2, <2>3, <2>4 DEF TypeOK
<1>3. ASSUME NEW r \in Requests
      PROVE  RequestFits(r) /\ ChangeFits(r) /\ PendingFits(r) /\ NameSettled(r)
  BY DEF Init, RequestFits, ChangeFits, PendingFits, NameSettled
<1>4. Apart /\ NamesAreUnique
  BY DEF Init, Apart, NamesAreUnique
<1>5. OneWinner
  <2>1. \A r \in Requests : ans[r].code # "OK"
    BY DEF Init, Store!NoAnswer
  <2> QED BY <2>1 DEF OneWinner
<1> QED BY <1>2, <1>3, <1>4, <1>5 DEF Inv

-----------------------------------------------------------------------------
(* Frames                                                                   *)

\* A request that did not move, over a table that did not change.
LEMMA OthersFit ==
  ASSUME Inv, NEW o \in Requests, UNCHANGED items,
         pc'[o] = pc[o], req'[o] = req[o], ans'[o] = ans[o], pend'[o] = pend[o], copy'[o] = copy[o]
  PROVE  RequestFits(o)' /\ ChangeFits(o)' /\ PendingFits(o)'
<1>1. RequestFits(o)'
  BY DEF Inv, RequestFits
<1>2. ChangeFits(o)'
  BY DEF Inv, ChangeFits, get_active_by_id, Live
<1>3. PendingFits(o)'
  BY DEF Inv, PendingFits, Matches, get_active_by_id, Live
<1> QED BY <1>1, <1>2, <1>3

\* Whoever does not become ready to commit unsettles no name.
LEMMA NamesStaySettled ==
  ASSUME Inv, NEW r \in Requests, UNCHANGED items, NEW n, n # "commit",
         pc' = [pc EXCEPT ![r] = n], \A o \in Requests \ {r} : pend'[o] = pend[o]
  PROVE  (\A o \in Requests : NameSettled(o))' /\ NamesAreUnique'
<1>0. pc'[r] = n /\ \A o \in Requests \ {r} : pc'[o] = pc[o]
  BY DEF Inv, TypeOK
<1>1. ASSUME NEW o \in Requests, pc'[o] = "commit" PROVE o # r /\ pc[o] = "commit"
  BY <1>0, <1>1
<1>2. ASSUME NEW o \in Requests PROVE NameSettled(o)'
  BY <1>0, <1>1, <1>2 DEF Inv, NameSettled, KeyTaken, get_active_by_name, get_active_by_id, Live, Indexed
<1>3. NamesAreUnique'
  BY DEF Inv, NamesAreUnique, KeyTaken, get_active_by_name, get_active_by_id, Live
<1> QED BY <1>2, <1>3

\* No further change has succeeded.
LEMMA WinnersStay ==
  ASSUME Inv,
         \A o \in Requests : ans'[o].code = "OK" /\ req'[o].kind \in {"update", "delete"} =>
                               ans[o].code = "OK" /\ req'[o] = req[o]
  PROVE  OneWinner'
<1> SUFFICES ASSUME NEW q \in Requests, NEW r \in Requests, q # r,
                    ans'[q].code = "OK", ans'[r].code = "OK",
                    req'[q].kind \in {"update", "delete"}, req'[r].kind \in {"update", "delete"},
                    req'[q].id = req'[r].id
             PROVE  req'[q].expected # req'[r].expected
  BY ZenonT(40) DEF OneWinner
<1>1. ans[q].code = "OK" /\ ans[r].code = "OK" /\ req'[q] = req[q] /\ req'[r] = req[r]
  OBVIOUS
<1> QED BY <1>1 DEF Inv, OneWinner

LEMMA Locks ==
  ASSUME Inv, NEW r \in Requests, NEW i \in Ids
  PROVE  RowLocked(r, i) <=> \E q \in Requests \ {r} : pend[q] # NoPend /\ pend[q].id = i
  BY ConstantsAssumption DEF Inv, TypeOK, RowLocked, NoPend

-----------------------------------------------------------------------------
(* Steps                                                                    *)

\* What a request may ask for.
Sent(q) ==
  /\ q \in Store!Request
  /\ q.kind = "create" => q.id = None /\ q.name \in Names /\ q.status \in Statuses
  /\ q.kind = "get" => q.id \in Ids
  /\ q.kind \in {"update", "delete"} => q.id \in Ids /\ q.expected # 0
  /\ q.kind = "delete" => q.name = None
  /\ q.met = Store!Met(q)
  /\ q.met # 0 => items[q.id] # None /\ q.met = items[q.id].version

LEMMA RequestsSent ==
  ASSUME Inv, NEW r \in Requests, Begin(r)
  PROVE  \E q : /\ req' = [req EXCEPT ![r] = q] /\ pc' = [pc EXCEPT ![r] = Entry(q)]
                /\ Sent(q)
<1>1. PICK p \in Requestable : /\ req' = [req EXCEPT ![r] = [p EXCEPT !.met = Store!Met(p)]]
                               /\ pc' = [pc EXCEPT ![r] = Entry(p)]
  BY DEF Begin, Goto
<1>2. /\ p \in Store!Request
      /\ p.kind = "create" => p.id = None /\ p.name \in Names /\ p.status \in Statuses
      /\ p.kind = "get" => p.id \in Ids
      /\ p.kind \in {"update", "delete"} => p.id \in Ids /\ p.expected # 0
      /\ p.kind = "delete" => p.name = None
  <2>1. CASE p \in Create
    BY <2>1 DEF Create, Store!Request, Store!Kinds
  <2>2. CASE p \in Read \cup Change
    <3>1. /\ p.kind \in {"get", "update", "delete"} /\ p.id \in Named
          /\ p.kind \in {"update", "delete"} => p.expected \in Versions
          /\ p.kind = "delete" => p.name = None
      BY <2>2 DEF Read, Change
    <3>2. Named \subseteq Ids /\ \A v \in Versions : v \in Nat /\ v # 0
      BY ConstantsAssumption DEF Versions
    <3>3. CASE p \in Read
      <4>1. p \in [kind : Store!Kinds, owner : Owners, id : Named, expected : {0}, met : {0},
                   name : {None}, status : {None}]
        BY <3>3 DEF Read, Store!Kinds
      <4> QED BY <3>1, <3>2, <4>1 DEF Store!Request
    <3>4. CASE p \in Change
      <4>1. CASE p \in [kind : {"update"}, owner : Owners, id : Named, expected : Versions,
                        met : {0}, name : Names \cup {None}, status : Statuses \cup {None}]
        <5>1. /\ p.kind \in Store!Kinds /\ p.owner \in Owners /\ p.id \in Ids \cup {None}
              /\ p.expected \in Nat /\ p.met \in Nat /\ p.name \in Names \cup {None}
              /\ p.status \in Statuses \cup {None}
          <6>1. p.expected \in Versions /\ p.id \in Named
            BY <4>1
          <6>2. /\ p.kind \in Store!Kinds /\ p.owner \in Owners /\ p.met = 0
                /\ p.name \in Names \cup {None} /\ p.status \in Statuses \cup {None}
            BY <4>1 DEF Store!Kinds
          <6> QED BY <3>2, <6>1, <6>2
        <5>2. p = [kind |-> p.kind, owner |-> p.owner, id |-> p.id, expected |-> p.expected,
                   met |-> p.met, name |-> p.name, status |-> p.status]
          BY <4>1
        <5>3. p \in Store!Request
          BY <5>1, <5>2 DEF Store!Request
        <5> QED BY <3>1, <3>2, <4>1, <5>3
      <4>2. CASE p \in [kind : {"delete"}, owner : Owners, id : Named, expected : Versions,
                        met : {0}, name : {None}, status : {None}]
        <5>1. /\ p.kind \in Store!Kinds /\ p.owner \in Owners /\ p.id \in Ids \cup {None}
              /\ p.expected \in Nat /\ p.met \in Nat /\ p.name \in Names \cup {None}
              /\ p.status \in Statuses \cup {None}
          <6>1. p.expected \in Versions /\ p.id \in Named
            BY <4>2
          <6>2. /\ p.kind \in Store!Kinds /\ p.owner \in Owners /\ p.met = 0
                /\ p.name \in Names \cup {None} /\ p.status \in Statuses \cup {None}
            BY <4>2 DEF Store!Kinds
          <6> QED BY <3>2, <6>1, <6>2
        <5>2. p = [kind |-> p.kind, owner |-> p.owner, id |-> p.id, expected |-> p.expected,
                   met |-> p.met, name |-> p.name, status |-> p.status]
          BY <4>2
        <5>3. p \in Store!Request
          BY <5>1, <5>2 DEF Store!Request
        <5> QED BY <3>1, <3>2, <4>2, <5>3
      <4> QED BY <3>4, <4>1, <4>2 DEF Change
    <3> QED BY <2>2, <3>1, <3>2, <3>3, <3>4
  <2> QED BY <1>1, <2>1, <2>2 DEF Requestable
<1> DEFINE m == Store!Met(p)
           q == [p EXCEPT !.met = m]
<1>3. m \in Nat /\ (m # 0 => items[p.id] # None /\ m = items[p.id].version)
  <2>1. CASE p.kind \in {"update", "delete"} /\ Store!Reached(p)
    BY <1>2, <2>1 DEF Store!Met, Store!Reached, Store!Active, Inv, TypeOK, Store!Item
  <2>2. CASE ~(p.kind \in {"update", "delete"} /\ Store!Reached(p))
    BY <2>2 DEF Store!Met
  <2> QED BY <2>1, <2>2
<1> HIDE DEF m
<1>4. /\ q \in Store!Request /\ q.met = m /\ q.kind = p.kind /\ q.owner = p.owner
      /\ q.id = p.id /\ q.expected = p.expected /\ q.name = p.name /\ q.status = p.status
  BY <1>2, <1>3 DEF Store!Request
<1>5. req' = [req EXCEPT ![r] = q]
  BY <1>1 DEF m
<1> HIDE DEF q
<1>6. Store!Met(q) = m /\ Entry(q) = Entry(p)
  BY <1>4 DEF Store!Met, Store!Reached, Entry, m
<1>7. Sent(q)
  BY <1>2, <1>3, <1>4, <1>6 DEF Sent
<1> QED BY <1>1, <1>5, <1>6, <1>7

LEMMA BeginKeepsInv ==
  ASSUME Inv, NEW r \in Requests, Begin(r)
  PROVE  Inv'
<1>1. PICK q : /\ req' = [req EXCEPT ![r] = q] /\ pc' = [pc EXCEPT ![r] = Entry(q)]
               /\ Sent(q)
  BY RequestsSent
<1>2. UNCHANGED <<items, at, clock, ans, pend, copy>> /\ pc[r] = "idle"
  BY DEF Begin
<1>3. /\ q \in Store!Request
      /\ q.kind = "create" => q.id = None /\ q.name \in Names /\ q.status \in Statuses
      /\ q.kind = "get" => q.id \in Ids
      /\ q.kind \in {"update", "delete"} => q.id \in Ids /\ q.expected # 0
      /\ q.met # 0 => items[q.id] # None /\ q.met = items[q.id].version
  BY <1>1 DEF Sent
<1>4. /\ Entry(q) \in {"name", "get", "cas"} /\ (Entry(q) = "name" => q.name # None)
      /\ q.kind = "create" => Entry(q) = "name"
      /\ q.kind = "get" => Entry(q) = "get"
      /\ q.kind = "update" => Entry(q) \in {"name", "cas"}
      /\ q.kind = "delete" => Entry(q) = "cas"
  BY <1>3, ConstantsAssumption DEF Entry, Store!Request, Store!Kinds
<1>5. /\ req'[r] = q /\ pc'[r] = Entry(q)
      /\ \A o \in Requests \ {r} : req'[o] = req[o] /\ pc'[o] = pc[o]
  BY <1>1 DEF Inv, TypeOK
<1>6. TypeOK'
  BY <1>1, <1>2, <1>3, <1>4 DEF Inv, TypeOK
<1>7. ans[r] = Store!NoAnswer /\ pend[r] = NoPend
  BY <1>2 DEF Inv, RequestFits, PendingFits
<1>8. RequestFits(r)'
  <2>1. q # None
    BY <1>3, NoneAssumption
  <2> QED BY <1>2, <1>3, <1>4, <1>5, <1>7, <2>1 DEF RequestFits
<1>9. ChangeFits(r)'
  <2>1. copy[r] = 0
    BY <1>2 DEF Inv, RequestFits
  <2> QED BY <1>2, <1>3, <1>4, <1>5, <1>7, <2>1 DEF ChangeFits, Inv, TypeOK, Store!Item, Store!Request, Store!NoAnswer
<1>10. PendingFits(r)'
  BY <1>2, <1>4, <1>5, <1>7 DEF PendingFits
<1>11. ASSUME NEW o \in Requests \ {r} PROVE RequestFits(o)' /\ ChangeFits(o)' /\ PendingFits(o)'
  BY <1>2, <1>5, OthersFit
<1>12. Apart'
  BY <1>2 DEF Inv, Apart
<1>13. (\A o \in Requests : NameSettled(o))' /\ NamesAreUnique'
  BY <1>1, <1>2, <1>4, NamesStaySettled
<1>14. OneWinner'
  <2>1. \A o \in Requests : ans'[o].code = "OK" => o # r
    BY <1>2, <1>7 DEF Store!NoAnswer
  <2> QED BY <1>2, <1>5, <2>1, WinnersStay
<1> QED BY <1>6, <1>8, <1>9, <1>10, <1>11, <1>12, <1>13, <1>14 DEF Inv

\* A request that ends and leaves the table alone.
LEMMA AnswerKeepsInv ==
  ASSUME Inv, NEW r \in Requests, pc[r] \notin {"idle", "done"}, NEW c, NEW v,
         [code |-> c, version |-> v] \in Store!Told, c = "OK" => req[r].kind = "get",
         Answer(r, c, v), UNCHANGED <<items, at, clock>>
  PROVE  Inv'
<1>1. /\ ans' = [ans EXCEPT ![r] = [code |-> c, version |-> v]]
      /\ pend' = [pend EXCEPT ![r] = NoPend]
      /\ pc' = [pc EXCEPT ![r] = "done"] /\ UNCHANGED <<req, copy>>
  BY DEF Answer, Goto
<1>2. /\ ans'[r].code = c /\ pend'[r] = NoPend /\ pc'[r] = "done"
      /\ \A o \in Requests \ {r} : ans'[o] = ans[o] /\ pend'[o] = pend[o] /\ pc'[o] = pc[o]
  BY <1>1 DEF Inv, TypeOK
<1>3. TypeOK'
  BY <1>1 DEF Inv, TypeOK
<1>4. RequestFits(r)'
  BY <1>1, <1>2 DEF Inv, RequestFits
<1>5. ChangeFits(r)'
  BY <1>1, <1>2 DEF Inv, ChangeFits
<1>6. PendingFits(r)'
  BY <1>2 DEF PendingFits
<1>7. ASSUME NEW o \in Requests \ {r} PROVE RequestFits(o)' /\ ChangeFits(o)' /\ PendingFits(o)'
  BY <1>1, <1>2, OthersFit
<1>8. Apart'
  BY <1>2 DEF Inv, Apart
<1>9. (\A o \in Requests : NameSettled(o))' /\ NamesAreUnique'
  BY <1>1, <1>2, NamesStaySettled
<1>10. OneWinner'
  BY <1>1, <1>2, WinnersStay
<1> QED BY <1>3, <1>4, <1>5, <1>6, <1>7, <1>8, <1>9, <1>10 DEF Inv

\* The codes that a request may be answered with.
LEMMA Answers ==
  /\ \A v \in Nat : [code |-> "OK", version |-> v] \in Store!Told
  /\ \A c \in Store!Refusals, v \in Nat : [code |-> c, version |-> v] \in Store!Told
  /\ [code |-> "INTERNAL_ERROR", version |-> 0] \in Store!Told
  BY DEF Store!Told

LEMMA GetKeepsInv ==
  ASSUME Inv, NEW r \in Requests, Get(r)
  PROVE  Inv'
<1>1. pc[r] = "get" /\ req[r].kind = "get" /\ req[r].id \in Ids
  BY DEF Get, Inv, RequestFits, Store!Request, Store!Kinds
<1>2. CASE get_active_by_id(req[r].owner, req[r].id)
  <2>1. items[req[r].id].version \in Nat
    BY <1>1, <1>2 DEF get_active_by_id, Live, Inv, TypeOK, Store!Item
  <2> QED BY <1>1, <1>2, <2>1, Answers, AnswerKeepsInv DEF Get
<1>3. CASE ~get_active_by_id(req[r].owner, req[r].id)
  BY <1>1, <1>3, Answers, AnswerKeepsInv DEF Get, Store!Refusals
<1> QED BY <1>2, <1>3

\* A step from one statement to the next that writes nothing.
LEMMA GoKeepsInv ==
  ASSUME Inv, NEW r \in Requests, NEW n, Goto(r, n), UNCHANGED <<items, at, clock, req, ans, pend>>,
         pc[r] \in {"name", "cas"}, n \in {"insert", "cas", "current"},
         RequestFits(r)', ChangeFits(r)', \A o \in Requests \ {r} : copy'[o] = copy[o],
         copy' \in [Requests -> Nat]
  PROVE  Inv'
<1>1. /\ pc' = [pc EXCEPT ![r] = n] /\ pc'[r] = n
      /\ \A o \in Requests \ {r} : pc'[o] = pc[o]
  BY DEF Goto, Inv, TypeOK
<1>2. TypeOK'
  BY <1>1 DEF Inv, TypeOK
<1>3. PendingFits(r)'
  BY <1>1 DEF Inv, PendingFits
<1>4. ASSUME NEW o \in Requests \ {r} PROVE RequestFits(o)' /\ ChangeFits(o)' /\ PendingFits(o)'
  BY <1>1, OthersFit
<1>5. Apart'
  BY DEF Inv, Apart
<1>6. (\A o \in Requests : NameSettled(o))' /\ NamesAreUnique'
  BY <1>1, NamesStaySettled
<1>7. OneWinner'
  BY WinnersStay
<1> QED BY <1>2, <1>3, <1>4, <1>5, <1>6, <1>7 DEF Inv

LEMMA SelectNameKeepsInv ==
  ASSUME Inv, NEW r \in Requests, SelectName(r)
  PROVE  Inv'
<1> DEFINE q == req[r]
           existing == get_active_by_name(q.owner, q.name)
<1>1. pc[r] = "name" /\ q \in Store!Request /\ q.kind \in {"create", "update"}
  BY DEF SelectName, Inv, RequestFits, Store!Request, Store!Kinds
<1>2. CASE existing \ {q.id} # {}
  BY <1>1, <1>2, Answers, AnswerKeepsInv DEF SelectName, Store!Refusals
<1>3. CASE existing \ {q.id} = {}
  <2> DEFINE n == IF q.kind = "create" THEN "insert" ELSE "cas"
             c == IF existing = {} THEN 0 ELSE items[q.id].version
  <2>1. /\ Goto(r, n) /\ copy' = [copy EXCEPT ![r] = c]
        /\ UNCHANGED <<items, at, clock, req, ans, pend>>
    BY <1>3 DEF SelectName
  <2>2. existing # {} => q.id \in Ids /\ items[q.id] \in Store!Item
    <3>1. existing \subseteq {i \in Ids : items[i] # None}
      BY DEF get_active_by_name, get_active_by_id, Live
    <3> QED BY <1>3, <3>1 DEF Inv, TypeOK
  <2>3. c \in Nat /\ (c # 0 => c = items[q.id].version)
    BY <2>2 DEF Store!Item
  <2>4. copy' \in [Requests -> Nat] /\ copy'[r] = c /\ \A o \in Requests \ {r} : copy'[o] = copy[o]
    BY <2>1, <2>3 DEF Inv, TypeOK
  <2>5. pc'[r] = n
    BY <2>1 DEF Goto, Inv, TypeOK
  <2>6. RequestFits(r)'
    BY <1>1, <2>1, <2>5 DEF Inv, RequestFits
  <2>7. ChangeFits(r)'
    <3>1. ChangeFits(r)
      BY DEF Inv
    <3> QED BY <1>1, <2>1, <2>3, <2>4, <2>5, <3>1 DEF ChangeFits
  <2> QED BY <1>1, <2>1, <2>4, <2>6, <2>7, GoKeepsInv
<1> QED BY <1>2, <1>3

LEMMA CurrentKeepsInv ==
  ASSUME Inv, NEW r \in Requests, Current(r)
  PROVE  Inv'
<1>1. /\ pc[r] = "current" /\ req[r] \in Store!Request /\ req[r].kind \in {"update", "delete"}
      /\ req[r].id \in Ids
  BY DEF Current, Inv, RequestFits, Store!Request, Store!Kinds
<1>2. CASE get_active_by_id(req[r].owner, req[r].id)
  <2>1. items[req[r].id].version \in Nat /\ copy[r] \in Nat
    BY <1>1, <1>2 DEF get_active_by_id, Live, Inv, TypeOK, ChangeFits, Store!Item
  <2>2. PICK v \in (IF copy[r] = 0 THEN items[req[r].id].version ELSE copy[r])
                     .. items[req[r].id].version : Answer(r, "ITEM_VERSION_CONFLICT", v)
    BY <1>2 DEF Current
  <2>3. v \in Nat
    BY <2>1, <2>2
  <2>4. UNCHANGED <<items, at, clock>>
    BY DEF Current
  <2> QED BY <1>1, <2>2, <2>3, <2>4, Answers, AnswerKeepsInv DEF Store!Refusals
<1>3. CASE ~get_active_by_id(req[r].owner, req[r].id)
  BY <1>1, <1>3, Answers, AnswerKeepsInv DEF Current, Store!Refusals
<1> QED BY <1>2, <1>3

\* A statement that has written item i, which no other transaction has.
LEMMA WriteKeeps ==
  ASSUME Inv, NEW r \in Requests, NEW i \in Ids, NEW row \in Store!Item, NEW n,
         pend' = [pend EXCEPT ![r] = [id |-> i, row |-> row]], ~RowLocked(r, i), Goto(r, n),
         UNCHANGED <<items, req, ans, copy>>
  PROVE  /\ pend' \in [Requests -> [id : Ids, row : Store!Item] \cup {NoPend}]
         /\ pend'[r] = [id |-> i, row |-> row] /\ pend'[r] # NoPend /\ pc'[r] = n
         /\ \A o \in Requests \ {r} : pend'[o] = pend[o] /\ pc'[o] = pc[o]
         /\ \A o \in Requests \ {r} : RequestFits(o)' /\ ChangeFits(o)' /\ PendingFits(o)'
         /\ Apart' /\ OneWinner'
<1>1. /\ pend' \in [Requests -> [id : Ids, row : Store!Item] \cup {NoPend}]
      /\ pend'[r] = [id |-> i, row |-> row] /\ pc'[r] = n
      /\ \A o \in Requests \ {r} : pend'[o] = pend[o] /\ pc'[o] = pc[o]
  BY DEF Inv, TypeOK, Goto
<1>2. pend'[r] # NoPend
  BY <1>1, ConstantsAssumption DEF NoPend
<1>3. \A o \in Requests \ {r} : RequestFits(o)' /\ ChangeFits(o)' /\ PendingFits(o)'
  BY <1>1, OthersFit
<1>4. Apart'
  <2>1. \A o \in Requests \ {r} : pend[o].id # i
    BY DEF RowLocked
  <2> QED BY <1>1, <2>1 DEF Inv, Apart
<1>5. OneWinner'
  BY WinnersStay
<1> QED BY <1>1, <1>2, <1>3, <1>4, <1>5

\* A row becomes ready to be committed once the index has room for it.
LEMMA ReadyIsSettled ==
  ASSUME Inv, NEW r \in Requests, NEW i, NEW row, UNCHANGED items,
         pc' = [pc EXCEPT ![r] = "commit"], pend'[r] = [id |-> i, row |-> row],
         \A o \in Requests \ {r} : pend'[o] = pend[o],
         Live(row) => ~KeyBusy(r, row.owner, row.name) /\ ~KeyTaken(i, row.owner, row.name)
  PROVE  (\A o \in Requests : NameSettled(o))' /\ NamesAreUnique'
<1>1. pc'[r] = "commit" /\ \A o \in Requests \ {r} : pc'[o] = pc[o]
  BY DEF Inv, TypeOK
<1>2. \A j, owner, name : KeyTaken(j, owner, name)' = KeyTaken(j, owner, name)
  BY DEF KeyTaken, get_active_by_name, get_active_by_id, Live
<1>3. ASSUME NEW o \in Requests \ {r}, pc[o] = "commit", Live(row)
      PROVE  ~Indexed(pend[o].row, row.owner, row.name)
  BY <1>3 DEF Inv, PendingFits, KeyBusy, HoldsKey
<1>4. NameSettled(r)'
  BY <1>1, <1>2, <1>3 DEF NameSettled, Live, Indexed
<1>5. ASSUME NEW o \in Requests \ {r} PROVE NameSettled(o)'
  <2> SUFFICES ASSUME pc[o] = "commit", Live(pend[o].row)
               PROVE  /\ ~KeyTaken(pend[o].id, pend[o].row.owner, pend[o].row.name)
                      /\ \A x \in Requests \ {o} :
                           pc'[x] = "commit" =>
                             ~Indexed(pend'[x].row, pend[o].row.owner, pend[o].row.name)
    BY <1>1, <1>2 DEF NameSettled, Live, Indexed
  <2>1. NameSettled(o)
    BY DEF Inv
  <2>2. ~Indexed(row, pend[o].row.owner, pend[o].row.name)
    BY <1>3 DEF Indexed
  <2>3. ASSUME NEW x \in Requests \ {o}, pc'[x] = "commit"
        PROVE  ~Indexed(pend'[x].row, pend[o].row.owner, pend[o].row.name)
    <3>1. CASE x = r
      BY <2>2, <3>1
    <3>2. CASE x # r
      BY <1>1, <2>1, <2>3, <3>2 DEF NameSettled
    <3> QED BY <3>1, <3>2
  <2> QED BY <2>1, <2>3 DEF NameSettled
<1>6. NamesAreUnique'
  BY DEF Inv, NamesAreUnique, KeyTaken, get_active_by_name, get_active_by_id, Live
<1> QED BY <1>4, <1>5, <1>6

LEMMA InsertKeepsInv ==
  ASSUME Inv, NEW r \in Requests, Insert(r)
  PROVE  Inv'
<1> DEFINE q == req[r]
<1>1. /\ pc[r] = "insert" /\ q \in Store!Request /\ q.kind = "create"
      /\ q.name \in Names /\ q.status \in Statuses /\ ~KeyBusy(r, q.owner, q.name)
  BY DEF Insert, Inv, RequestFits, Store!Request, Store!Kinds
<1>2. CASE KeyTaken(None, q.owner, q.name)
  BY <1>1, <1>2, Answers, AnswerKeepsInv DEF Insert, Store!Refusals
<1>3. CASE ~KeyTaken(None, q.owner, q.name)
  <2> DEFINE row == Store!Created(q)
  <2>1. PICK i \in Ids, t \in {clock, clock + 1} :
          /\ items[i] = None /\ ~RowLocked(r, i) /\ t <= MaxClock
          /\ clock' = t /\ at' = [at EXCEPT ![i] = t]
          /\ pend' = [pend EXCEPT ![r] = [id |-> i, row |-> row]]
          /\ Goto(r, "commit") /\ UNCHANGED <<req, ans, copy>>
    BY <1>3 DEF Insert
  <2>2. UNCHANGED items
    BY DEF Insert
  <2>3. /\ row \in Store!Item /\ row # None /\ Live(row)
        /\ row.owner = q.owner /\ row.name = q.name
    BY <1>1, CreatedRow
  <2> HIDE DEF row
  <2>4. /\ pend' \in [Requests -> [id : Ids, row : Store!Item] \cup {NoPend}]
        /\ pend'[r] = [id |-> i, row |-> row] /\ pend'[r] # NoPend /\ pc'[r] = "commit"
        /\ \A o \in Requests \ {r} : pend'[o] = pend[o] /\ pc'[o] = pc[o]
        /\ \A o \in Requests \ {r} : RequestFits(o)' /\ ChangeFits(o)' /\ PendingFits(o)'
        /\ Apart' /\ OneWinner'
    BY <2>1, <2>2, <2>3, WriteKeeps
  <2>5. TypeOK'
    <3>1. t \in 0 .. MaxClock
      BY <2>1 DEF Inv, TypeOK
    <3>2. at' \in [Ids -> 0 .. MaxClock] /\ clock' \in 0 .. MaxClock
      BY <2>1, <3>1 DEF Inv, TypeOK
    <3>3. pc' \in [Requests -> {"idle", "get", "name", "insert", "cas", "check", "current",
                               "commit", "done"}]
      BY <2>1 DEF Goto, Inv, TypeOK
    <3> QED BY <2>1, <2>2, <2>4, <3>2, <3>3 DEF Inv, TypeOK
  <2>6. RequestFits(r)' /\ ChangeFits(r)'
    BY <1>1, <2>1, <2>2, <2>4 DEF Inv, RequestFits, ChangeFits
  <2>7. PendingFits(r)'
    BY <1>1, <2>1, <2>2, <2>4 DEF PendingFits, row
  <2>8. (\A o \in Requests : NameSettled(o))' /\ NamesAreUnique'
    <3>1. ~KeyTaken(i, q.owner, q.name)
      BY <1>3, ConstantsAssumption DEF KeyTaken, get_active_by_name
    <3> QED BY <1>1, <2>1, <2>2, <2>3, <2>4, <3>1, ReadyIsSettled DEF Goto
  <2> QED BY <2>4, <2>5, <2>6, <2>7, <2>8 DEF Inv
<1> QED BY <1>2, <1>3

LEMMA CasKeepsInv ==
  ASSUME Inv, NEW r \in Requests, Cas(r)
  PROVE  Inv'
<1> DEFINE q == req[r]
<1>1. /\ pc[r] = "cas" /\ q \in Store!Request /\ q.kind \in {"update", "delete"}
      /\ q.id \in Ids /\ q.expected # 0 /\ (Matches(q) => items[q.id] \in Store!Item)
      /\ UNCHANGED <<items, at, clock, req, ans, copy>>
  BY DEF Cas, Inv, TypeOK, RequestFits, Matches, get_active_by_id, Live, Store!Request, Store!Kinds
<1>2. CASE Matches(q)
  <2> DEFINE row == IF q.kind = "delete" THEN Store!Deleted(items[q.id])
                                         ELSE Store!Updated(q, items[q.id])
             n == IF q.kind = "update" THEN "check" ELSE "commit"
  <2>1. /\ ~RowLocked(r, q.id) /\ Goto(r, n)
        /\ pend' = [pend EXCEPT ![r] = [id |-> q.id, row |-> row]]
    BY <1>2 DEF Cas
  <2>2. row \in Store!Item /\ (n = "commit" => ~Live(row))
    BY <1>1, <1>2, UpdatedRow, DeletedRow DEF Live
  <2>3. /\ q.kind = "update" => n = "check" /\ row = Store!Updated(q, items[q.id])
        /\ q.kind = "delete" => n = "commit" /\ row = Store!Deleted(items[q.id])
        /\ n \in {"check", "commit"}
    OBVIOUS
  <2> HIDE DEF row, n
  <2>4. /\ pend' \in [Requests -> [id : Ids, row : Store!Item] \cup {NoPend}]
        /\ pend'[r] = [id |-> q.id, row |-> row] /\ pend'[r] # NoPend /\ pc'[r] = n
        /\ \A o \in Requests \ {r} : pend'[o] = pend[o] /\ pc'[o] = pc[o]
        /\ \A o \in Requests \ {r} : RequestFits(o)' /\ ChangeFits(o)' /\ PendingFits(o)'
        /\ Apart' /\ OneWinner'
    BY <1>1, <2>1, <2>2, WriteKeeps
  <2>5. TypeOK'
    BY <1>1, <2>1, <2>3, <2>4 DEF Goto, Inv, TypeOK
  <2>6. RequestFits(r)' /\ ChangeFits(r)'
    <3>1. RequestFits(r) /\ ChangeFits(r)
      BY DEF Inv
    <3>2. RequestFits(r)'
      BY <1>1, <2>3, <2>4, <3>1 DEF RequestFits
    <3>3. ChangeFits(r)'
      BY <1>1, <2>3, <2>4, <3>1 DEF ChangeFits
    <3> QED BY <3>2, <3>3
  <2>7. PendingFits(r)'
    BY <1>1, <1>2, <2>3, <2>4 DEF PendingFits, Matches, get_active_by_id, Live
  <2>8. (\A o \in Requests : NameSettled(o))' /\ NamesAreUnique'
    <3>1. CASE n = "check"
      BY <1>1, <2>1, <2>4, <3>1, NamesStaySettled DEF Goto
    <3>2. CASE n = "commit"
      BY <1>1, <2>1, <2>2, <2>4, <3>2, ReadyIsSettled DEF Goto
    <3> QED BY <2>3, <3>1, <3>2
  <2> QED BY <2>4, <2>5, <2>6, <2>7, <2>8 DEF Inv
<1>3. CASE ~Matches(q)
  <2>1. Goto(r, "current") /\ UNCHANGED pend /\ pc'[r] = "current"
    BY <1>3 DEF Cas, Goto, Inv, TypeOK
  <2>2. RequestFits(r)'
    BY <1>1, <2>1 DEF Inv, RequestFits
  <2>3. get_active_by_id(q.owner, q.id) => q.expected # items[q.id].version
    BY <1>3 DEF Matches
  <2>4. ChangeFits(r)'
    BY <1>1, <2>1, <2>3 DEF Inv, ChangeFits, get_active_by_id, Live
  <2>5. copy' \in [Requests -> Nat]
    BY <1>1 DEF Inv, TypeOK
  <2> QED BY <1>1, <2>1, <2>2, <2>4, <2>5, GoKeepsInv
<1> QED BY <1>2, <1>3

LEMMA CheckNameKeepsInv ==
  ASSUME Inv, NEW r \in Requests, CheckName(r)
  PROVE  Inv'
<1> DEFINE row == pend[r].row
<1>1. pc[r] = "check" /\ req[r].kind = "update" /\ pend[r] # NoPend /\ ~KeyBusy(r, row.owner, row.name)
  BY DEF CheckName, Inv, RequestFits, PendingFits, Store!Request, Store!Kinds
<1>2. CASE KeyTaken(pend[r].id, row.owner, row.name)
  BY <1>1, <1>2, Answers, AnswerKeepsInv DEF CheckName, Store!Refusals
<1>3. CASE ~KeyTaken(pend[r].id, row.owner, row.name)
  <2>1. /\ pc' = [pc EXCEPT ![r] = "commit"]
        /\ UNCHANGED <<items, at, clock, req, ans, pend, copy>>
    BY <1>3 DEF CheckName, Goto
  <2>2. pc'[r] = "commit" /\ \A o \in Requests \ {r} : pc'[o] = pc[o]
    BY <2>1 DEF Inv, TypeOK
  <2>3. TypeOK'
    BY <2>1 DEF Inv, TypeOK
  <2>4. RequestFits(r)'
    BY <1>1, <2>1, <2>2 DEF Inv, RequestFits
  <2>5. ChangeFits(r)'
    BY <1>1, <2>1, <2>2 DEF Inv, ChangeFits
  <2>6. PendingFits(r)'
    BY <1>1, <2>1, <2>2 DEF Inv, PendingFits, Matches, get_active_by_id, Live
  <2>7. ASSUME NEW o \in Requests \ {r} PROVE RequestFits(o)' /\ ChangeFits(o)' /\ PendingFits(o)'
    BY <2>1, <2>2, OthersFit
  <2>8. Apart' /\ OneWinner'
    BY <2>1 DEF Inv, Apart, OneWinner
  <2>9. (\A o \in Requests : NameSettled(o))' /\ NamesAreUnique'
    <3>1. pend[r] = [id |-> pend[r].id, row |-> pend[r].row]
      BY <1>1 DEF Inv, TypeOK
    <3> QED BY <1>1, <1>3, <2>1, <3>1, ReadyIsSettled
  <2> QED BY <2>3, <2>4, <2>5, <2>6, <2>7, <2>8, <2>9 DEF Inv
<1> QED BY <1>2, <1>3

\* The row that is about to be committed.
LEMMA ReadyRow ==
  ASSUME Inv, NEW r \in Requests, pc[r] = "commit"
  PROVE  LET i == pend[r].id
             row == pend[r].row IN
         /\ pend[r] # NoPend /\ i \in Ids /\ row \in Store!Item /\ row # None
         /\ req[r] \in Store!Request
         /\ \/ req[r].kind = "create" /\ items[i] = None
            \/ /\ req[r].kind \in {"update", "delete"} /\ i = req[r].id /\ items[i] \in Store!Item
               /\ Live(items[i]) /\ items[i].owner = req[r].owner
               /\ items[i].version = req[r].expected
               /\ row.version = items[i].version + 1 /\ row.owner = items[i].owner
<1>1. /\ pend[r] # NoPend /\ pend[r].id \in Ids /\ pend[r].row \in Store!Item
      /\ req[r] \in Store!Request /\ req[r].kind \in {"create", "update", "delete"}
  BY DEF Inv, TypeOK, PendingFits, RequestFits, Store!Request, Store!Kinds
<1>2. pend[r].row # None
  BY <1>1, NoneAssumption
<1>3. CASE req[r].kind = "create"
  BY <1>1, <1>2, <1>3 DEF Inv, PendingFits
<1>4. CASE req[r].kind \in {"update", "delete"}
  <2>1. /\ pend[r].id = req[r].id /\ Matches(req[r])
        /\ \/ pend[r].row = Store!Updated(req[r], items[req[r].id])
           \/ pend[r].row = Store!Deleted(items[req[r].id])
    BY <1>1, <1>4 DEF Inv, PendingFits
  <2>2. /\ Live(items[req[r].id]) /\ items[req[r].id].owner = req[r].owner
        /\ items[req[r].id].version = req[r].expected /\ items[req[r].id] \in Store!Item
    BY <1>1, <2>1 DEF Matches, get_active_by_id, Live, Inv, TypeOK
  <2>3. /\ pend[r].row.version = items[req[r].id].version + 1
        /\ pend[r].row.owner = items[req[r].id].owner
    <3>1. CASE pend[r].row = Store!Updated(req[r], items[req[r].id])
      BY <1>1, <2>2, <3>1, UpdatedRow
    <3>2. CASE pend[r].row = Store!Deleted(items[req[r].id])
      BY <2>2, <3>2, DeletedRow
    <3> QED BY <2>1, <3>1, <3>2
  <2> QED BY <1>1, <1>2, <1>4, <2>1, <2>2, <2>3
<1> QED BY <1>1, <1>3, <1>4

LEMMA PublishKeepsInv ==
  ASSUME Inv, NEW r \in Requests, pc[r] = "commit",
         items' = [items EXCEPT ![pend[r].id] = pend[r].row],
         NEW c, NEW v, [code |-> c, version |-> v] \in Store!Told,
         Answer(r, c, v), UNCHANGED <<at, clock>>
  PROVE  Inv'
<1> DEFINE i == pend[r].id
           row == pend[r].row
<1>1. /\ ans' = [ans EXCEPT ![r] = [code |-> c, version |-> v]]
      /\ pend' = [pend EXCEPT ![r] = NoPend]
      /\ pc' = [pc EXCEPT ![r] = "done"] /\ UNCHANGED <<req, copy>>
  BY DEF Answer, Goto
<1>2. /\ ans'[r].code = c /\ pend'[r] = NoPend /\ pc'[r] = "done"
      /\ \A o \in Requests \ {r} : ans'[o] = ans[o] /\ pend'[o] = pend[o] /\ pc'[o] = pc[o]
  BY <1>1 DEF Inv, TypeOK
<1>3. /\ pend[r] # NoPend /\ i \in Ids /\ row \in Store!Item /\ row # None
      /\ req[r] \in Store!Request
      /\ \/ req[r].kind = "create" /\ items[i] = None
         \/ /\ req[r].kind \in {"update", "delete"} /\ i = req[r].id /\ items[i] \in Store!Item
            /\ Live(items[i]) /\ items[i].owner = req[r].owner
            /\ items[i].version = req[r].expected
            /\ row.version = items[i].version + 1 /\ row.owner = items[i].owner
  BY ReadyRow
<1>4. items'[i] = row /\ \A j \in Ids \ {i} : items'[j] = items[j]
  BY <1>3 DEF Inv, TypeOK
<1>5. NameSettled(r) /\ NamesAreUnique
  BY DEF Inv
<1>6. TypeOK'
  <2>1. items' \in [Ids -> Store!Item \cup {None}]
    BY <1>3 DEF Inv, TypeOK
  <2> QED BY <1>1, <2>1 DEF Inv, TypeOK
<1> HIDE DEF i, row
<1>7. \A o \in Requests : RequestFits(o)'
  <2>1. RequestFits(r)'
    BY <1>1, <1>2 DEF Inv, RequestFits
  <2>2. ASSUME NEW o \in Requests \ {r} PROVE RequestFits(o)'
    BY <1>1, <1>2 DEF Inv, RequestFits
  <2> QED BY <2>1, <2>2
<1>8. \A o \in Requests : ChangeFits(o)'
  <2> SUFFICES ASSUME NEW o \in Requests, ChangeFits(o), pc[o] # "idle",
                      req[o].kind \in {"update", "delete"}
               PROVE  /\ req[o].met # 0 =>
                           items'[req[o].id] # None /\ req[o].met <= items'[req[o].id].version
                      /\ copy[o] # 0 => req[o].met <= copy[o]
                      /\ pc'[o] = "current" /\ get_active_by_id(req[o].owner, req[o].id)' =>
                           \/ req[o].expected # items'[req[o].id].version
                           \/ req[o].expected # req[o].met
                      /\ ans'[o].code = "OK" =>
                           /\ items'[req[o].id] # None
                           /\ req[o].expected < items'[req[o].id].version
    BY <1>1, <1>2 DEF ChangeFits, Inv, get_active_by_id
  <2>1. req[o].id \in Ids /\ req[o].expected \in Nat \ {0} /\ req[o].met \in Nat
    BY DEF Inv, RequestFits, Store!Request
  <2>2. CASE req[o].id = i
    <3>1. /\ items'[i] # None /\ items'[i].version \in Nat
          /\ items[i] # None =>
               items[i].version \in Nat /\ items'[i].version = items[i].version + 1
      BY <1>3, <1>4 DEF Store!Item
    <3>2. /\ req[o].met # 0 => items[i] # None /\ req[o].met <= items[i].version
          /\ copy[o] # 0 => req[o].met <= copy[o]
      BY <2>2 DEF ChangeFits
    <3>3. /\ req[o].met # 0 => req[o].met < items'[i].version
          /\ req[o].expected # items'[i].version \/ req[o].expected # req[o].met
      BY <2>1, <3>1, <3>2
    <3>4. ans'[o].code = "OK" => req[o].expected < items'[i].version
      <4>1. CASE o = r
        <5>1. items[i] \in Store!Item /\ items[i].version = req[o].expected
          BY <1>3, <4>1
        <5> QED BY <2>1, <3>1, <5>1, NoneAssumption
      <4>2. CASE o # r
        <5>1. ans'[o] = ans[o]
          BY <1>2, <4>2
        <5> QED BY <2>1, <2>2, <3>1, <5>1 DEF ChangeFits
      <4> QED BY <4>1, <4>2
    <3>5. req[o].met # 0 => req[o].met <= items'[i].version
      BY <2>1, <3>1, <3>3
    <3> QED BY <2>2, <3>1, <3>2, <3>3, <3>4, <3>5
  <2>3. CASE req[o].id # i
    <3>1. o # r
      BY <1>3, <2>3
    <3>2. items'[req[o].id] = items[req[o].id] /\ pc'[o] = pc[o] /\ ans'[o] = ans[o]
      BY <1>2, <1>4, <2>1, <2>3, <3>1
    <3>3. get_active_by_id(req[o].owner, req[o].id)' => get_active_by_id(req[o].owner, req[o].id)
      BY <1>1, <3>2 DEF get_active_by_id, Live
    <3> QED BY <2>1, <3>2, <3>3 DEF ChangeFits
  <2> QED BY <2>2, <2>3
<1>9. \A o \in Requests : PendingFits(o)'
  <2>1. PendingFits(r)'
    BY <1>2 DEF PendingFits
  <2>2. ASSUME NEW o \in Requests \ {r} PROVE PendingFits(o)'
    <3>1. PendingFits(o)
      BY DEF Inv
    <3>2. pend[o] # NoPend => pend[o].id \in Ids \ {i}
      BY <1>3 DEF Inv, TypeOK, Apart, i
    <3> QED BY <1>1, <1>2, <1>4, <3>1, <3>2 DEF PendingFits, Matches, get_active_by_id, Live
  <2> QED BY <2>1, <2>2
<1>10. Apart'
  BY <1>2 DEF Inv, Apart
<1>11. ASSUME NEW j \in Ids \ {i}, Live(row), Live(items[j])
       PROVE  ~(items[j].owner = row.owner /\ items[j].name = row.name)
  BY <1>5, <1>11 DEF NameSettled, KeyTaken, get_active_by_name, get_active_by_id, i, row
<1>12. NamesAreUnique'
  <2> SUFFICES ASSUME NEW j \in Ids, Live(items'[j]), NEW k \in Ids \ {j}, Live(items'[k]),
                      items'[j].owner = items'[k].owner, items'[j].name = items'[k].name
               PROVE  FALSE
    BY DEF NamesAreUnique, KeyTaken, get_active_by_name, get_active_by_id, Live
  <2>1. CASE j = i
    BY <1>4, <1>11, <2>1
  <2>2. CASE k = i
    BY <1>4, <1>11, <2>2
  <2>3. CASE j # i /\ k # i
    BY <1>4, <1>5, <2>3 DEF NamesAreUnique, KeyTaken, get_active_by_name, get_active_by_id
  <2> QED BY <2>1, <2>2, <2>3
<1>13. \A o \in Requests : NameSettled(o)'
  <2> SUFFICES ASSUME NEW o \in Requests, pc'[o] = "commit", Live(pend'[o].row)
               PROVE  /\ ~KeyTaken(pend[o].id, pend[o].row.owner, pend[o].row.name)'
                      /\ \A q \in Requests \ {o} : pc'[q] = "commit" =>
                           ~Indexed(pend'[q].row, pend'[o].row.owner, pend'[o].row.name)
    BY DEF NameSettled, Live, Indexed
  <2>1. o # r /\ pc[o] = "commit" /\ pend'[o] = pend[o] /\ NameSettled(o)
    BY <1>2 DEF Inv
  <2>2. ~Indexed(row, pend[o].row.owner, pend[o].row.name)
    BY <2>1 DEF NameSettled, row
  <2>3. ~KeyTaken(pend[o].id, pend[o].row.owner, pend[o].row.name)
    BY <2>1 DEF NameSettled
  <2>4. ~KeyTaken(pend[o].id, pend[o].row.owner, pend[o].row.name)'
    <3> SUFFICES ASSUME NEW j \in Ids, j # pend[o].id, Live(items'[j]),
                        items'[j].owner = pend[o].row.owner, items'[j].name = pend[o].row.name
                 PROVE  FALSE
      BY <2>1 DEF KeyTaken, get_active_by_name, get_active_by_id, Live
    <3>1. CASE j = i
      BY <1>4, <2>2, <3>1 DEF Indexed
    <3>2. CASE j # i
      BY <1>4, <2>3, <3>2 DEF KeyTaken, get_active_by_name, get_active_by_id
    <3> QED BY <3>1, <3>2
  <2>5. ASSUME NEW q \in Requests \ {o}, pc'[q] = "commit"
        PROVE  ~Indexed(pend'[q].row, pend'[o].row.owner, pend'[o].row.name)
    BY <1>2, <2>1, <2>5 DEF NameSettled
  <2> QED BY <2>4, <2>5
<1>14. OneWinner'
  <2>1. ASSUME NEW o \in Requests \ {r}, ans[o].code = "OK", req[o].kind \in {"update", "delete"},
               req[r].kind \in {"update", "delete"}, req[o].id = req[r].id
        PROVE  req[o].expected # req[r].expected
    <3>1. pc[o] # "idle" /\ req[o].expected \in Nat
      <4>1. RequestFits(o)
        BY DEF Inv
      <4>2. pc[o] = "done"
        BY <2>1, <4>1 DEF RequestFits, Store!NoAnswer
      <4> QED BY <4>1, <4>2 DEF RequestFits, Store!Request
    <3>2. req[o].expected < items[req[o].id].version
      BY <2>1, <3>1 DEF Inv, ChangeFits
    <3> QED BY <1>3, <2>1, <3>1, <3>2
  <2> SUFFICES ASSUME NEW q \in Requests, NEW o \in Requests, q # o,
                      ans'[q].code = "OK", ans'[o].code = "OK",
                      req'[q].kind \in {"update", "delete"}, req'[o].kind \in {"update", "delete"},
                      req'[q].id = req'[o].id
               PROVE  req'[q].expected # req'[o].expected
    BY DEF OneWinner
  <2>2. CASE q = r
    BY <1>1, <1>2, <2>1, <2>2
  <2>3. CASE o = r
    BY <1>1, <1>2, <2>1, <2>3
  <2>4. CASE q # r /\ o # r
    <3>1. ans[q].code = "OK" /\ ans[o].code = "OK"
      BY <1>2, <2>4
    <3> QED BY <1>1, <3>1 DEF Inv, OneWinner
  <2> QED BY <2>2, <2>3, <2>4
<1> QED BY <1>6, <1>7, <1>8, <1>9, <1>10, <1>12, <1>13, <1>14 DEF Inv

LEMMA CommitKeepsInv ==
  ASSUME Inv, NEW r \in Requests, Commit(r)
  PROVE  Inv'
<1>1. pc[r] = "commit" /\ pend[r].row.version \in Nat
  BY ReadyRow DEF Commit, Store!Item
<1> QED BY <1>1, Answers, PublishKeepsInv DEF Commit, Publish

LEMMA FailKeepsInv ==
  ASSUME Inv, NEW r \in Requests, Fail(r)
  PROVE  Inv'
<1>1. CASE UNCHANGED items
  BY <1>1, Answers, AnswerKeepsInv DEF Fail
<1>2. CASE pc[r] = "commit" /\ Publish(pend[r].id, pend[r].row)
  BY <1>2, Answers, PublishKeepsInv DEF Fail, Publish
<1> QED BY <1>1, <1>2 DEF Fail, listing

\* Lists only read the table.
LEMMA ListKeepsInv ==
  ASSUME Inv, UNCHANGED <<items, at, clock, request>>
  PROVE  Inv'
<1>1. UNCHANGED <<items, at, clock, pc, req, ans, pend, copy>>
  BY DEF request
<1>2. TypeOK' /\ Apart' /\ OneWinner'
  BY <1>1 DEF Inv, TypeOK, Apart, OneWinner
<1>3. \A o \in Requests : RequestFits(o)' /\ ChangeFits(o)' /\ PendingFits(o)'
  BY <1>1, OthersFit
<1>4. (\A o \in Requests : NameSettled(o))' /\ NamesAreUnique'
  BY <1>1 DEF Inv, NameSettled, NamesAreUnique, KeyTaken, get_active_by_name, get_active_by_id,
              Live, Indexed
<1> QED BY <1>2, <1>3, <1>4 DEF Inv

LEMMA Invariance == Spec => []Inv
<1>1. ASSUME Inv, [Next]_vars PROVE Inv'
  <2>1. ASSUME NEW r \in Requests, Begin(r) \/ Step(r) \/ Fail(r) PROVE Inv'
    BY <1>1, <2>1, BeginKeepsInv, GetKeepsInv, SelectNameKeepsInv, InsertKeepsInv, CasKeepsInv,
       CheckNameKeepsInv, CurrentKeepsInv, CommitKeepsInv, FailKeepsInv DEF Step
  <2>2. ASSUME NEW l \in Lists, BeginList(l) \/ RefuseList(l) \/ NextPage(l) PROVE Inv'
    BY <1>1, <2>2, ListKeepsInv DEF BeginList, RefuseList, NextPage
  <2>3. CASE UNCHANGED vars
    BY <1>1, <2>3, ListKeepsInv DEF vars
  <2> QED BY <1>1, <2>1, <2>2, <2>3 DEF Next
<1> QED BY InitInv, <1>1, PTL DEF Spec

-----------------------------------------------------------------------------
(* Refinement                                                               *)

\* The two modules mean the same by an active item and a name that is taken.
LEMMA SameWords ==
  /\ \A i \in Ids : Store!Active(i) <=> Live(items[i])
  /\ \A i, owner, name : Store!Taken(owner, name, i) <=> KeyTaken(i, owner, name)
  /\ \A r \in Requests : Store!Addressed(r) <=> get_active_by_id(req[r].owner, req[r].id)
<1>1. \A i : Store!Active(i) <=> Live(items[i])
  BY DEF Store!Active, Live
<1>2. \A i, owner, name : Store!Taken(owner, name, i) <=> KeyTaken(i, owner, name)
  BY <1>1 DEF Store!Taken, KeyTaken, get_active_by_name, get_active_by_id
<1> QED BY <1>1, <1>2 DEF Store!Addressed, Store!Reached, get_active_by_id

LEMMA InitRefines == Init => Store!Init
<1> SUFFICES ASSUME Init PROVE Store!Init
  OBVIOUS
<1>1. Inv
  BY InitInv
<1>2. \A i \in Ids : Store!Active(i) => ~Store!Taken(items[i].owner, items[i].name, i)
  BY <1>1, SameWords DEF Inv, NamesAreUnique
<1> QED BY <1>1, <1>2 DEF Init, Inv, TypeOK, Store!Init

LEMMA BeginRefines == ASSUME Inv, NEW r \in Requests, Begin(r) PROVE Store!Send(r)
<1>1. req[r] = None /\ ans[r] = Store!NoAnswer
  BY DEF Begin, Inv, RequestFits
<1>2. PICK q : req' = [req EXCEPT ![r] = q] /\ Sent(q)
  BY RequestsSent
<1>3. req'[r] = q
  BY <1>2 DEF Inv, TypeOK
<1>4. q \in Store!Request /\ q.met = Store!Met(q)
  BY <1>2 DEF Sent
<1> QED BY <1>1, <1>2, <1>3, <1>4 DEF Begin, Store!Send

\* A request that ends is answered once.
LEMMA AnswerRefines ==
  ASSUME Inv, NEW r \in Requests, pc[r] \notin {"idle", "done"}, NEW c, NEW v, Answer(r, c, v)
  PROVE  /\ Store!Answer(r, c, v) /\ req[r] # None /\ req[r] \in Store!Request
         /\ ans'[r].version = v
<1>1. ans[r] = Store!NoAnswer /\ req[r] # None /\ req[r] \in Store!Request
  BY DEF Inv, RequestFits
<1>2. ans'[r].version = v
  BY DEF Answer, Inv, TypeOK
<1> QED BY <1>1, <1>2 DEF Answer, Store!Answer

LEMMA RefusalRefines ==
  ASSUME Inv, NEW r \in Requests, pc[r] \notin {"idle", "done"}, NEW c \in Store!Refusals, NEW v,
         Answer(r, c, v), UNCHANGED items, Store!MayRefuse(r, c, v)
  PROVE  Store!Refuse(r)
  BY AnswerRefines DEF Store!Refuse

LEMMA GetRefines == ASSUME Inv, NEW r \in Requests, Get(r) PROVE Store!Read(r) \/ Store!Refuse(r)
<1>1. pc[r] = "get" /\ req[r].kind = "get"
  BY DEF Get, Inv, RequestFits, Store!Request, Store!Kinds
<1>2. CASE get_active_by_id(req[r].owner, req[r].id)
  BY <1>1, <1>2, SameWords, AnswerRefines DEF Get, Store!Read
<1>3. CASE ~get_active_by_id(req[r].owner, req[r].id)
  <2>1. Store!MayRefuse(r, "ITEM_NOT_FOUND", 0)
    BY <1>1, <1>3, SameWords DEF Store!MayRefuse
  <2> QED BY <1>1, <1>3, <2>1, RefusalRefines DEF Get, Store!Refusals
<1> QED BY <1>2, <1>3

LEMMA NameRefusalRefines ==
  ASSUME Inv, NEW r \in Requests, pc[r] \notin {"idle", "done"},
         req[r].kind \in {"create", "update"}, KeyTaken(req[r].id, req[r].owner, req[r].name),
         Answer(r, "ITEM_NAME_CONFLICT", 0), UNCHANGED items
  PROVE  Store!Refuse(r)
<1>1. Store!MayRefuse(r, "ITEM_NAME_CONFLICT", 0)
  BY SameWords DEF Store!MayRefuse
<1> QED BY <1>1, RefusalRefines DEF Store!Refusals

LEMMA SelectNameRefines ==
  ASSUME Inv, NEW r \in Requests, SelectName(r)
  PROVE  Store!Refuse(r) \/ UNCHANGED <<items, req, ans>>
<1>1. pc[r] = "name" /\ req[r].kind \in {"create", "update"}
  BY DEF SelectName, Inv, RequestFits, Store!Request, Store!Kinds
<1>2. CASE KeyTaken(req[r].id, req[r].owner, req[r].name)
  BY <1>1, <1>2, NameRefusalRefines DEF SelectName, KeyTaken
<1>3. CASE ~KeyTaken(req[r].id, req[r].owner, req[r].name)
  BY <1>3 DEF SelectName, KeyTaken
<1> QED BY <1>2, <1>3

LEMMA InsertRefines ==
  ASSUME Inv, NEW r \in Requests, Insert(r)
  PROVE  Store!Refuse(r) \/ UNCHANGED <<items, req, ans>>
<1>1. pc[r] = "insert" /\ req[r].kind = "create" /\ req[r].id = None
  BY DEF Insert, Inv, RequestFits, Store!Request, Store!Kinds
<1>2. CASE KeyTaken(None, req[r].owner, req[r].name)
  BY <1>1, <1>2, NameRefusalRefines DEF Insert
<1>3. CASE ~KeyTaken(None, req[r].owner, req[r].name)
  BY <1>3 DEF Insert
<1> QED BY <1>2, <1>3

\* Only a name that the request gives can be taken: the one the item has is its
\* own by the unique index.
LEMMA CheckNameRefines ==
  ASSUME Inv, NEW r \in Requests, CheckName(r)
  PROVE  Store!Refuse(r) \/ UNCHANGED <<items, req, ans>>
<1> DEFINE row == pend[r].row
           old == items[req[r].id]
<1>1. /\ pc[r] = "check" /\ req[r].kind = "update" /\ req[r] \in Store!Request
      /\ pend[r].id = req[r].id /\ Matches(req[r]) /\ row = Store!Updated(req[r], old)
      /\ req[r].id \in Ids
  BY DEF CheckName, Inv, RequestFits, ChangeFits, PendingFits, Store!Request, Store!Kinds
<1>2. Live(old) /\ old.owner = req[r].owner /\ old \in Store!Item
  BY <1>1 DEF Matches, get_active_by_id, Live, Inv, TypeOK
<1>3. row.owner = req[r].owner /\ row.name = Store!Given(req[r].name, old.name)
  BY <1>1, <1>2, UpdatedRow
<1>4. CASE KeyTaken(pend[r].id, row.owner, row.name)
  <2>1. row.name = req[r].name
    <3>1. ~KeyTaken(req[r].id, old.owner, old.name)
      BY <1>1, <1>2 DEF Inv, NamesAreUnique
    <3>2. row.name # old.name
      BY <1>1, <1>2, <1>3, <1>4, <3>1
    <3> QED BY <1>3, <3>2 DEF Store!Given
  <2> QED BY <1>1, <1>3, <1>4, <2>1, NameRefusalRefines DEF CheckName
<1>5. CASE ~KeyTaken(pend[r].id, row.owner, row.name)
  BY <1>5 DEF CheckName
<1> QED BY <1>4, <1>5

LEMMA CurrentRefines == ASSUME Inv, NEW r \in Requests, Current(r) PROVE Store!Refuse(r)
<1>1. /\ pc[r] = "current" /\ req[r].kind \in {"update", "delete"} /\ req[r] \in Store!Request
      /\ UNCHANGED items
  BY DEF Current, Inv, RequestFits, Store!Request, Store!Kinds
<1>2. CASE get_active_by_id(req[r].owner, req[r].id)
  <2> DEFINE now == items[req[r].id].version
  <2>1. /\ now \in Nat \ {0} /\ copy[r] \in Nat /\ req[r].met \in Nat /\ req[r].met <= now
        /\ copy[r] # 0 => req[r].met <= copy[r]
        /\ req[r].expected # now \/ req[r].expected # req[r].met
    <3>1. req[r].id \in Ids /\ req[r].met \in Nat
      BY <1>1 DEF Inv, RequestFits, Store!Request
    <3>2. now \in Nat \ {0} /\ copy[r] \in Nat
      BY <1>2, <3>1 DEF get_active_by_id, Live, Inv, TypeOK, Store!Item
    <3>3. ChangeFits(r)
      BY DEF Inv
    <3> QED BY <1>1, <1>2, <3>1, <3>2, <3>3 DEF ChangeFits
  <2>2. PICK v \in (IF copy[r] = 0 THEN now ELSE copy[r]) .. now :
          Answer(r, "ITEM_VERSION_CONFLICT", v)
    BY <1>2 DEF Current
  <2>3. v \in 1 .. now /\ req[r].met <= v
    BY <2>1, <2>2
  <2>4. Store!MayRefuse(r, "ITEM_VERSION_CONFLICT", v)
    BY <1>1, <1>2, <2>1, <2>3, SameWords DEF Store!MayRefuse
  <2> QED BY <1>1, <2>2, <2>4, RefusalRefines DEF Store!Refusals
<1>3. CASE ~get_active_by_id(req[r].owner, req[r].id)
  <2>1. Store!MayRefuse(r, "ITEM_NOT_FOUND", 0)
    BY <1>1, <1>3, SameWords DEF Store!MayRefuse
  <2> QED BY <1>1, <1>3, <2>1, RefusalRefines DEF Current, Store!Refusals
<1> QED BY <1>2, <1>3

\* What a commit publishes is what the request alone would have written then.
LEMMA PublishRefines ==
  ASSUME Inv, NEW r \in Requests, pc[r] = "commit", Publish(pend[r].id, pend[r].row),
         Answer(r, "OK", pend[r].row.version) \/ Answer(r, "INTERNAL_ERROR", 0)
  PROVE  Store!Write(r)
<1> DEFINE i == pend[r].id
           row == pend[r].row
<1>1. /\ pend[r] # NoPend /\ i \in Ids /\ req[r] \in Store!Request
      /\ \/ req[r].kind = "create" /\ items[i] = None
         \/ /\ req[r].kind \in {"update", "delete"} /\ i = req[r].id /\ items[i] \in Store!Item
            /\ Live(items[i]) /\ items[i].owner = req[r].owner
            /\ items[i].version = req[r].expected
  BY ReadyRow
<1>2. row = Store!Outcome(r, i)
  <2>1. PendingFits(r)
    BY DEF Inv
  <2> QED BY <1>1, <2>1 DEF PendingFits, Store!Outcome
<1>3. Store!MayWrite(r, i)
  <2>1. CASE req[r].kind = "create"
    <3>1. Live(row) /\ row.owner = req[r].owner /\ row.name = req[r].name
      BY <1>1, <2>1, CreatedRow DEF Inv, RequestFits, PendingFits
    <3>2. ~KeyTaken(i, req[r].owner, req[r].name)
      BY <3>1 DEF Inv, NameSettled
    <3> QED BY <1>1, <2>1, <3>2, SameWords DEF Store!MayWrite
  <2>2. CASE req[r].kind = "update"
    <3>1. row = Store!Updated(req[r], items[i])
      BY <1>1, <2>2 DEF Inv, PendingFits
    <3>2. row.owner = req[r].owner /\ row.name = Store!Given(req[r].name, items[i].name) /\ Live(row)
      BY <1>1, <2>2, <3>1, UpdatedRow DEF Live
    <3>3. req[r].name # None => ~KeyTaken(i, req[r].owner, req[r].name)
      BY <3>2 DEF Inv, NameSettled, Store!Given
    <3>4. get_active_by_id(req[r].owner, req[r].id)
      BY <1>1, <2>2 DEF get_active_by_id
    <3> QED BY <1>1, <2>2, <3>3, <3>4, SameWords DEF Store!MayWrite
  <2>3. CASE req[r].kind = "delete"
    <3>1. get_active_by_id(req[r].owner, req[r].id)
      BY <1>1, <2>3 DEF get_active_by_id
    <3> QED BY <1>1, <2>3, <3>1, SameWords DEF Store!MayWrite
  <2> QED BY <1>1, <2>1, <2>2, <2>3
<1>4. items' = [items EXCEPT ![i] = row] /\ req[r] # None
  BY DEF Publish, Inv, RequestFits
<1>5. Store!Answer(r, "OK", row.version) \/ Store!Answer(r, "INTERNAL_ERROR", 0)
  BY AnswerRefines
<1> QED BY <1>1, <1>2, <1>3, <1>4, <1>5 DEF Store!Write

LEMMA StepRefines == ASSUME Inv, [Next]_vars PROVE [Store!Next]_(Store!store)
<1>1. ASSUME NEW r \in Requests, Begin(r) \/ Step(r) \/ Fail(r)
      PROVE  Store!Next \/ UNCHANGED <<items, req, ans>>
  <2>1. CASE Begin(r)
    BY <2>1, BeginRefines DEF Store!Next
  <2>2. CASE Get(r)
    BY <2>2, GetRefines DEF Store!Next
  <2>3. CASE SelectName(r)
    BY <2>3, SelectNameRefines DEF Store!Next
  <2>4. CASE Insert(r)
    BY <2>4, InsertRefines DEF Store!Next
  <2>5. CASE Cas(r)
    BY <2>5 DEF Cas
  <2>6. CASE CheckName(r)
    BY <2>6, CheckNameRefines DEF Store!Next
  <2>7. CASE Current(r)
    BY <2>7, CurrentRefines DEF Store!Next
  <2>8. CASE Commit(r)
    BY <2>8, PublishRefines DEF Commit, Store!Next
  <2>9. CASE Fail(r)
    <3>1. CASE UNCHANGED items
      BY <2>9, <3>1, AnswerRefines DEF Fail, Store!Break, Store!Next
    <3>2. CASE pc[r] = "commit" /\ Publish(pend[r].id, pend[r].row)
      BY <2>9, <3>2, PublishRefines DEF Fail, Store!Next
    <3> QED BY <2>9, <3>1, <3>2 DEF Fail, listing
  <2> QED BY <1>1, <2>1, <2>2, <2>3, <2>4, <2>5, <2>6, <2>7, <2>8, <2>9 DEF Step
<1>2. ASSUME NEW l \in Lists, BeginList(l) \/ RefuseList(l) \/ NextPage(l)
      PROVE  UNCHANGED <<items, req, ans>>
  BY <1>2 DEF BeginList, RefuseList, NextPage, request
<1>3. CASE UNCHANGED vars
  BY <1>3 DEF vars, request, Store!store
<1> QED BY <1>1, <1>2, <1>3 DEF Next, Store!store

-----------------------------------------------------------------------------
(* Theorems                                                                 *)

\* Every variable keeps its type (models/item.py, item_repository.py).
THEOREM TypeCorrect == Spec => []TypeOK
  BY Invariance, PTL DEF Inv

\* However the statements of concurrent requests interleave and fail, the
\* service answers and changes the table as if each request were one step
\* (item_service.py over item_repository.py).
THEOREM ServiceImplementsStore == Spec => Implements
  BY Invariance, InitRefines, StepRefines, PTL DEF Spec, Implements, Store!Spec

\* No owner ever has two active items of one name
\* (index uq_items_owner_name_active).
THEOREM NamesStayUnique == Spec => []NamesAreUnique
  BY Invariance, PTL DEF Inv

\* Of the changes sent with one version of an item at most one succeeds, for
\* any number of requests (update_cas, soft_delete_cas).
THEOREM AtMostOneWins == Spec => []OneWinner
  BY Invariance, PTL DEF Inv

\* A committed row is never lost and never goes back: whatever step changes it
\* finds it active, keeps its owner and counts its version up by one, so a row
\* that is deleted stays as it is (update_cas, soft_delete_cas).
THEOREM RowsMoveForward ==
  Spec => [][\A i \in Ids : items[i] # None /\ items'[i] # items[i] =>
               /\ Live(items[i]) /\ items'[i] # None
               /\ items'[i].owner = items[i].owner
               /\ items'[i].version = items[i].version + 1]_vars
<1> DEFINE Forward ==
      \A i \in Ids : items[i] # None /\ items'[i] # items[i] =>
        /\ Live(items[i]) /\ items'[i] # None
        /\ items'[i].owner = items[i].owner
        /\ items'[i].version = items[i].version + 1
<1>1. ASSUME Inv, [Next]_vars, NEW i \in Ids, items[i] # None, items'[i] # items[i]
      PROVE  /\ Live(items[i]) /\ items'[i] # None
             /\ items'[i].owner = items[i].owner
             /\ items'[i].version = items[i].version + 1
  <2>1. PICK r \in Requests : pc[r] = "commit" /\ Publish(pend[r].id, pend[r].row)
    BY <1>1 DEF Next, Step, Begin, Get, SelectName, Insert, Cas, CheckName, Current, Commit, Fail,
                BeginList, RefuseList, NextPage, vars
  <2> DEFINE p == pend[r].id
             row == pend[r].row
  <2>2. /\ p \in Ids /\ row # None
        /\ items[p] = None \/ /\ Live(items[p]) /\ row.owner = items[p].owner
                              /\ row.version = items[p].version + 1
    BY <1>1, <2>1, ReadyRow
  <2>3. items' = [items EXCEPT ![p] = row]
    BY <2>1 DEF Publish
  <2> HIDE DEF p, row
  <2>4. i = p /\ items'[i] = row
    BY <1>1, <2>2, <2>3 DEF Inv, TypeOK
  <2> QED BY <1>1, <2>2, <2>4
<1>2. Inv /\ [Next]_vars => [Forward]_vars
  BY <1>1
<1> QED BY <1>2, Invariance, PTL DEF Spec

-----------------------------------------------------------------------------
(* Waiting                                                                  *)

\* Update a renames its item to the name that the item of change b has, which
\* expects no later version than its client can have read: once both have
\* written, a waits for b.
Follows(a, b) ==
  /\ ~Guesses(b)
  /\ {pc[a], pc[b]} \subseteq {"cas", "check"} /\ req[a].name # None
  /\ req[a].id # req[b].id /\ Matches(req[b])
  /\ Indexed(items[req[b].id], req[a].owner, req[a].name)

\* Of any requests some follows none of them.
Acyclic == \A S \in SUBSET Requests : S # {} => \E a \in S : \A b \in S : ~Follows(a, b)

\* A change that is about to write, or has, addresses an item of the table.
LEMMA ChangesAddress ==
  ASSUME Inv, NEW b \in Requests, pc[b] \in {"cas", "check"}
  PROVE  /\ req[b] \in Store!Request /\ req[b].kind \in {"update", "delete"} /\ req[b].id \in Ids
         /\ Matches(req[b]) => items[req[b].id] \in Store!Item
         /\ ~Guesses(b) => /\ items[req[b].id] \in Store!Item
                           /\ req[b].expected <= items[req[b].id].version
<1>1. /\ req[b] \in Store!Request /\ req[b].kind \in {"update", "delete"} /\ req[b].id \in Ids
      /\ req[b].expected # 0
  BY DEF Inv, RequestFits, Store!Request, Store!Kinds
<1>2. Matches(req[b]) => items[req[b].id] \in Store!Item
  BY <1>1 DEF Matches, get_active_by_id, Live, Inv, TypeOK
<1>3. ASSUME ~Guesses(b)
      PROVE  items[req[b].id] \in Store!Item /\ req[b].expected <= items[req[b].id].version
  <2>1. /\ req[b].met # 0 =>
             items[req[b].id] # None /\ req[b].met <= items[req[b].id].version
    BY <1>1 DEF Inv, ChangeFits
  <2>2. req[b].expected <= req[b].met /\ req[b].met # 0
    BY <1>1, <1>3 DEF Guesses, Store!Request
  <2>3. items[req[b].id] \in Store!Item
    BY <1>1, <2>1, <2>2 DEF Inv, TypeOK
  <2> QED BY <1>1, <2>1, <2>2, <2>3 DEF Store!Request, Store!Item
<1> QED BY <1>1, <1>2, <1>3

\* Two requests that do not move, over the same row, follow each other only as
\* before.
LEMMA EdgesRest ==
  ASSUME NEW a \in Requests, NEW b \in Requests, Follows(a, b)',
         pc'[a] \in {"cas", "check"} => pc[a] \in {"cas", "check"},
         pc'[b] \in {"cas", "check"} => pc[b] \in {"cas", "check"},
         req'[a] = req[a], req'[b] = req[b], items'[req[b].id] = items[req[b].id]
  PROVE  Follows(a, b)
  BY DEF Follows, Guesses, Matches, get_active_by_id, Indexed, Live

LEMMA FewerEdges ==
  ASSUME Acyclic, \A a, b \in Requests : Follows(a, b)' => Follows(a, b)
  PROVE  Acyclic'
  BY DEF Acyclic

\* Whoever joins without following anybody closes no circle.
LEMMA LastToJoin ==
  ASSUME Acyclic, NEW r \in Requests, \A b \in Requests : ~Follows(r, b)',
         \A a, b \in Requests \ {r} : Follows(a, b)' => Follows(a, b)
  PROVE  Acyclic'
<1> SUFFICES ASSUME NEW S \in SUBSET Requests, S # {}
             PROVE  \E a \in S : \A b \in S : ~Follows(a, b)'
  BY DEF Acyclic
<1>1. CASE r \in S
  BY <1>1
<1>2. CASE r \notin S
  <2>1. PICK a \in S : \A b \in S : ~Follows(a, b)
    BY DEF Acyclic
  <2>2. ASSUME NEW b \in S PROVE ~Follows(a, b)'
    <3>1. a \in Requests \ {r} /\ b \in Requests \ {r}
      BY <1>2
    <3> QED BY <2>1, <3>1
  <2> QED BY <2>2
<1> QED BY <1>1, <1>2

\* A request that goes elsewhere, while the table stays as it is.
LEMMA LeaverKeepsAcyclic ==
  ASSUME Inv, Acyclic, NEW r \in Requests, UNCHANGED <<items, req>>, NEW n,
         pc' = [pc EXCEPT ![r] = n], n \notin {"cas", "check"}
  PROVE  Acyclic'
<1>1. pc'[r] = n /\ \A o \in Requests \ {r} : pc'[o] = pc[o]
  BY DEF Inv, TypeOK
<1>2. \A b \in Requests : ~Follows(r, b)'
  BY <1>1 DEF Follows
<1>3. \A a, b \in Requests \ {r} : Follows(a, b)' => Follows(a, b)
  BY <1>1, EdgesRest
<1> QED BY <1>2, <1>3, LastToJoin

LEMMA BeginKeepsAcyclic ==
  ASSUME Inv, Acyclic, NEW r \in Requests, Begin(r)
  PROVE  Acyclic'
<1>1. PICK q : /\ req' = [req EXCEPT ![r] = q] /\ pc' = [pc EXCEPT ![r] = Entry(q)]
               /\ Sent(q)
  BY RequestsSent
<1>2. UNCHANGED items
  BY DEF Begin
<1>3. /\ req'[r] = q /\ pc'[r] = Entry(q)
      /\ \A o \in Requests \ {r} : req'[o] = req[o] /\ pc'[o] = pc[o]
  BY <1>1 DEF Inv, TypeOK
<1>4. Entry(q) \in {"cas", "check"} => q.name = None
  BY <1>1 DEF Sent, Entry, Store!Request, Store!Kinds
<1>5. \A b \in Requests : ~Follows(r, b)'
  BY <1>3, <1>4 DEF Follows
<1>6. \A a, b \in Requests \ {r} : Follows(a, b)' => Follows(a, b)
  BY <1>2, <1>3, EdgesRest
<1> QED BY <1>5, <1>6, LastToJoin

\* The SELECT by name found no other item that has the name.
LEMMA SelectNameKeepsAcyclic ==
  ASSUME Inv, Acyclic, NEW r \in Requests, SelectName(r)
  PROVE  Acyclic'
<1> DEFINE existing == get_active_by_name(req[r].owner, req[r].name)
<1>1. UNCHANGED <<items, req>>
  BY DEF SelectName, Answer
<1>2. CASE existing \ {req[r].id} # {}
  <2>1. pc' = [pc EXCEPT ![r] = "done"]
    BY <1>2 DEF SelectName, Answer, Goto
  <2> QED BY <1>1, <2>1, LeaverKeepsAcyclic
<1>3. CASE existing \ {req[r].id} = {}
  <2>1. PICK n : pc' = [pc EXCEPT ![r] = n]
    BY <1>3 DEF SelectName, Goto
  <2>2. \A o \in Requests \ {r} : pc'[o] = pc[o]
    BY <2>1 DEF Inv, TypeOK
  <2>3. ASSUME NEW b \in Requests, Follows(r, b)' PROVE FALSE
    <3>1. /\ b # r /\ req[b].id # req[r].id /\ pc[b] \in {"cas", "check"}
          /\ Live(items[req[b].id]) /\ items[req[b].id].owner = req[r].owner
          /\ items[req[b].id].name = req[r].name
      BY <1>1, <2>2, <2>3 DEF Follows, Indexed, Live
    <3>2. req[b].id \in Ids
      BY <3>1, ChangesAddress
    <3>3. req[b].id \in existing \ {req[r].id}
      BY <3>1, <3>2 DEF get_active_by_name, get_active_by_id
    <3> QED BY <1>3, <3>3
  <2>4. \A a, b \in Requests \ {r} : Follows(a, b)' => Follows(a, b)
    BY <1>1, <2>2, EdgesRest
  <2> QED BY <2>3, <2>4, LastToJoin
<1> QED BY <1>2, <1>3

\* The commit of a change leaves behind every change that was sent with the
\* version before.
LEMMA PublishKeepsAcyclic ==
  ASSUME Inv, Acyclic, NEW r \in Requests, pc[r] = "commit", Publish(pend[r].id, pend[r].row),
         UNCHANGED req, pc' = [pc EXCEPT ![r] = "done"]
  PROVE  Acyclic'
<1> DEFINE p == pend[r].id
           row == pend[r].row
<1>1. /\ p \in Ids /\ row \in Store!Item
      /\ items[p] = None \/ (items[p] \in Store!Item /\ row.version = items[p].version + 1)
  BY ReadyRow
<1>2. items' = [items EXCEPT ![p] = row]
  BY DEF Publish
<1> HIDE DEF p, row
<1>3. items'[p] = row /\ \A i \in Ids \ {p} : items'[i] = items[i]
  BY <1>1, <1>2 DEF Inv, TypeOK
<1>4. pc'[r] = "done" /\ \A o \in Requests \ {r} : pc'[o] = pc[o]
  BY DEF Inv, TypeOK
<1>5. \A b \in Requests : ~Follows(r, b)'
  BY <1>4 DEF Follows
<1>6. ASSUME NEW a \in Requests \ {r}, NEW b \in Requests \ {r}, Follows(a, b)'
      PROVE  Follows(a, b)
  <2>1. /\ pc[b] \in {"cas", "check"} /\ items'[req[b].id].version = req[b].expected
        /\ ~Guesses(b)
    BY <1>4, <1>6 DEF Follows, Guesses, Matches
  <2>2. /\ req[b].id \in Ids /\ items[req[b].id] \in Store!Item /\ req[b].expected \in Nat
        /\ req[b].expected <= items[req[b].id].version
    BY <2>1, ChangesAddress DEF Store!Request
  <2>3. req[b].id # p
    <3> SUFFICES ASSUME req[b].id = p PROVE FALSE
      OBVIOUS
    <3>1. items[p] # None
      BY <2>2, NoneAssumption
    <3>2. row.version = items[p].version + 1 /\ row.version = req[b].expected
      BY <1>1, <1>3, <2>1, <3>1
    <3>3. items[p].version \in Nat
      BY <1>1, <3>1 DEF Store!Item
    <3> QED BY <2>2, <3>2, <3>3
  <2> QED BY <1>3, <1>4, <1>6, <2>2, <2>3, EdgesRest
<1> QED BY <1>5, <1>6, LastToJoin

LEMMA Acyclicity == Spec => []Acyclic
<1>1. Init => Acyclic
  BY DEF Init, Acyclic, Follows
<1>2. ASSUME Inv, Acyclic, [Next]_vars PROVE Acyclic'
  <2>1. ASSUME NEW r \in Requests, Get(r) \/ Insert(r) \/ CheckName(r) \/ Current(r) PROVE Acyclic'
    <3>1. UNCHANGED <<items, req>> /\ \E n \in {"done", "commit"} : pc' = [pc EXCEPT ![r] = n]
      BY <2>1 DEF Get, Insert, CheckName, Current, Answer, Goto
    <3> QED BY <1>2, <3>1, LeaverKeepsAcyclic
  <2>2. ASSUME NEW r \in Requests, Cas(r) PROVE Acyclic'
    <3>1. pc[r] = "cas" /\ UNCHANGED <<items, req>> /\ \A o \in Requests \ {r} : pc'[o] = pc[o]
      BY <1>2, <2>2 DEF Cas, Goto, Inv, TypeOK
    <3>2. \A a, b \in Requests : Follows(a, b)' => Follows(a, b)
      BY <3>1, EdgesRest
    <3> QED BY <1>2, <3>2, FewerEdges
  <2>3. ASSUME NEW r \in Requests, Commit(r) \/ Fail(r) PROVE Acyclic'
    <3>1. UNCHANGED req /\ pc' = [pc EXCEPT ![r] = "done"]
      BY <2>3 DEF Commit, Fail, Answer, Goto
    <3>2. \/ UNCHANGED items
          \/ pc[r] = "commit" /\ Publish(pend[r].id, pend[r].row)
      BY <2>3 DEF Commit, Fail
    <3> QED BY <1>2, <3>1, <3>2, LeaverKeepsAcyclic, PublishKeepsAcyclic
  <2>4. ASSUME NEW l \in Lists, BeginList(l) \/ RefuseList(l) \/ NextPage(l)
        PROVE  UNCHANGED <<items, pc, req>>
    BY <2>4 DEF BeginList, RefuseList, NextPage, request
  <2>5. CASE UNCHANGED <<items, pc, req>>
    <3>1. \A a, b \in Requests : Follows(a, b)' => Follows(a, b)
      BY <2>5, EdgesRest
    <3> QED BY <1>2, <3>1, FewerEdges
  <2> QED BY <1>2, <2>1, <2>2, <2>3, <2>4, <2>5, BeginKeepsAcyclic, SelectNameKeepsAcyclic
          DEF Next, Step, vars, request
<1> QED BY <1>1, <1>2, Invariance, PTL DEF Spec

\* Of two updates that have written, the one that waits for the other's name
\* follows it.
LEMMA WaitsForFollowed ==
  ASSUME Inv, NEW a \in Requests, NEW b \in Requests, pc[a] = "check", pc[b] = "check",
         WaitsFor(a, b), ~Guesses(b)
  PROVE  Follows(a, b)
<1> DEFINE row == pend[a].row
<1>1. a # b /\ pend[b] # NoPend /\ Indexed(items[pend[b].id], row.owner, row.name)
  BY DEF WaitsFor, HoldsKey
<1>2. req[b].kind = "update" /\ req[a].kind = "update"
  BY DEF Inv, RequestFits, Store!Request, Store!Kinds
<1>3. /\ pend[a] # NoPend /\ pend[a].id = req[a].id /\ Matches(req[a])
      /\ row = Store!Updated(req[a], items[req[a].id])
      /\ pend[b].id = req[b].id /\ Matches(req[b])
  BY <1>1, <1>2 DEF Inv, PendingFits
<1>4. /\ req[a] \in Store!Request /\ req[a].id \in Ids /\ items[req[a].id] \in Store!Item
      /\ req[b].id \in Ids
  BY <1>2, <1>3, ChangesAddress
<1>5. req[a].id # req[b].id
  BY <1>1, <1>3 DEF Inv, Apart
<1>6. /\ row.owner = req[a].owner
      /\ row.name = IF req[a].name = None THEN items[req[a].id].name ELSE req[a].name
  BY <1>3, <1>4, UpdatedRow DEF Matches, get_active_by_id, Store!Given
<1>7. Indexed(items[req[b].id], row.owner, row.name)
  BY <1>1, <1>3
<1> HIDE DEF row
<1>8. req[a].name # None
  <2> SUFFICES ASSUME req[a].name = None PROVE FALSE
    OBVIOUS
  <2>1. /\ Live(items[req[a].id]) /\ items[req[a].id].owner = row.owner
        /\ items[req[a].id].name = row.name
    BY <1>3, <1>6 DEF Matches, get_active_by_id
  <2>2. req[b].id \in get_active_by_name(row.owner, row.name) \ {req[a].id}
    BY <1>4, <1>5, <1>7 DEF Indexed, get_active_by_name, get_active_by_id
  <2>3. ~KeyTaken(req[a].id, row.owner, row.name)
    BY <1>4, <2>1 DEF Inv, NamesAreUnique
  <2> QED BY <2>2, <2>3 DEF KeyTaken
<1> QED BY <1>3, <1>5, <1>6, <1>7, <1>8 DEF Follows

\* Requests wait for each other in a circle only if one of them expects a
\* version that its item did not have when it was sent, however many requests
\* there are.  The SELECT by name at the head of an update is what prevents the
\* other circles of renames (ItemService.update_item,
\* ItemRepository.update_cas).
THEOREM CirclesNeedGuesses == Spec => []DeadlockNeedsGuess
<1>1. ASSUME Inv, Acyclic, NEW S \in (SUBSET Requests) \ {{}},
             \A r \in S : \E q \in S : WaitsFor(r, q), \A r \in S : ~Guesses(r)
      PROVE  FALSE
  <2> DEFINE T == {r \in S : pc[r] = "check"}
  <2>1. ASSUME NEW r \in S, NEW q \in S, WaitsFor(r, q)
        PROVE  q \in T
    <3>1. pend[q] # NoPend
      <4>1. pc[r] = "cas" => req[r].id \in Ids
        BY <1>1, ChangesAddress
      <4> QED BY <2>1, <4>1, ConstantsAssumption DEF WaitsFor, HoldsKey, NoPend
    <3>2. pc[q] \in {"check", "commit"}
      BY <1>1, <3>1 DEF Inv, PendingFits
    <3>3. \E p \in S : WaitsFor(q, p)
      BY <1>1
    <3> QED BY <3>2, <3>3 DEF WaitsFor
  <2>2. T # {}
    BY <1>1, <2>1
  <2>3. ASSUME NEW a \in T PROVE \E b \in T : Follows(a, b)
    <3>1. PICK b \in S : WaitsFor(a, b)
      BY <1>1
    <3>2. b \in T
      BY <2>1, <3>1
    <3> QED BY <1>1, <3>1, <3>2, WaitsForFollowed
  <2> HIDE DEF T
  <2>4. T \in SUBSET Requests
    BY DEF T
  <2> QED BY <1>1, <2>2, <2>3, <2>4 DEF Acyclic
<1>2. Inv /\ Acyclic => DeadlockNeedsGuess
  BY <1>1 DEF DeadlockNeedsGuess
<1> QED BY <1>2, Invariance, Acyclicity, PTL

-----------------------------------------------------------------------------
(* Lists                                                                    *)

ListTypes ==
  /\ list \in [Lists -> [owner : Owners \cup {None}, status : Statuses \cup {None}, limit : Nat,
                         cursor : Ids \cup {None},
                         phase : {"idle", "first", "more", "done", "refused"}]]
  /\ seen \in [Lists -> [Ids -> Nat]]
  /\ whole \in [Lists -> SUBSET Ids]

\* What a client meets and what it is owed have been inserted, so their dates
\* do not change any more.
Dated(l) ==
  /\ \A i \in Ids : seen[l][i] # 0 => items[i] # None
  /\ \A i \in whole[l] : items[i] # None

\* The cursor splits the list: what was met is not beyond it, and what the
\* client is owed has been met or is.
Splits(l) ==
  LET c == list[l].cursor IN
  /\ c \in Ids /\ items[c] # None
  /\ \A i \in Ids : seen[l][i] # 0 => ~Precedes(c, i)
  /\ \A i \in whole[l] : Matching(items[i], l) /\ (seen[l][i] # 0 \/ Precedes(c, i))

ListFits(l) ==
  /\ Dated(l)
  /\ \A i \in Ids : seen[l][i] <= 1
  /\ list[l].phase \in {"idle", "first", "refused"} =>
       list[l].cursor = None /\ whole[l] = {} /\ \A i \in Ids : seen[l][i] = 0
  /\ list[l].phase \in {"first", "more"} => list[l].limit > 0
  /\ list[l].phase = "more" => Splits(l)
  /\ list[l].phase = "done" => \A i \in whole[l] : seen[l][i] # 0

ListInv == ListTypes /\ \A l \in Lists : ListFits(l)

\* ORDER BY created_at DESC, id DESC is a strict total order of the items.
LEMMA TotalOrder ==
  ASSUME TypeOK
  PROVE  /\ \A i \in Ids : ~Precedes(i, i)
         /\ \A i, j \in Ids : i # j => Precedes(i, j) \/ Precedes(j, i)
         /\ \A i, j \in Ids : Precedes(i, j) => ~Precedes(j, i)
         /\ \A i, j, k \in Ids : Precedes(i, j) /\ Precedes(j, k) => Precedes(i, k)
<1>1. \A i \in Ids : i \in Nat /\ at[i] \in Nat
  BY ConstantsAssumption DEF TypeOK
<1> QED BY <1>1 DEF Precedes

\* The items of S that come before i.
Before(S, i) == {j \in S : Precedes(j, i)}

\* An item has fewer items before it than one that comes later.
LEMMA RanksGrow ==
  ASSUME TypeOK, NEW S \in SUBSET Ids, NEW i \in S
  PROVE  /\ Cardinality(Before(S, i)) \in Nat
         /\ Cardinality(Before(S, i)) <= Cardinality(S) - 1
         /\ Cardinality(S) \in Nat
         /\ \A j \in S : Precedes(i, j) => Cardinality(Before(S, i)) < Cardinality(Before(S, j))
<1>1. IsFiniteSet(S) /\ Cardinality(S) \in Nat
  BY ConstantsAssumption, FS_Subset, FS_CardinalityType
<1>2. Before(S, i) \subseteq S \ {i}
  BY TotalOrder DEF Before
<1>3. IsFiniteSet(S \ {i}) /\ Cardinality(S \ {i}) = Cardinality(S) - 1
  BY <1>1, FS_RemoveElement
<1>4. Cardinality(Before(S, i)) \in Nat /\ Cardinality(Before(S, i)) <= Cardinality(S \ {i})
  BY <1>2, <1>3, FS_Subset, FS_CardinalityType
<1>5. ASSUME NEW j \in S, Precedes(i, j)
      PROVE  Cardinality(Before(S, i)) < Cardinality(Before(S, j))
  <2>1. Before(S, i) \subseteq Before(S, j)
    BY <1>5, TotalOrder DEF Before
  <2>2. i \in Before(S, j) /\ i \notin Before(S, i)
    BY <1>5, TotalOrder DEF Before
  <2>3. IsFiniteSet(Before(S, j)) /\ Cardinality(Before(S, j)) \in Nat
    <3>1. Before(S, j) \in SUBSET S
      BY DEF Before
    <3> QED BY <1>1, <3>1, FS_Subset, FS_CardinalityType
  <2>4. /\ Cardinality(Before(S, i)) <= Cardinality(Before(S, j))
        /\ Cardinality(Before(S, j)) # Cardinality(Before(S, i))
    BY <2>1, <2>2, <2>3, FS_Subset
  <2> QED BY <1>4, <2>3, <2>4
<1> QED BY <1>1, <1>3, <1>4, <1>5

\* A set of items has a first and a last one: no two have the same number of
\* items before them, so by the pigeonhole principle every number occurs.
LEMMA FirstAndLast ==
  ASSUME TypeOK, NEW S \in SUBSET Ids, S # {}
  PROVE  /\ \E i \in S : Cardinality(Before(S, i)) = 0
         /\ \E i \in S : \A j \in S \ {i} : Precedes(j, i)
<1> DEFINE n == Cardinality(S)
           rank == [i \in S |-> Cardinality(Before(S, i))]
<1>1. IsFiniteSet(S) /\ n \in Nat /\ n # 0
  BY ConstantsAssumption, FS_Subset, FS_CardinalityType, FS_EmptySet
<1>2. \A i \in S : rank[i] \in Nat /\ rank[i] <= n - 1
  BY RanksGrow
<1>3. \A i, j \in S : i # j => rank[i] # rank[j]
  <2> SUFFICES ASSUME NEW i \in S, NEW j \in S, Precedes(i, j) PROVE rank[i] # rank[j]
    BY TotalOrder
  <2>1. Cardinality(Before(S, i)) \in Nat /\ Cardinality(Before(S, j)) \in Nat
    BY RanksGrow
  <2>2. Cardinality(Before(S, i)) < Cardinality(Before(S, j))
    BY RanksGrow
  <2> QED BY <2>1, <2>2
<1>4. ASSUME NEW T, IsFiniteSet(T), Cardinality(T) < n, rank \in [S -> T] PROVE FALSE
  <2> HIDE DEF rank
  <2>1. \E i, j \in S : i # j /\ rank[i] = rank[j]
    BY <1>1, <1>4, FS_PigeonHole
  <2> QED BY <1>3, <2>1
<1>5. \E i \in S : rank[i] = 0
  <2> SUFFICES ASSUME \A i \in S : rank[i] # 0 PROVE FALSE
    OBVIOUS
  <2>1. \A i \in S : rank[i] \in 1 .. n - 1
    BY <1>1, <1>2
  <2>2. IsFiniteSet(1 .. n - 1) /\ Cardinality(1 .. n - 1) < n
    <3>1. n - 1 \in Int /\ (n - 1) - 1 + 1 < n /\ 0 < n
      BY <1>1
    <3> HIDE DEF n
    <3>2. /\ IsFiniteSet(1 .. n - 1)
          /\ Cardinality(1 .. n - 1) = IF 1 > n - 1 THEN 0 ELSE (n - 1) - 1 + 1
      BY <3>1, FS_Interval
    <3> QED BY <3>1, <3>2
  <2>3. rank \in [S -> 1 .. n - 1]
    BY <2>1
  <2> QED BY <1>4, <2>2, <2>3
<1>6. \E i \in S : rank[i] = n - 1
  <2> SUFFICES ASSUME \A i \in S : rank[i] # n - 1 PROVE FALSE
    OBVIOUS
  <2>1. \A i \in S : rank[i] \in 0 .. n - 2
    BY <1>1, <1>2
  <2>2. IsFiniteSet(0 .. n - 2) /\ Cardinality(0 .. n - 2) < n
    <3>1. n - 2 \in Int /\ (n - 2) - 0 + 1 < n /\ 0 < n
      BY <1>1
    <3> HIDE DEF n
    <3>2. /\ IsFiniteSet(0 .. n - 2)
          /\ Cardinality(0 .. n - 2) = IF 0 > n - 2 THEN 0 ELSE (n - 2) - 0 + 1
      BY <3>1, FS_Interval
    <3> QED BY <3>1, <3>2
  <2>3. rank \in [S -> 0 .. n - 2]
    BY <2>1
  <2> QED BY <1>4, <2>2, <2>3
<1>7. \E i \in S : \A j \in S \ {i} : Precedes(j, i)
  <2>1. PICK i \in S : rank[i] = n - 1
    BY <1>6
  <2>2. Before(S, i) \subseteq S \ {i}
    BY TotalOrder DEF Before
  <2>3. IsFiniteSet(S \ {i}) /\ Cardinality(S \ {i}) = n - 1
    BY <1>1, FS_RemoveElement
  <2>4. Before(S, i) = S \ {i}
    BY <2>1, <2>2, <2>3, FS_Subset
  <2> QED BY <2>4 DEF Before
<1> QED BY <1>5, <1>7

\* The page that a statement with this limit takes of the rows, and the item the
\* next cursor names.
PageOf(rows, limit) == {i \in rows : Cardinality(Before(rows, i)) < limit}
LastOf(page) == CHOOSE i \in page : \A j \in page \ {i} : Precedes(j, i)

\* A page that takes all rows is all there is.
LEMMA WholePage ==
  ASSUME TypeOK, NEW rows \in SUBSET Ids, NEW limit \in Nat, Cardinality(rows) <= limit
  PROVE  PageOf(rows, limit) = rows
<1>1. ASSUME NEW i \in rows PROVE Cardinality(Before(rows, i)) < limit
  <2>1. /\ Cardinality(Before(rows, i)) \in Nat /\ Cardinality(rows) \in Nat
        /\ Cardinality(Before(rows, i)) <= Cardinality(rows) - 1
    BY RanksGrow
  <2> QED BY <2>1
<1> QED BY <1>1 DEF PageOf

\* Otherwise its last item separates it from the rows it does not take.
LEMMA CutPage ==
  ASSUME TypeOK, NEW rows \in SUBSET Ids, NEW limit \in Nat, limit > 0, Cardinality(rows) > limit
  PROVE  LET page == PageOf(rows, limit)
             last == LastOf(page) IN
         /\ last \in page
         /\ \A i \in page : ~Precedes(last, i)
         /\ \A i \in rows \ page : Precedes(last, i)
<1> DEFINE page == PageOf(rows, limit)
           last == LastOf(page)
<1>1. page \in SUBSET Ids /\ page \subseteq rows
  BY DEF PageOf
<1>2. rows # {}
  BY FS_EmptySet
<1>3. PICK first \in rows : Cardinality(Before(rows, first)) = 0
  BY <1>2, FirstAndLast
<1>4. first \in page
  BY <1>3 DEF PageOf
<1> HIDE DEF page
<1>5. \E i \in page : \A j \in page \ {i} : Precedes(j, i)
  BY <1>1, <1>4, FirstAndLast
<1>6. last \in page /\ \A j \in page \ {last} : Precedes(j, last)
  BY <1>5 DEF LastOf
<1> HIDE DEF last
<1>7. ASSUME NEW i \in page PROVE ~Precedes(last, i)
  BY <1>1, <1>6, TotalOrder
<1>8. ASSUME NEW i \in rows \ page PROVE Precedes(last, i)
  <2>1. last \in rows /\ Cardinality(Before(rows, last)) < limit
    BY <1>1, <1>6 DEF page, PageOf
  <2>2. ~(Cardinality(Before(rows, i)) < limit)
    BY <1>8 DEF page, PageOf
  <2>3. Cardinality(Before(rows, i)) \in Nat /\ Cardinality(Before(rows, last)) \in Nat
    BY <2>1, RanksGrow
  <2>4. Precedes(i, last) => Cardinality(Before(rows, i)) < Cardinality(Before(rows, last))
    BY <2>1, RanksGrow
  <2>5. ~Precedes(i, last)
    BY <2>1, <2>2, <2>3, <2>4
  <2>6. i # last /\ i \in Ids /\ last \in Ids
    BY <1>6, <2>1
  <2> QED BY <2>5, <2>6, TotalOrder
<1> QED BY <1>6, <1>7, <1>8 DEF page, last

\* No list is under way at first.
LEMMA ListInit == Init => ListInv
<1> SUFFICES ASSUME Init PROVE ListInv
  OBVIOUS
<1>1. ListTypes
  <2>1. [owner |-> None, status |-> None, limit |-> 0, cursor |-> None, phase |-> "idle"]
          \in [owner : Owners \cup {None}, status : Statuses \cup {None}, limit : Nat,
               cursor : Ids \cup {None}, phase : {"idle", "first", "more", "done", "refused"}]
    OBVIOUS
  <2> QED BY <2>1 DEF Init, ListTypes
<1>2. ASSUME NEW l \in Lists PROVE ListFits(l)
  BY DEF Init, ListFits, Dated
<1> QED BY <1>1, <1>2 DEF ListInv

\* Between two pages rows are inserted and changed: what a list has met and is
\* owed stays on its side of the cursor.
LEMMA ListsRest ==
  ASSUME Inv, ListInv, NEW l \in Lists, list'[l] = list[l], seen'[l] = seen[l],
         \A i \in Ids : items[i] # None => items'[i] # None /\ at'[i] = at[i],
         whole'[l] \subseteq whole[l],
         \A i \in whole'[l] : Matching(items[i], l) => Matching(items[i], l)'
  PROVE  ListFits(l)'
<1>0. ListTypes /\ ListFits(l) /\ whole[l] \subseteq Ids
  BY DEF ListInv, ListTypes
<1>1. Dated(l)'
  BY <1>0 DEF Dated, ListFits
<1>2. ASSUME Splits(l) PROVE Splits(l)'
  <2> DEFINE c == list[l].cursor
  <2>1. c \in Ids /\ items[c] # None /\ items'[c] # None /\ list'[l].cursor = c
    BY <1>2 DEF Splits
  <2>2. \A i \in Ids : items[i] # None => (Precedes(c, i)' <=> Precedes(c, i))
    BY <2>1 DEF Precedes
  <2>3. \A i \in Ids : seen'[l][i] # 0 => ~Precedes(c, i)'
    BY <1>0, <1>2, <2>2 DEF ListFits, Dated, Splits
  <2>4. ASSUME NEW i \in whole'[l]
        PROVE  Matching(items[i], l)' /\ (seen'[l][i] # 0 \/ Precedes(c, i)')
    <3>1. i \in whole[l] /\ i \in Ids /\ items[i] # None
      BY <1>0 DEF ListFits, Dated
    <3>2. Matching(items[i], l) /\ (seen[l][i] # 0 \/ Precedes(c, i))
      BY <1>2, <3>1 DEF Splits
    <3> QED BY <2>2, <3>1, <3>2
  <2> QED BY <2>1, <2>3, <2>4 DEF Splits
<1> QED BY <1>0, <1>1, <1>2 DEF ListFits

\* A commit leaves a list what still matches its filter.
LEMMA PublishKeepsLists ==
  ASSUME Inv, ListInv, NEW r \in Requests, pc[r] = "commit", Publish(pend[r].id, pend[r].row),
         UNCHANGED at
  PROVE  ListInv'
<1> DEFINE p == pend[r].id
           row == pend[r].row
<1>1. p \in Ids /\ row # None
  BY ReadyRow
<1>2. /\ items' = [items EXCEPT ![p] = row] /\ UNCHANGED <<list, seen>>
      /\ whole' = [l \in Lists |-> IF Matching(row, l) THEN whole[l] ELSE whole[l] \ {p}]
  BY DEF Publish
<1> HIDE DEF p, row
<1>3. items'[p] = row /\ \A i \in Ids \ {p} : items'[i] = items[i]
  BY <1>1, <1>2 DEF Inv, TypeOK
<1>4. ListTypes'
  BY <1>2 DEF ListInv, ListTypes
<1>5. ASSUME NEW l \in Lists PROVE ListFits(l)'
  <2>1. whole'[l] = IF Matching(row, l) THEN whole[l] ELSE whole[l] \ {p}
    BY <1>2
  <2>2. ASSUME NEW i \in whole'[l], Matching(items[i], l) PROVE Matching(items[i], l)'
    <3>1. i \in Ids /\ (i = p => Matching(row, l))
      BY <2>1 DEF ListInv, ListTypes
    <3>2. CASE i = p
      <4>1. items'[i] = row
        BY <1>3, <3>2
      <4> QED BY <1>2, <3>1, <3>2, <4>1 DEF Matching
    <3>3. CASE i # p
      <4>1. items'[i] = items[i]
        BY <1>3, <3>1, <3>3
      <4> QED BY <1>2, <2>2, <4>1 DEF Matching
    <3> QED BY <3>2, <3>3
  <2>3. \A i \in Ids : items[i] # None => items'[i] # None /\ at'[i] = at[i]
    BY <1>1, <1>3
  <2>4. list'[l] = list[l] /\ seen'[l] = seen[l] /\ whole'[l] \subseteq whole[l]
    BY <1>2, <2>1
  <2> QED BY <2>2, <2>3, <2>4, ListsRest
<1> QED BY <1>4, <1>5 DEF ListInv

\* The requests leave the lists intact; an insert dates a row that nobody has
\* met.
LEMMA RequestsKeepLists ==
  ASSUME Inv, ListInv, NEW r \in Requests, Begin(r) \/ Step(r) \/ Fail(r)
  PROVE  ListInv'
<1>1. CASE /\ UNCHANGED <<items, listing>>
           /\ \A i \in Ids : items[i] # None => at'[i] = at[i]
  <2>1. UNCHANGED <<list, seen, whole>>
    BY <1>1 DEF listing
  <2>2. ListTypes'
    BY <2>1 DEF ListInv, ListTypes
  <2>3. ASSUME NEW l \in Lists PROVE ListFits(l)'
    <3>1. \A i \in whole'[l] : Matching(items[i], l) => Matching(items[i], l)'
      BY <1>1, <2>1 DEF Matching
    <3> QED BY <1>1, <2>1, <3>1, ListsRest
  <2> QED BY <2>2, <2>3 DEF ListInv
<1>2. ASSUME Insert(r)
      PROVE  UNCHANGED <<items, listing>> /\ \A i \in Ids : items[i] # None => at'[i] = at[i]
  BY <1>2 DEF Insert, Inv, TypeOK
<1>3. CASE Commit(r)
  BY <1>3, PublishKeepsLists DEF Commit
<1>4. ASSUME Fail(r)
      PROVE  \/ UNCHANGED <<items, listing, at>>
             \/ pc[r] = "commit" /\ Publish(pend[r].id, pend[r].row) /\ UNCHANGED at
  BY <1>4 DEF Fail
<1>5. ASSUME Begin(r) \/ Get(r) \/ SelectName(r) \/ Cas(r) \/ CheckName(r) \/ Current(r)
      PROVE  UNCHANGED <<items, listing, at>>
  BY <1>5 DEF Begin, Get, SelectName, Cas, CheckName, Current
<1> QED BY <1>1, <1>2, <1>3, <1>4, <1>5, PublishKeepsLists DEF Step

\* A client begins to page, or is refused.
LEMMA BeginListKeepsLists ==
  ASSUME Inv, ListInv, NEW k \in Lists, BeginList(k) \/ RefuseList(k)
  PROVE  ListInv'
<1>0. ListTypes /\ ListFits(k)
  BY DEF ListInv
<1>1. UNCHANGED <<items, at, seen, whole>> /\ list[k].phase = "idle"
  BY DEF BeginList, RefuseList
<1>2. PICK new \in [owner : Owners \cup {None}, status : Statuses \cup {None}, limit : Nat,
                    cursor : Ids \cup {None},
                    phase : {"idle", "first", "more", "done", "refused"}] :
        /\ list' = [list EXCEPT ![k] = new] /\ new.phase \in {"first", "refused"}
        /\ new.cursor = None /\ (new.phase = "first" => new.limit > 0)
  <2>1. ASSUME NEW o \in Owners, NEW s \in Statuses \cup {None}, NEW n \in 1 .. MAX_LIST_LIMIT
        PROVE  [owner |-> o, status |-> s, limit |-> n, cursor |-> None, phase |-> "first"]
                 \in [owner : Owners \cup {None}, status : Statuses \cup {None}, limit : Nat,
                      cursor : Ids \cup {None},
                      phase : {"idle", "first", "more", "done", "refused"}]
    BY ConstantsAssumption
  <2>2. CASE BeginList(k)
    <3>1. PICK o \in Owners, s \in Statuses \cup {None}, n \in 1 .. MAX_LIST_LIMIT :
            list' = [list EXCEPT ![k] = [owner |-> o, status |-> s, limit |-> n, cursor |-> None,
                                         phase |-> "first"]]
      BY <2>2 DEF BeginList
    <3> DEFINE new == [owner |-> o, status |-> s, limit |-> n, cursor |-> None, phase |-> "first"]
    <3>2. /\ new \in [owner : Owners \cup {None}, status : Statuses \cup {None}, limit : Nat,
                      cursor : Ids \cup {None},
                      phase : {"idle", "first", "more", "done", "refused"}]
          /\ new.phase = "first" /\ new.cursor = None /\ new.limit > 0
      BY <2>1, ConstantsAssumption
    <3>3. list' = [list EXCEPT ![k] = new]
      BY <3>1
    <3> HIDE DEF new
    <3> QED BY <3>2, <3>3
  <2>3. CASE RefuseList(k)
    <3> DEFINE new == [list[k] EXCEPT !.phase = "refused"]
    <3>1. list' = [list EXCEPT ![k] = new]
      BY <2>3 DEF RefuseList
    <3>2. list[k].cursor = None
      BY <1>0, <1>1 DEF ListFits
    <3>3. /\ new \in [owner : Owners \cup {None}, status : Statuses \cup {None}, limit : Nat,
                      cursor : Ids \cup {None},
                      phase : {"idle", "first", "more", "done", "refused"}]
          /\ new.phase = "refused" /\ new.cursor = None
      BY <1>0, <3>2 DEF ListTypes
    <3> HIDE DEF new
    <3> QED BY <3>1, <3>3
  <2> QED BY <2>2, <2>3
<1>3. ListTypes' /\ list'[k] = new /\ \A l \in Lists \ {k} : list'[l] = list[l]
  BY <1>0, <1>1, <1>2 DEF ListTypes
<1>4. ListFits(k)'
  BY <1>0, <1>1, <1>2, <1>3 DEF ListFits, Dated
<1>5. ASSUME NEW l \in Lists, l # k PROVE ListFits(l)'
  <2>1. list'[l] = list[l]
    BY <1>3, <1>5
  <2>2. \A i \in whole'[l] : Matching(items[i], l) => Matching(items[i], l)'
    BY <1>1, <2>1 DEF Matching
  <2> QED BY <1>1, <2>1, <2>2, ListsRest
<1> QED BY <1>3, <1>4, <1>5 DEF ListInv

\* A page adds what lies between the cursor and the next one.
LEMMA NextPageKeepsLists ==
  ASSUME Inv, ListInv, NEW k \in Lists, NextPage(k)
  PROVE  ListInv'
<1> DEFINE rows == Beyond(k)
           limit == list[k].limit
           page == PageOf(rows, limit)
           last == LastOf(page)
           more == Cardinality(rows) > limit
<1>0. TypeOK /\ ListTypes /\ ListFits(k)
  BY DEF Inv, ListInv
<1>1. /\ list[k].phase \in {"first", "more"}
      /\ list' = [list EXCEPT ![k].phase = IF more THEN "more" ELSE "done",
                              ![k].cursor = IF more THEN last ELSE None]
      /\ seen' = [seen EXCEPT ![k] = [i \in Ids |-> IF i \in page THEN @[i] + 1 ELSE @[i]]]
      /\ whole' = IF list[k].phase = "first" THEN [whole EXCEPT ![k] = rows] ELSE whole
      /\ UNCHANGED <<items, at>>
  BY DEF NextPage, PageOf, LastOf, Before
<1>2. rows \in SUBSET Ids /\ limit \in Nat /\ limit > 0
  BY <1>0, <1>1 DEF Beyond, ListTypes, ListFits
<1>3. page \subseteq rows /\ page \subseteq Ids
  BY <1>2 DEF PageOf
<1>4. more => /\ last \in page
              /\ \A i \in page : ~Precedes(last, i)
              /\ \A i \in rows \ page : Precedes(last, i)
  BY <1>0, <1>2, CutPage
<1>5. ~more => page = rows
  <2>1. IsFiniteSet(rows) /\ Cardinality(rows) \in Nat
    BY <1>2, ConstantsAssumption, FS_Subset, FS_CardinalityType
  <2>2. ~more => Cardinality(rows) <= limit
    BY <1>2, <2>1
  <2> QED BY <1>0, <1>2, <2>2, WholePage
<1>6. \A i \in rows : items[i] # None /\ Matching(items[i], k) /\ seen[k][i] = 0
  <2> SUFFICES ASSUME NEW i \in rows PROVE items[i] # None /\ Matching(items[i], k) /\ seen[k][i] = 0
    OBVIOUS
  <2>1. /\ i \in Ids /\ Matching(items[i], k)
        /\ list[k].cursor # None => Precedes(list[k].cursor, i)
    BY DEF Beyond
  <2>2. items[i] # None
    BY <2>1 DEF Matching, Live
  <2>3. CASE list[k].phase = "first"
    BY <1>0, <2>1, <2>2, <2>3 DEF ListFits
  <2>4. CASE list[k].phase = "more"
    <3>1. Splits(k) /\ list[k].cursor # None
      BY <1>0, <2>4, ConstantsAssumption DEF ListFits, Splits
    <3> QED BY <2>1, <2>2, <3>1 DEF Splits
  <2> QED BY <1>1, <2>3, <2>4
<1>7. \A i \in Ids : seen[k][i] \in Nat
  BY <1>0 DEF ListTypes
<1> HIDE DEF rows, limit, page, last, more
<1>8. /\ list'[k].phase = IF more THEN "more" ELSE "done"
      /\ list'[k].cursor = IF more THEN last ELSE None
      /\ list'[k].limit = limit /\ list'[k].owner = list[k].owner
      /\ list'[k].status = list[k].status
      /\ \A l \in Lists \ {k} : list'[l] = list[l]
  BY <1>0, <1>1 DEF ListTypes, limit
<1>9. /\ \A i \in Ids : seen'[k][i] = IF i \in page THEN 1 ELSE seen[k][i]
      /\ \A l \in Lists \ {k} : seen'[l] = seen[l]
  <2>1. /\ seen'[k] = [i \in Ids |-> IF i \in page THEN seen[k][i] + 1 ELSE seen[k][i]]
        /\ \A l \in Lists \ {k} : seen'[l] = seen[l]
    BY <1>0, <1>1 DEF ListTypes
  <2>2. \A i \in page : seen[k][i] + 1 = 1
    BY <1>3, <1>6
  <2> QED BY <2>1, <2>2
<1>10. /\ whole'[k] = IF list[k].phase = "first" THEN rows ELSE whole[k]
       /\ \A l \in Lists \ {k} : whole'[l] = whole[l]
  BY <1>0, <1>1 DEF ListTypes
<1>11. ListTypes'
  <2>1. list' \in [Lists -> [owner : Owners \cup {None}, status : Statuses \cup {None}, limit : Nat,
                             cursor : Ids \cup {None},
                             phase : {"idle", "first", "more", "done", "refused"}]]
    <3>1. (IF more THEN last ELSE None) \in Ids \cup {None}
      BY <1>3, <1>4
    <3> DEFINE c == IF more THEN last ELSE None
               ph == IF more THEN "more" ELSE "done"
               new == [list[k] EXCEPT !.phase = ph, !.cursor = c]
    <3>2. c \in Ids \cup {None} /\ ph \in {"idle", "first", "more", "done", "refused"}
      BY <3>1
    <3>3. list' = [list EXCEPT ![k] = new]
      BY <1>1
    <3> HIDE DEF c, ph
    <3>4. new \in [owner : Owners \cup {None}, status : Statuses \cup {None}, limit : Nat,
                   cursor : Ids \cup {None},
                   phase : {"idle", "first", "more", "done", "refused"}]
      BY <1>0, <3>2 DEF ListTypes
    <3> HIDE DEF new
    <3> QED BY <1>0, <3>3, <3>4 DEF ListTypes
  <2>2. seen' \in [Lists -> [Ids -> Nat]]
    <3>1. [i \in Ids |-> IF i \in page THEN seen[k][i] + 1 ELSE seen[k][i]] \in [Ids -> Nat]
      BY <1>7
    <3> QED BY <1>0, <1>1, <3>1 DEF ListTypes
  <2>3. whole' \in [Lists -> SUBSET Ids]
    BY <1>0, <1>1, <1>2 DEF ListTypes
  <2> QED BY <2>1, <2>2, <2>3 DEF ListTypes
<1>12. ASSUME NEW i \in whole'[k] PROVE i \in Ids /\ items[i] # None /\ Matching(items[i], k)
                                        /\ (seen[k][i] # 0 \/ i \in rows)
  <2>1. CASE list[k].phase = "first"
    BY <1>2, <1>6, <1>10, <1>12, <2>1
  <2>2. CASE list[k].phase = "more"
    <3>1. i \in whole[k] /\ i \in Ids /\ Splits(k)
      BY <1>0, <1>10, <1>12, <2>2 DEF ListTypes, ListFits
    <3>2. items[i] # None /\ Matching(items[i], k)
      BY <1>0, <3>1 DEF ListFits, Dated, Splits
    <3>3. seen[k][i] # 0 \/ Precedes(list[k].cursor, i)
      BY <3>1 DEF Splits
    <3> QED BY <3>1, <3>2, <3>3 DEF rows, Beyond
  <2> QED BY <1>1, <2>1, <2>2
<1>13. ASSUME more PROVE Splits(k)'
  <2>1. last \in Ids /\ items[last] # None /\ last \in rows
    BY <1>3, <1>4, <1>6, <1>13
  <2>2. ASSUME NEW i \in Ids, seen'[k][i] # 0 PROVE ~Precedes(last, i)
    <3>1. CASE i \in page
      BY <1>4, <1>13, <3>1
    <3>2. CASE i \notin page
      <4>1. seen[k][i] # 0
        BY <1>9, <2>2, <3>2
      <4>2. list[k].phase = "more"
        BY <1>0, <1>1, <4>1 DEF ListFits
      <4>3. Splits(k) /\ list[k].cursor # None /\ list[k].cursor \in Ids
        BY <1>0, <4>2, ConstantsAssumption DEF ListFits, Splits
      <4>4. ~Precedes(list[k].cursor, i)
        BY <4>1, <4>3 DEF Splits
      <4>5. Precedes(list[k].cursor, last)
        BY <2>1, <4>3 DEF rows, Beyond
      <4> QED BY <1>0, <2>1, <4>3, <4>4, <4>5, TotalOrder
    <3> QED BY <3>1, <3>2
  <2>3. ASSUME NEW i \in whole'[k]
        PROVE  Matching(items[i], k)' /\ (seen'[k][i] # 0 \/ Precedes(last, i))
    <3>1. Matching(items[i], k)'
      BY <1>1, <1>8, <1>12 DEF Matching
    <3>2. seen'[k][i] # 0 \/ Precedes(last, i)
      BY <1>4, <1>9, <1>12, <1>13
    <3> QED BY <3>1, <3>2
  <2>4. PICK c \in Ids : c = last
    BY <2>1
  <2>5. list'[k].cursor = c /\ items'[c] # None
    BY <1>1, <1>8, <1>13, <2>1, <2>4
  <2>6. \A i \in Ids : Precedes(c, i)' <=> Precedes(c, i)
    BY <1>1 DEF Precedes
  <2>7. \A i \in Ids : seen'[k][i] # 0 => ~Precedes(c, i)'
    BY <2>2, <2>4, <2>6
  <2>8. \A i \in whole'[k] : Matching(items[i], k)' /\ (seen'[k][i] # 0 \/ Precedes(c, i)')
    BY <1>12, <2>3, <2>4, <2>6
  <2> QED BY <2>5, <2>7, <2>8 DEF Splits
<1>14. ListFits(k)'
  <2>1. Dated(k)'
    <3>1. \A i \in Ids : seen'[k][i] # 0 => items[i] # None
      BY <1>0, <1>3, <1>6, <1>9 DEF ListFits, Dated
    <3>2. \A i \in whole'[k] : items[i] # None
      BY <1>12
    <3> QED BY <1>1, <3>1, <3>2 DEF Dated
  <2>2. \A i \in Ids : seen'[k][i] <= 1
    BY <1>0, <1>9 DEF ListFits
  <2>3. ~more => \A i \in whole'[k] : seen'[k][i] # 0
    BY <1>5, <1>9, <1>12
  <2> QED BY <1>2, <1>8, <1>13, <2>1, <2>2, <2>3 DEF ListFits
<1>15. ASSUME NEW l \in Lists, l # k PROVE ListFits(l)'
  <2>1. list'[l] = list[l] /\ seen'[l] = seen[l] /\ whole'[l] = whole[l]
    BY <1>8, <1>9, <1>10, <1>15
  <2>2. \A i \in whole'[l] : Matching(items[i], l) => Matching(items[i], l)'
    BY <1>1, <2>1 DEF Matching
  <2> QED BY <1>1, <2>1, <2>2, ListsRest
<1> QED BY <1>11, <1>14, <1>15 DEF ListInv

\* The invariant of the lists holds in every reachable state.
LEMMA ListInvariance == Spec => []ListInv
<1>1. ASSUME Inv, ListInv, [Next]_vars PROVE ListInv'
  <2>1. CASE UNCHANGED vars
    <3>1. UNCHANGED <<items, at, list, seen, whole>>
      BY <2>1 DEF vars, listing
    <3> QED BY <1>1, <3>1 DEF ListInv, ListTypes, ListFits, Dated, Splits, Precedes, Matching
  <2> QED BY <1>1, <2>1, RequestsKeepLists, BeginListKeepsLists, NextPageKeepsLists DEF Next
<1> QED BY <1>1, ListInit, Invariance, PTL DEF Spec

\* However rows are added, changed and deleted between its pages, a client that
\* follows next_cursor meets no item twice, and at the end has met every item
\* that matched all the while, for any page size and any number of items
\* (list_active, app/db/pagination.py).
THEOREM PagesAreExact == Spec => []ListIsExact
<1>1. ListInv => ListIsExact
  <2> SUFFICES ASSUME ListInv, NEW l \in Lists, NEW i \in Ids
               PROVE  /\ seen[l][i] <= 1
                      /\ list[l].phase = "done" /\ i \in whole[l] => seen[l][i] = 1
    BY DEF ListIsExact
  <2>1. ListFits(l) /\ seen[l][i] \in Nat
    BY DEF ListInv, ListTypes
  <2> QED BY <2>1 DEF ListFits
<1> QED BY <1>1, ListInvariance, PTL

=============================================================================
