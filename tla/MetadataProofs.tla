--------------------------- MODULE MetadataProofs ---------------------------
(***************************************************************************)
(* Proofs about module Metadata for any number of concurrent requests,     *)
(* hosts, model roots, instances and any catalog that load_catalog         *)
(* accepts; what a probe recommends is proved for the catalogs whose rules *)
(* are ordered as the shipped ones are.                                    *)
(***************************************************************************)
EXTENDS Metadata, WellFoundedInduction, TLAPS

-----------------------------------------------------------------------------
(* The inductive invariant                                                  *)

\* What a request asks for fits the statement it is at, and the host it names
\* has been found.
Asked(r) ==
  /\ pc[r] \in {"local", "seed_host", "seed_root", "seed_commit", "list"} => req[r].kind = "list"
  /\ pc[r] = "host" => req[r].kind \in {"host", "ssh"}
  /\ req[r].kind = "host" => req[r].name \in Names \cup {"local"}
  /\ pc[r] \in {"root_host", "root"} =>
       req[r].kind = "root" /\ req[r].path \in Paths \cup {"shared"}
  /\ pc[r] \in {"host_of", "slug", "roots", "instance", "bind"} =>
       /\ req[r].kind = "instance" /\ req[r].slug \in Slugs
       /\ req[r].roots # <<>> => Entries(req[r].roots) # {}
  /\ pc[r] \in {"root", "slug", "roots", "instance", "bind"} => req[r].host \in Present(hosts)
  /\ pc[r] = "check" => req[r].kind = "check"
  /\ pc[r] = "get" => req[r].kind = "get"
  /\ pc[r] \in {"probe", "smi"} => req[r].kind = "probe"
  /\ pc[r] # "done" => ans[r] = [code |-> "none", cause |-> "none"]

\* Model roots rs with the primary one p suit an instance of the host, whose
\* request knew the ids in seen.
Suits(host, rs, p, seen) ==
  /\ \A m \in rs : roots[m] # Nothing /\ roots[m].host = host
  /\ p # Nothing => p \in rs
  /\ rs = {} => ~\E m \in seen : roots[m] # Nothing /\ roots[m].host = host

\* The rows that the open transaction has written.
Written(r) ==
  /\ pc[r] \notin {"seed_root", "seed_commit", "bind", "commit"} => pend[r] = NoPend
  /\ pc[r] \in {"seed_root", "seed_commit"} => pend[r].instance = Nothing
  /\ pc[r] = "seed_commit" =>
       pend[r].root # Nothing /\ pend[r].root.host = r /\ pend[r].root.path = "shared"
  /\ pc[r] \in {"bind", "commit"} => (pend[r].host # Nothing => pend[r].host.seeded = FALSE)
  /\ pc[r] \in {"instance", "bind"} =>
       Suits(req[r].host, pick[r].roots, pick[r].primary, before[r])
  /\ pc[r] = "bind" =>
       /\ pend[r].instance # Nothing /\ pend[r].instance.host = req[r].host
       /\ pend[r].instance.primary = pick[r].primary
  /\ pc[r] = "commit" /\ pend[r].instance # Nothing =>
       Suits(pend[r].instance.host, pend[r].instance.roots, pend[r].instance.primary, before[r])

\* Nobody has seen a row of a request that has not committed.
Fresh(r) ==
  pc[r] \notin {"list", "done"} =>
    /\ hosts[r] = Nothing /\ roots[r] = Nothing /\ instances[r] = Nothing
    /\ \A o \in Requests : r \notin before[o]

\* A row that a look-up has not found was not there when the request began.
Missed(r) ==
  /\ pc[r] = "seed_host" => \A i \in before[r] : hosts[i] # Nothing => hosts[i].name # "local"
  /\ pc[r] \in {"roots", "instance"} =>
       \A i \in before[r] : instances[i] # Nothing =>
         ~(instances[i].host = req[r].host /\ instances[i].slug = req[r].slug)

\* No two transactions insert one slug.
Apart ==
  \A o, r \in Requests :
    o # r /\ pend[o].instance # Nothing /\ pend[r].instance # Nothing =>
      ~(pend[o].instance.host = pend[r].instance.host /\ pend[o].instance.slug = pend[r].instance.slug)

\* A slug that is being inserted is not in the table.
Settled ==
  \A r \in Requests : pend[r].instance # Nothing =>
    ~SlugTaken(pend[r].instance.host, pend[r].instance.slug)

Fits(r) == Asked(r) /\ Written(r) /\ Fresh(r) /\ Missed(r)

Inv ==
  /\ TypeOK
  /\ \A r \in Requests : Fits(r)
  /\ Apart
  /\ Settled
  /\ Present(instances) \subseteq Requests
  /\ InstancesAreWellFormed
  /\ DefaultHostComplete
  /\ OnlyRacesBreak
  /\ DeclaredErrorsOnly

LEMMA InitInv == Init => Inv
<1> SUFFICES ASSUME Init PROVE Inv
  OBVIOUS
<1> USE DEF Init
<1>0. Present(instances) = {} /\ Present(hosts) \subseteq Ids
  BY DEF Present
<1>1. TypeOK
  <2>1. pc \in [Requests -> Places]
    BY DEF Places
  <2>2. req \in [Requests -> Request]
    <3>1. NoChoice \in Choices
      BY DEF Choices
    <3>2. Shape \in Request
      BY <3>1 DEF Shape, Request
    <3> QED BY <3>2
  <2>3. roots \in [Ids -> RootRow \cup {Nothing}]
    <3>1. PICK rooted \in SUBSET Present(hosts) :
            roots = [i \in Ids |->
              IF i \in rooted THEN [host |-> i, path |-> "shared", at |-> 0] ELSE Nothing]
      OBVIOUS
    <3>2. \A i \in Ids : [host |-> i, path |-> "shared", at |-> 0] \in RootRow
      BY DEF RootRow
    <3> QED BY <3>1, <3>2
  <2>4. pend \in [Requests -> [host : HostRow \cup {Nothing}, root : RootRow \cup {Nothing},
                               instance : InstanceRow \cup {Nothing}]]
    BY DEF NoPend
  <2>5. pick \in [Requests -> [roots : SUBSET Ids, primary : Ids \cup {Nothing}]]
    BY DEF NoPick
  <2>6. ans \in [Requests -> [code : Codes, cause : {"none", "key", "driver"}]]
    BY DEF Codes
  <2>7. instances \in [Ids -> InstanceRow \cup {Nothing}] /\ before \in [Requests -> SUBSET Ids]
        /\ clock \in Nat /\ hosts \in [Ids -> HostRow \cup {Nothing}]
    OBVIOUS
  <2> QED BY <2>1, <2>3, <2>4, <2>5, <2>6, <2>7, <2>2 DEF TypeOK
<1>2. ASSUME NEW r \in Requests PROVE Fits(r)
  <2>1. pc[r] = "idle" /\ pend[r] = NoPend /\ before[r] = {}
        /\ ans[r] = [code |-> "none", cause |-> "none"]
    OBVIOUS
  <2>2. req[r].kind = "list"
    BY DEF Shape
  <2>3. hosts[r] = Nothing /\ roots[r] = Nothing /\ instances[r] = Nothing
    <3>1. r \in Ids /\ r \notin Present(hosts)
      BY ConstantsAssumption DEF Ids
    <3> QED BY <3>1 DEF Present
  <2>4. Asked(r)
    BY <2>1, <2>2 DEF Asked
  <2>5. Written(r)
    BY <2>1 DEF Written
  <2> QED BY <2>1, <2>3, <2>4, <2>5 DEF Fits, Fresh, Missed
<1>3. Apart /\ Settled
  BY DEF Apart, Settled, NoPend
<1>4. InstancesAreWellFormed
  BY <1>0 DEF InstancesAreWellFormed
<1>5. DefaultHostComplete
  <2> SUFFICES ASSUME NEW i \in Present(hosts), hosts[i].seeded
               PROVE  \E m \in Present(roots) : roots[m].host = i /\ roots[m].path = "shared"
    BY DEF DefaultHostComplete
  <2>1. roots[i] # Nothing /\ i \in Ids
    BY DEF Present
  <2>2. PICK rooted \in SUBSET Present(hosts) :
          roots = [j \in Ids |->
            IF j \in rooted THEN [host |-> j, path |-> "shared", at |-> 0] ELSE Nothing]
    OBVIOUS
  <2>3. roots[i] = [host |-> i, path |-> "shared", at |-> 0]
    BY <2>1, <2>2
  <2> QED BY <2>1, <2>3 DEF Present
<1>6. OnlyRacesBreak /\ DeclaredErrorsOnly
  BY DEF OnlyRacesBreak, DeclaredErrorsOnly
<1> QED BY <1>0, <1>1, <1>2, <1>3, <1>4, <1>5, <1>6 DEF Inv

-----------------------------------------------------------------------------
(* Frames                                                                   *)

\* The tables are as before, or have rows of request r that nobody has seen.
Grows(r) ==
  /\ \A i \in Ids \ {r} :
       hosts'[i] = hosts[i] /\ roots'[i] = roots[i] /\ instances'[i] = instances[i]
  /\ \/ UNCHANGED tables
     \/ /\ hosts[r] = Nothing /\ roots[r] = Nothing /\ instances[r] = Nothing
        /\ \A o \in Requests : r \notin before[o]
        /\ UNCHANGED before

\* Request o does not move.
Rests(o) ==
  /\ pc'[o] = pc[o] /\ req'[o] = req[o] /\ ans'[o] = ans[o] /\ pend'[o] = pend[o]
  /\ pick'[o] = pick[o] /\ before'[o] = before[o]

LEMMA RowsStay ==
  ASSUME NEW r \in Requests, Grows(r)
  PROVE  /\ \A i \in Ids : hosts[i] # Nothing => hosts'[i] = hosts[i]
         /\ \A i \in Ids : roots[i] # Nothing => roots'[i] = roots[i]
         /\ \A i \in Ids : instances[i] # Nothing => instances'[i] = instances[i]
         /\ Present(hosts) \subseteq Present(hosts)'
         /\ Present(roots) \subseteq Present(roots)'
         /\ Present(instances) \subseteq Present(instances)'
<1>1. /\ \A i \in Ids : hosts[i] # Nothing => hosts'[i] = hosts[i]
      /\ \A i \in Ids : roots[i] # Nothing => roots'[i] = roots[i]
      /\ \A i \in Ids : instances[i] # Nothing => instances'[i] = instances[i]
  BY DEF Grows, tables
<1> QED BY <1>1 DEF Present

\* What a request has seen is not changed by another one.
LEMMA SeenStays ==
  ASSUME Inv, NEW r \in Requests, Grows(r), NEW o \in Requests, NEW i \in before[o]
  PROVE  hosts'[i] = hosts[i] /\ roots'[i] = roots[i] /\ instances'[i] = instances[i]
<1>1. i \in Ids
  BY DEF Inv, TypeOK
<1> QED BY <1>1 DEF Grows, tables

LEMMA OthersFit ==
  ASSUME Inv, NEW r \in Requests, Grows(r), NEW o \in Requests \ {r}, Rests(o),
         \A q \in Requests \ {r} : before'[q] = before[q],
         \/ before'[r] = before[r]
         \/ before'[r] = Present(hosts) \cup Present(roots) \cup Present(instances)
  PROVE  Fits(o)'
<1> USE DEF Rests
<1>0. Asked(o) /\ Written(o) /\ Fresh(o) /\ Missed(o) /\ o \in Ids
  BY DEF Inv, Fits, Ids
<1>1. Asked(o)'
  <2>1. req[o].host \in Present(hosts) => req'[o].host \in Present(hosts)'
    BY RowsStay
  <2> QED BY <1>0, <2>1 DEF Asked
<1>2. Written(o)'
  <2>1. pc[o] \in {"instance", "bind"} =>
          Suits(req[o].host, pick[o].roots, pick[o].primary, before[o])'
    <3> SUFFICES ASSUME pc[o] \in {"instance", "bind"}
                 PROVE  Suits(req[o].host, pick[o].roots, pick[o].primary, before[o])'
      OBVIOUS
    <3>1. pick[o].roots \in SUBSET Ids
      BY DEF Inv, TypeOK
    <3>2. Suits(req[o].host, pick[o].roots, pick[o].primary, before[o])
      BY <1>0 DEF Written
    <3>3. \A m \in pick[o].roots : roots'[m] = roots[m]
      BY <3>1, <3>2, RowsStay DEF Suits
    <3>4. \A m \in before[o] : roots'[m] = roots[m]
      BY SeenStays
    <3> QED BY <3>2, <3>3, <3>4 DEF Suits
  <2>2. pc[o] = "commit" /\ pend[o].instance # Nothing =>
          Suits(pend[o].instance.host, pend[o].instance.roots, pend[o].instance.primary, before[o])'
    <3> SUFFICES ASSUME pc[o] = "commit", pend[o].instance # Nothing
                 PROVE  Suits(pend[o].instance.host, pend[o].instance.roots,
                              pend[o].instance.primary, before[o])'
      OBVIOUS
    <3>1. pend[o].instance.roots \in SUBSET Ids
      BY DEF Inv, TypeOK, InstanceRow
    <3>2. Suits(pend[o].instance.host, pend[o].instance.roots, pend[o].instance.primary, before[o])
      BY <1>0 DEF Written
    <3>3. \A m \in pend[o].instance.roots : roots'[m] = roots[m]
      BY <3>1, <3>2, RowsStay DEF Suits
    <3>4. \A m \in before[o] : roots'[m] = roots[m]
      BY SeenStays
    <3> QED BY <3>2, <3>3, <3>4 DEF Suits
  <2> QED BY <1>0, <2>1, <2>2 DEF Written, NoPend
<1>3. Fresh(o)'
  <2> SUFFICES ASSUME pc[o] \notin {"list", "done"} PROVE Fresh(o)'
    BY DEF Fresh
  <2>1. /\ hosts[o] = Nothing /\ roots[o] = Nothing /\ instances[o] = Nothing
        /\ \A q \in Requests : o \notin before[q]
    BY <1>0 DEF Fresh
  <2>2. hosts'[o] = Nothing /\ roots'[o] = Nothing /\ instances'[o] = Nothing
    BY <1>0, <2>1 DEF Grows
  <2>3. \A q \in Requests : o \notin before'[q]
    BY <2>1 DEF Present
  <2> QED BY <2>2, <2>3 DEF Fresh
<1>4. Missed(o)'
  <2>1. \A i \in before[o] : hosts'[i] = hosts[i] /\ instances'[i] = instances[i]
    BY SeenStays
  <2> QED BY <1>0, <2>1 DEF Missed
<1> QED BY <1>1, <1>2, <1>3, <1>4 DEF Fits

\* A request of which the tables show nothing new.
LEMMA QuietKeepsInv ==
  ASSUME Inv, NEW r \in Requests, UNCHANGED tables, TypeOK', Fits(r)',
         \A o \in Requests \ {r} : Rests(o),
         \/ before'[r] = before[r]
         \/ /\ pc[r] = "idle"
            /\ before'[r] = Present(hosts) \cup Present(roots) \cup Present(instances),
         \/ pend'[r].instance = Nothing
         \/ /\ pend[r].instance # Nothing /\ pend'[r].instance.host = pend[r].instance.host
            /\ pend'[r].instance.slug = pend[r].instance.slug
         \/ /\ ~SlugTaken(pend'[r].instance.host, pend'[r].instance.slug)
            /\ ~SlugBusy(r, pend'[r].instance.host, pend'[r].instance.slug),
         ans'[r].cause = "key" =>
           \E i \in Ids \ before'[r] :
             \/ req'[r].kind = "list" /\ i \in Present(hosts) /\ hosts[i].name = "local"
             \/ /\ req'[r].kind = "instance" /\ i \in Present(instances)
                /\ instances[i].host = req'[r].host /\ instances[i].slug = req'[r].slug,
         ans'[r].code \in {"none", "OK"} \cup error_codes(req'[r].kind)
  PROVE  Inv'
<1>1. ASSUME NEW o \in Requests \ {r} PROVE Fits(o)'
  <2>1. Grows(r)
    BY DEF Grows, tables
  <2>2. \A q \in Requests \ {r} : before'[q] = before[q]
    BY DEF Rests
  <2> QED BY <2>1, <2>2, OthersFit
<1>2. Present(hosts)' = Present(hosts) /\ Present(instances)' = Present(instances)
  BY DEF Present, tables
<1>3. Apart'
  BY DEF Inv, Apart, Rests, SlugBusy
<1>4. Settled'
  <2>1. \A h, t : SlugTaken(h, t)' <=> SlugTaken(h, t)
    BY <1>2 DEF SlugTaken, tables
  <2>2. ASSUME NEW o \in Requests, pend'[o].instance # Nothing
        PROVE  ~SlugTaken(pend'[o].instance.host, pend'[o].instance.slug)
    BY <2>2 DEF Inv, Settled, Rests
  <2> QED BY <1>2, <2>2 DEF Settled, SlugTaken, tables
<1>5. InstancesAreWellFormed'
  <2>1. \A i \in Present(instances) : before'[i] = before[i]
    <3>1. \A i \in Present(instances) : i \in Requests /\ instances[i] # Nothing
      BY DEF Inv, Present
    <3>2. pc[r] = "idle" => instances[r] = Nothing
      BY DEF Inv, Fits, Fresh
    <3> QED BY <3>1, <3>2 DEF Rests
  <2> QED BY <1>2, <2>1 DEF Inv, InstancesAreWellFormed, tables
<1>6. DefaultHostComplete'
  BY <1>2 DEF Inv, DefaultHostComplete, Present, tables
<1>7. OnlyRacesBreak'
  <2>1. OnlyRacesBreak
    BY DEF Inv
  <2>2. ASSUME NEW o \in Requests, ans'[o].cause = "key"
        PROVE  \E i \in Ids \ before'[o] :
                 \/ req'[o].kind = "list" /\ i \in Present(hosts)' /\ hosts'[i].name = "local"
                 \/ /\ req'[o].kind = "instance" /\ i \in Present(instances)'
                    /\ instances'[i].host = req'[o].host /\ instances'[i].slug = req'[o].slug
    <3>1. CASE o = r
      BY <1>2, <2>2, <3>1 DEF tables
    <3>2. CASE o # r
      BY <1>2, <2>1, <2>2, <3>2 DEF tables, Rests, OnlyRacesBreak
    <3> QED BY <3>1, <3>2
  <2> QED BY <2>2 DEF OnlyRacesBreak
<1>8. DeclaredErrorsOnly'
  <2>1. ASSUME NEW o \in Requests
        PROVE  ans'[o].code \in {"none", "OK"} \cup error_codes(req'[o].kind)
    BY DEF Inv, DeclaredErrorsOnly, Rests
  <2> QED BY <2>1 DEF DeclaredErrorsOnly
<1> QED BY <1>1, <1>2, <1>3, <1>4, <1>5, <1>6, <1>7, <1>8 DEF Inv

\* A request that ends and leaves the tables alone.
LEMMA AnswerKeepsInv ==
  ASSUME Inv, NEW r \in Requests, NEW code \in Codes, NEW cause \in {"none", "key", "driver"},
         AnswerFor(r, code, cause), UNCHANGED <<req, tables, pick, clock, before>>,
         code \in {"none", "OK"} \cup error_codes(req[r].kind),
         cause = "key" =>
           \E i \in Ids \ before[r] :
             \/ req[r].kind = "list" /\ i \in Present(hosts) /\ hosts[i].name = "local"
             \/ /\ req[r].kind = "instance" /\ i \in Present(instances)
                /\ instances[i].host = req[r].host /\ instances[i].slug = req[r].slug
  PROVE  Inv'
<1>1. /\ ans' = [ans EXCEPT ![r] = [code |-> code, cause |-> cause]]
      /\ pend' = [pend EXCEPT ![r] = NoPend] /\ pc' = [pc EXCEPT ![r] = "done"]
  BY DEF AnswerFor, Goto
<1>2. /\ ans'[r] = [code |-> code, cause |-> cause] /\ pend'[r] = NoPend /\ pc'[r] = "done"
      /\ \A o \in Requests \ {r} : Rests(o)
  BY <1>1 DEF Inv, TypeOK, Rests
<1>3. TypeOK'
  <2>1. [code |-> code, cause |-> cause] \in [code : Codes, cause : {"none", "key", "driver"}]
    OBVIOUS
  <2>2. ans' \in [Requests -> [code : Codes, cause : {"none", "key", "driver"}]]
    BY <1>1, <2>1 DEF Inv, TypeOK
  <2>3. NoPend \in [host : HostRow \cup {Nothing}, root : RootRow \cup {Nothing},
                    instance : InstanceRow \cup {Nothing}]
    BY DEF NoPend
  <2>4. pend' \in [Requests -> [host : HostRow \cup {Nothing}, root : RootRow \cup {Nothing},
                                instance : InstanceRow \cup {Nothing}]]
    BY <1>1, <2>3 DEF Inv, TypeOK
  <2>5. pc' \in [Requests -> Places]
    BY <1>1 DEF Inv, TypeOK, Places
  <2> QED BY <2>2, <2>4, <2>5 DEF Inv, TypeOK, tables
<1>4. Fits(r)'
  <2>1. Asked(r)'
    BY <1>2 DEF Inv, Fits, Asked
  <2>2. Written(r)' /\ Fresh(r)' /\ Missed(r)'
    BY <1>2 DEF Written, Fresh, Missed
  <2> QED BY <2>1, <2>2 DEF Fits
<1>5. pend'[r].instance = Nothing
  BY <1>2 DEF NoPend
<1> QED BY <1>2, <1>3, <1>4, <1>5, QuietKeepsInv

\* A step to the next statement that writes no row.
LEMMA GoKeepsInv ==
  ASSUME Inv, NEW r \in Requests, NEW n \in Places, Goto(r, n), pc[r] # "done", n # "done",
         UNCHANGED <<req, ans, tables, pend, clock, before>>,
         pick' \in [Requests -> [roots : SUBSET Ids, primary : Ids \cup {Nothing}]],
         \A o \in Requests \ {r} : pick'[o] = pick[o],
         Fits(r)'
  PROVE  Inv'
<1>1. pc' = [pc EXCEPT ![r] = n]
  BY DEF Goto
<1>2. \A o \in Requests \ {r} : Rests(o)
  BY <1>1 DEF Inv, TypeOK, Rests
<1>3. TypeOK'
  BY <1>1 DEF Inv, TypeOK, tables
<1>4. ans'[r] = [code |-> "none", cause |-> "none"]
  BY DEF Inv, Fits, Asked
<1> QED BY <1>2, <1>3, <1>4, QuietKeepsInv

-----------------------------------------------------------------------------
(* Steps                                                                    *)

AskHost(h) == [Shape EXCEPT !.kind = "probe", !.host = h]
AskRoot(i) == [Shape EXCEPT !.kind = "check", !.root = i]
AskInstance(i) == [Shape EXCEPT !.kind = "get", !.instance = i]
NewHost(n) == [Shape EXCEPT !.kind = "host", !.name = n]

\* What every request consists of.
LEMMA RequestForms ==
  ASSUME NEW q \in Requestable
  PROVE  \/ q \in {Shape, [Shape EXCEPT !.kind = "ssh"]}
         \/ \E h \in Known(hosts) : q = AskHost(h)
         \/ \E i \in Known(roots) : q = AskRoot(i)
         \/ \E i \in Known(instances) : q = AskInstance(i)
         \/ \E n \in Names \cup {"local"} : q = NewHost(n)
         \/ \E h \in Known(hosts), p \in Paths \cup {"shared"} : q = RootRequest(h, p)
         \/ \E h \in Present(hosts), s \in Slugs, p \in Known(roots), m \in RootLists :
              /\ m = <<>> \/ (\E a \in Known(roots) : m = <<a>>)
                          \/ (\E a, b \in Present(roots) : m = <<a, b>>)
              /\ q = BoundRequest(h, s, m, p)
         \/ \E h \in Known(hosts), s \in Slugs, c \in Choices : q = ChoiceRequest(h, s, c)
<1>1. CASE q \in Lookups
  <2>1. q \in {Shape} \cup {AskHost(h) : h \in Known(hosts)} \cup {AskRoot(i) : i \in Known(roots)}
                \cup {AskInstance(i) : i \in Known(instances)}
    BY <1>1 DEF Lookups, AskHost, AskRoot, AskInstance
  <2> QED BY <2>1
<1>2. CASE q \in HostCreateRequest
  <2>1. q \in {[Shape EXCEPT !.kind = "ssh"]} \cup {NewHost(n) : n \in Names \cup {"local"}}
    BY <1>2 DEF HostCreateRequest, NewHost
  <2> QED BY <2>1
<1>3. CASE q \in ModelRootCreateRequest
  BY <1>3 DEF ModelRootCreateRequest
<1>4. CASE q \in InstanceCreateRequest
  <2>1. \/ q \in {BoundRequest(h, s, m, p) :
                    h \in Present(hosts), s \in Slugs, m \in RootLists, p \in Known(roots)}
        \/ q \in {ChoiceRequest(h, s, c) : h \in Known(hosts), s \in Slugs, c \in Choices}
    BY <1>4 DEF InstanceCreateRequest
  <2>2. ASSUME NEW m \in RootLists
        PROVE  m = <<>> \/ (\E a \in Known(roots) : m = <<a>>)
                        \/ (\E a, b \in Present(roots) : m = <<a, b>>)
    <3>1. CASE m \in Present(roots) \X Present(roots)
      <4>1. m = <<m[1], m[2]>> /\ m[1] \in Present(roots) /\ m[2] \in Present(roots)
        BY <3>1
      <4> QED BY <4>1
    <3> QED BY <2>2, <3>1 DEF RootLists
  <2>3. CASE q \in {ChoiceRequest(h, s, c) : h \in Known(hosts), s \in Slugs, c \in Choices}
    BY <2>3
  <2>4. CASE q \in {BoundRequest(h, s, m, p) :
                      h \in Present(hosts), s \in Slugs, m \in RootLists, p \in Known(roots)}
    <3>1. PICK h \in Present(hosts), s \in Slugs, m \in RootLists, p \in Known(roots) :
            q = BoundRequest(h, s, m, p)
      BY <2>4
    <3> QED BY <2>2, <3>1
  <2> QED BY <2>1, <2>3, <2>4
<1> QED BY <1>1, <1>2, <1>3, <1>4 DEF Requestable

LEMMA RequestShape ==
  ASSUME NEW q \in Requestable
  PROVE  /\ q \in Request
         /\ q.kind = "host" => q.name \in Names \cup {"local"}
         /\ q.kind = "root" => q.path \in Paths \cup {"shared"}
         /\ q.kind = "instance" => q.slug \in Slugs /\ (q.roots # <<>> => Entries(q.roots) # {})
<1> DEFINE Ok(x) ==
      /\ x \in Request
      /\ x.kind = "host" => x.name \in Names \cup {"local"}
      /\ x.kind = "root" => x.path \in Paths \cup {"shared"}
      /\ x.kind = "instance" => x.slug \in Slugs /\ (x.roots # <<>> => Entries(x.roots) # {})
<1>0. /\ Known(hosts) \subseteq Ids \cup {Nothing} /\ Known(roots) \subseteq Ids \cup {Nothing}
      /\ Known(instances) \subseteq Ids \cup {Nothing}
      /\ Present(hosts) \subseteq Ids /\ Present(roots) \subseteq Ids
  BY DEF Known, Present
<1>1. Shape \in Request /\ NoChoice \in Choices
  <2>1. NoChoice \in Choices
    BY DEF Choices
  <2> QED BY <2>1 DEF Shape, Request
<1>2. Ok(Shape) /\ Ok([Shape EXCEPT !.kind = "ssh"])
  BY <1>1 DEF Shape, Request
<1>3. \A h \in Ids \cup {Nothing} : Ok(AskHost(h)) /\ Ok(AskRoot(h)) /\ Ok(AskInstance(h))
  <2>1. \A h \in Ids \cup {Nothing} : Ok(AskHost(h))
    BY <1>1 DEF Shape, Request, AskHost
  <2>2. \A h \in Ids \cup {Nothing} : Ok(AskRoot(h))
    BY <1>1 DEF Shape, Request, AskRoot
  <2>3. \A h \in Ids \cup {Nothing} : Ok(AskInstance(h))
    BY <1>1 DEF Shape, Request, AskInstance
  <2> HIDE DEF Ok
  <2> QED BY <2>1, <2>2, <2>3
<1>4. \A n \in Names \cup {"local"} : Ok(NewHost(n))
  BY <1>1 DEF Shape, Request, NewHost
<1>5. ASSUME NEW h \in Ids \cup {Nothing}, NEW p \in Paths \cup {"shared"}
      PROVE  Ok(RootRequest(h, p))
  <2>1. RootRequest(h, p) \in Request
    BY <1>1 DEF Shape, Request, RootRequest
  <2>2. RootRequest(h, p).kind = "root" /\ RootRequest(h, p).path = p
    BY DEF Shape, RootRequest
  <2> QED BY <2>1, <2>2
<1>6. ASSUME NEW h \in Ids \cup {Nothing}, NEW s \in Slugs
      PROVE  /\ SlugRequest(h, s) \in Request /\ SlugRequest(h, s).kind = "instance"
             /\ SlugRequest(h, s).slug = s /\ SlugRequest(h, s).roots = <<>>
  BY <1>1 DEF Shape, Request, SlugRequest
<1>7. ASSUME NEW h \in Ids \cup {Nothing}, NEW s \in Slugs, NEW c \in Choices
       PROVE  Ok(ChoiceRequest(h, s, c))
  <2> DEFINE x == SlugRequest(h, s)
  <2>1. x \in Request /\ x.kind = "instance" /\ x.slug = s /\ x.roots = <<>>
    BY <1>6
  <2> HIDE DEF x
  <2>2. /\ [x EXCEPT !.choice = c] \in Request /\ [x EXCEPT !.choice = c].kind = x.kind
        /\ [x EXCEPT !.choice = c].slug = x.slug /\ [x EXCEPT !.choice = c].roots = x.roots
    BY <2>1 DEF Request
  <2>3. ChoiceRequest(h, s, c) = [x EXCEPT !.choice = c]
    BY DEF ChoiceRequest, x
  <2> QED BY <2>1, <2>2, <2>3
<1>8. ASSUME NEW h \in Ids, NEW s \in Slugs, NEW p \in Ids \cup {Nothing},
             NEW m \in Seq(Ids \cup {Nothing}), m # <<>> => Entries(m) # {}
      PROVE  Ok(BoundRequest(h, s, m, p))
  <2> DEFINE x == SlugRequest(h, s)
  <2>1. x \in Request /\ x.kind = "instance" /\ x.slug = s
    BY <1>6
  <2> HIDE DEF x
  <2> DEFINE y == [x EXCEPT !.roots = m, !.primary = p]
  <2>2. y \in Request /\ y.kind = x.kind /\ y.slug = x.slug /\ y.roots = m
    BY <2>1 DEF Request
  <2>3. BoundRequest(h, s, m, p) = y
    BY DEF BoundRequest, x
  <2> HIDE DEF y
  <2> QED BY <1>8, <2>1, <2>2, <2>3
<1>9. <<>> \in Seq(Ids \cup {Nothing})
  OBVIOUS
<1>10. ASSUME NEW a \in Ids \cup {Nothing}
      PROVE  <<a>> \in Seq(Ids \cup {Nothing}) /\ Entries(<<a>>) # {}
  <2>1. <<a>>[1] \in Entries(<<a>>)
    BY DEF Entries
  <2> QED BY <2>1
<1>11. ASSUME NEW a \in Ids, NEW b \in Ids
       PROVE  <<a, b>> \in Seq(Ids \cup {Nothing}) /\ Entries(<<a, b>>) # {}
  <2>1. <<a, b>>[1] \in Entries(<<a, b>>)
    BY DEF Entries
  <2> QED BY <2>1
<1>12. Ok(q)
  <2> HIDE DEF Ok
  <2>1. ASSUME NEW h \in Present(hosts), NEW s \in Slugs, NEW p \in Known(roots), NEW m,
               m = <<>> \/ (\E a \in Known(roots) : m = <<a>>)
                        \/ (\E a, b \in Present(roots) : m = <<a, b>>)
        PROVE  Ok(BoundRequest(h, s, m, p))
    <3>1. m \in Seq(Ids \cup {Nothing}) /\ (m # <<>> => Entries(m) # {})
      BY <1>0, <1>9, <1>10, <1>11, <2>1
    <3> QED BY <1>0, <1>8, <3>1
  <2> QED BY <1>0, <1>2, <1>3, <1>4, <1>5, <1>7, <2>1, RequestForms
<1> QED BY <1>12

LEMMA BeginKeepsInv ==
  ASSUME Inv, NEW r \in Requests, Begin(r)
  PROVE  Inv'
<1>1. PICK q \in Requestable : req' = [req EXCEPT ![r] = q] /\ pc' = [pc EXCEPT ![r] = Entry(q)]
  BY DEF Begin, Goto
<1>2. /\ pc[r] = "idle" /\ UNCHANGED <<ans, tables, pend, pick, clock>>
      /\ before' = [before EXCEPT ![r] = Present(hosts) \cup Present(roots) \cup Present(instances)]
  BY DEF Begin, work
<1>3. /\ Entry(q) \in {"local", "host", "root_host", "host_of", "probe", "check", "get"}
      /\ Entry(q) = "local" => q.kind = "list"
      /\ Entry(q) = "host" => q.kind \in {"host", "ssh"}
      /\ Entry(q) = "root_host" => q.kind = "root"
      /\ Entry(q) = "host_of" => q.kind = "instance"
      /\ Entry(q) \in {"probe", "check", "get"} => q.kind = Entry(q)
  BY RequestShape DEF Entry, Request
<1>4. /\ req'[r] = q /\ pc'[r] = Entry(q)
      /\ before'[r] = Present(hosts) \cup Present(roots) \cup Present(instances)
      /\ \A o \in Requests \ {r} : Rests(o)
  <2>1. req'[r] = q /\ \A o \in Requests \ {r} : req'[o] = req[o]
    BY <1>1 DEF Inv, TypeOK
  <2> QED BY <1>1, <1>2, <2>1 DEF Inv, TypeOK, Rests
<1>5. TypeOK'
  <2>1. before' \in [Requests -> SUBSET Ids]
    BY <1>2 DEF Inv, TypeOK, Present
  <2>2. pc' \in [Requests -> Places]
    BY <1>1, <1>3 DEF Inv, TypeOK, Places
  <2>3. req' \in [Requests -> Request]
    BY <1>1, RequestShape DEF Inv, TypeOK
  <2> QED BY <1>2, <2>1, <2>2, <2>3 DEF Inv, TypeOK, tables
<1>6. Asked(r) /\ Written(r) /\ Fresh(r)
  BY DEF Inv, Fits
<1>7. ans'[r] = [code |-> "none", cause |-> "none"] /\ pend'[r] = NoPend
  BY <1>2, <1>6 DEF Asked, Written
<1>8. Asked(r)'
  BY <1>3, <1>4, <1>7, RequestShape DEF Asked
<1>9. Written(r)'
  BY <1>3, <1>4, <1>7 DEF Written
<1>10. Fresh(r)'
  <2>1. /\ hosts[r] = Nothing /\ roots[r] = Nothing /\ instances[r] = Nothing
        /\ \A o \in Requests : r \notin before[o]
    BY <1>2, <1>6 DEF Fresh
  <2>2. r \notin before'[r]
    BY <1>4, <2>1 DEF Present
  <2> QED BY <1>2, <1>4, <2>1, <2>2 DEF Fresh, Rests, tables
<1>11. Missed(r)'
  BY <1>3, <1>4 DEF Missed
<1>12. Fits(r)'
  BY <1>8, <1>9, <1>10, <1>11 DEF Fits
<1>13. pend'[r].instance = Nothing
  BY <1>7 DEF NoPend
<1> QED BY <1>2, <1>4, <1>5, <1>7, <1>12, <1>13, QuietKeepsInv

\* A step that writes a row of r's transaction.
LEMMA WriteKeepsInv ==
  ASSUME Inv, NEW r \in Requests, NEW n \in Places, Goto(r, n), pc[r] # "done", n # "done",
         NEW new \in [host : HostRow \cup {Nothing}, root : RootRow \cup {Nothing},
                      instance : InstanceRow \cup {Nothing}],
         pend' = [pend EXCEPT ![r] = new], clock' \in Nat,
         UNCHANGED <<req, ans, tables, pick, before>>, Fits(r)',
         \/ new.instance = Nothing
         \/ /\ pend[r].instance # Nothing /\ new.instance.host = pend[r].instance.host
            /\ new.instance.slug = pend[r].instance.slug
         \/ /\ ~SlugTaken(new.instance.host, new.instance.slug)
            /\ ~SlugBusy(r, new.instance.host, new.instance.slug)
  PROVE  Inv'
<1>1. pc' = [pc EXCEPT ![r] = n]
  BY DEF Goto
<1>2. pend'[r] = new /\ \A o \in Requests \ {r} : Rests(o)
  BY <1>1 DEF Inv, TypeOK, Rests
<1>3. TypeOK'
  BY <1>1 DEF Inv, TypeOK, tables
<1>4. ans'[r] = [code |-> "none", cause |-> "none"]
  BY DEF Inv, Fits, Asked
<1> QED BY <1>2, <1>3, <1>4, QuietKeepsInv

\* The rows of r's transaction become visible.
LEMMA PublishKeepsInv ==
  ASSUME Inv, NEW r \in Requests, pc[r] \in {"commit", "seed_commit"}, Publish(r),
         NEW n \in {"list", "done"}, Goto(r, n), n = "list" => pc[r] = "seed_commit",
         pend' = [pend EXCEPT ![r] = NoPend], UNCHANGED <<req, pick, clock, before>>,
         NEW a \in [code : Codes, cause : {"none", "key", "driver"}],
         ans' = [ans EXCEPT ![r] = a], n = "list" => a = ans[r],
         a.code \in {"none", "OK", "INTERNAL_ERROR"}, a.cause # "key"
  PROVE  Inv'
<1>1. pc' = [pc EXCEPT ![r] = n]
  BY DEF Goto
<1>2. /\ pc'[r] = n /\ pend'[r] = NoPend /\ ans'[r] = a
      /\ \A o \in Requests \ {r} : Rests(o)
  BY <1>1 DEF Inv, TypeOK, Rests
<1>3. /\ r \in Ids /\ hosts[r] = Nothing /\ roots[r] = Nothing /\ instances[r] = Nothing
      /\ \A o \in Requests : r \notin before[o]
  BY DEF Inv, Fits, Fresh, Ids
<1>4. /\ hosts'[r] = pend[r].host /\ roots'[r] = pend[r].root /\ instances'[r] = pend[r].instance
      /\ \A i \in Ids \ {r} :
           hosts'[i] = hosts[i] /\ roots'[i] = roots[i] /\ instances'[i] = instances[i]
  BY <1>3 DEF Publish, Inv, TypeOK
<1>5. Grows(r)
  BY <1>3, <1>4 DEF Grows
<1>6. TypeOK'
  <2>1. /\ hosts' \in [Ids -> HostRow \cup {Nothing}] /\ roots' \in [Ids -> RootRow \cup {Nothing}]
        /\ instances' \in [Ids -> InstanceRow \cup {Nothing}]
    BY DEF Publish, Inv, TypeOK
  <2>2. NoPend \in [host : HostRow \cup {Nothing}, root : RootRow \cup {Nothing},
                    instance : InstanceRow \cup {Nothing}]
    BY DEF NoPend
  <2>3. pend' \in [Requests -> [host : HostRow \cup {Nothing}, root : RootRow \cup {Nothing},
                                instance : InstanceRow \cup {Nothing}]]
    BY <2>2 DEF Inv, TypeOK
  <2>4. pc' \in [Requests -> Places]
    BY <1>1 DEF Inv, TypeOK, Places
  <2>5. ans' \in [Requests -> [code : Codes, cause : {"none", "key", "driver"}]]
    BY DEF Inv, TypeOK
  <2> QED BY <2>1, <2>3, <2>4, <2>5 DEF Inv, TypeOK
<1>7. Fits(r)'
  <2>1. Asked(r) /\ (n = "list" => req[r].kind = "list")
    BY DEF Inv, Fits, Asked
  <2>2. Asked(r)'
    BY <1>2, <2>1 DEF Asked
  <2>3. Written(r)' /\ Fresh(r)' /\ Missed(r)'
    BY <1>2 DEF Written, Fresh, Missed
  <2> QED BY <2>2, <2>3 DEF Fits
<1>8. ASSUME NEW o \in Requests \ {r} PROVE Fits(o)'
  BY <1>2, <1>5, OthersFit
<1>9. Apart'
  <2>1. pend'[r].instance = Nothing
    BY <1>2 DEF NoPend
  <2> QED BY <1>2, <2>1 DEF Inv, Apart, Rests
<1>10. Settled'
  <2> SUFFICES ASSUME NEW o \in Requests, pend'[o].instance # Nothing,
                      NEW i \in Ids, instances'[i] # Nothing,
                      instances'[i].host = pend'[o].instance.host,
                      instances'[i].slug = pend'[o].instance.slug
               PROVE  FALSE
    BY DEF Settled, SlugTaken, Present
  <2>1. o # r /\ pend'[o] = pend[o]
    BY <1>2 DEF NoPend, Rests
  <2>2. CASE i = r
    BY <1>4, <2>1, <2>2 DEF Inv, Apart
  <2>3. CASE i # r
    BY <1>4, <2>1, <2>3 DEF Inv, Settled, SlugTaken, Present
  <2> QED BY <2>2, <2>3
<1>11. Present(instances)' \subseteq Requests
  BY <1>4 DEF Inv, Present
<1>12. InstancesAreWellFormed'
  <2>1. ASSUME NEW i \in Present(instances)'
        PROVE  /\ \A m \in instances'[i].roots :
                    roots'[m] # Nothing /\ roots'[m].host = instances'[i].host
               /\ instances'[i].primary # Nothing => instances'[i].primary \in instances'[i].roots
               /\ instances'[i].roots = {} =>
                    ~\E m \in before'[i] : roots'[m] # Nothing /\ roots'[m].host = instances'[i].host
    <3>1. i \in Ids /\ i \in Requests /\ instances'[i] # Nothing
      BY <1>11 DEF Present
    <3>2. Suits(instances'[i].host, instances'[i].roots, instances'[i].primary, before[i])
      <4>1. CASE i = r
        <5>1. pc[r] = "commit" /\ instances'[i] = pend[r].instance
          BY <1>4, <3>1, <4>1 DEF Inv, Fits, Written
        <5> QED BY <3>1, <4>1, <5>1 DEF Inv, Fits, Written
      <4>2. CASE i # r
        <5>1. i \in Present(instances) /\ instances'[i] = instances[i]
          BY <1>4, <3>1, <4>2 DEF Present
        <5> QED BY <5>1 DEF Inv, InstancesAreWellFormed, Suits
      <4> QED BY <4>1, <4>2
    <3>3. instances'[i].roots \in SUBSET Ids
      BY <1>6, <3>1 DEF TypeOK, InstanceRow
    <3>4. \A m \in instances'[i].roots : roots'[m] = roots[m]
      BY <1>5, <3>2, <3>3, RowsStay DEF Suits
    <3>5. \A m \in before[i] : roots'[m] = roots[m]
      BY <1>5, <3>1, SeenStays
    <3> QED BY <3>2, <3>4, <3>5 DEF Suits
  <2>2. ASSUME NEW i \in Present(instances)', NEW j \in Present(instances)', i # j,
               instances'[i].host = instances'[j].host
        PROVE  instances'[i].slug # instances'[j].slug
    <3>1. /\ i \in Ids /\ instances'[i] # Nothing /\ j \in Ids /\ instances'[j] # Nothing
      BY DEF Present
    <3>2. CASE i # r /\ j # r
      BY <1>4, <2>2, <3>1, <3>2 DEF Inv, InstancesAreWellFormed, Present
    <3>3. CASE i = r
      BY <1>4, <2>2, <3>1, <3>3 DEF Inv, Settled, SlugTaken, Present
    <3>4. CASE j = r
      BY <1>4, <2>2, <3>1, <3>4 DEF Inv, Settled, SlugTaken, Present
    <3> QED BY <3>2, <3>3, <3>4
  <2> QED BY <2>1, <2>2 DEF InstancesAreWellFormed
<1>13. DefaultHostComplete'
  <2> SUFFICES ASSUME NEW i \in Present(hosts)', hosts'[i].seeded
               PROVE  \E m \in Present(roots)' : roots'[m].host = i /\ roots'[m].path = "shared"
    BY DEF DefaultHostComplete
  <2>1. i \in Ids /\ hosts'[i] # Nothing
    BY DEF Present
  <2>2. CASE i = r
    <3>1. pc[r] = "seed_commit"
      <4>1. pc[r] = "commit" => pend[r].host.seeded = FALSE
        BY <1>4, <2>1, <2>2 DEF Inv, Fits, Written
      <4> QED BY <1>4, <2>2, <4>1
    <3>2. roots'[r] # Nothing /\ roots'[r].host = r /\ roots'[r].path = "shared"
      BY <1>4, <3>1 DEF Inv, Fits, Written
    <3> QED BY <1>3, <2>2, <3>2 DEF Present
  <2>3. CASE i # r
    <3>1. i \in Present(hosts) /\ hosts[i].seeded
      BY <1>4, <2>1, <2>3 DEF Present
    <3>2. PICK m \in Present(roots) : roots[m].host = i /\ roots[m].path = "shared"
      BY <3>1 DEF Inv, DefaultHostComplete
    <3>3. m \in Present(roots)' /\ roots'[m] = roots[m]
      BY <1>5, RowsStay DEF Present
    <3> QED BY <3>2, <3>3
  <2> QED BY <2>2, <2>3
<1>14. OnlyRacesBreak'
  <2> SUFFICES ASSUME NEW o \in Requests, ans'[o].cause = "key"
               PROVE  \E i \in Ids \ before'[o] :
                 \/ req'[o].kind = "list" /\ i \in Present(hosts)' /\ hosts'[i].name = "local"
                 \/ /\ req'[o].kind = "instance" /\ i \in Present(instances)'
                    /\ instances'[i].host = req'[o].host /\ instances'[i].slug = req'[o].slug
    BY DEF OnlyRacesBreak
  <2>1. o # r /\ ans[o].cause = "key"
    BY <1>2 DEF Rests
  <2>2. PICK i \in Ids \ before[o] :
          \/ req[o].kind = "list" /\ i \in Present(hosts) /\ hosts[i].name = "local"
          \/ /\ req[o].kind = "instance" /\ i \in Present(instances)
             /\ instances[i].host = req[o].host /\ instances[i].slug = req[o].slug
    BY <2>1 DEF Inv, OnlyRacesBreak
  <2>3. /\ i \in Present(hosts) => i \in Present(hosts)' /\ hosts'[i] = hosts[i]
        /\ i \in Present(instances) => i \in Present(instances)' /\ instances'[i] = instances[i]
    BY <1>5, RowsStay DEF Present
  <2> QED BY <2>2, <2>3
<1>15. DeclaredErrorsOnly'
  <2>1. ASSUME NEW o \in Requests
        PROVE  ans'[o].code \in {"none", "OK"} \cup error_codes(req'[o].kind)
    <3>1. "INTERNAL_ERROR" \in error_codes(req[o].kind)
      BY DEF error_codes
    <3> QED BY <1>2, <3>1 DEF Inv, DeclaredErrorsOnly, Rests
  <2> QED BY <2>1 DEF DeclaredErrorsOnly
<1> QED BY <1>6, <1>7, <1>8, <1>9, <1>10, <1>11, <1>12, <1>13, <1>14, <1>15 DEF Inv

\* The codes an operation declares.
LEMMA Declared ==
  /\ \A k : {"REQUEST_INVALID", "INTERNAL_ERROR", "UNAUTHORIZED"} \subseteq error_codes(k)
  /\ \A k \in {"host", "ssh"} :
       "HOST_NAME_CONFLICT" \in error_codes(k) /\ "EXECUTOR_UNSUPPORTED" \in error_codes(k)
  /\ {"HOST_NOT_FOUND", "COMFYCTL_FAILED"} \subseteq error_codes("probe")
  /\ {"HOST_NOT_FOUND", "MODEL_ROOT_CONFLICT"} \subseteq error_codes("root")
  /\ {"MODEL_ROOT_NOT_FOUND", "COMFYCTL_FAILED"} \subseteq error_codes("check")
  /\ {"HOST_NOT_FOUND", "MODEL_ROOT_NOT_FOUND", "INSTANCE_SLUG_CONFLICT"}
       \subseteq error_codes("instance")
  /\ "INSTANCE_NOT_FOUND" \in error_codes("get")
  BY DEF error_codes, errors

LEMMA RefuseKeepsInv ==
  ASSUME Inv, NEW r \in Requests, Invalid(r) \/ Unauthorized(r)
  PROVE  Inv'
<1>1. PICK c \in {"REQUEST_INVALID", "UNAUTHORIZED"} : Refuse(r, c)
  BY DEF Invalid, Unauthorized
<1>2. c \in Codes /\ c \in error_codes(req[r].kind)
  BY Declared DEF Codes
<1> QED BY <1>1, <1>2, AnswerKeepsInv DEF Refuse, Answer

LEMMA SelectLocalKeepsInv ==
  ASSUME Inv, NEW r \in Requests, SelectLocal(r)
  PROVE  Inv'
<1> DEFINE n == IF HostTaken("local") THEN "list" ELSE "seed_host"
<1>1. /\ pc[r] = "local" /\ Goto(r, n) /\ UNCHANGED <<req, ans, tables, pend, pick, clock, before>>
  BY DEF SelectLocal, work
<1>2. n \in {"list", "seed_host"} /\ n \in Places
  BY DEF Places
<1>3. pc'[r] = n
  BY <1>1 DEF Goto, Inv, TypeOK
<1>4. Asked(r) /\ Written(r) /\ Fresh(r)
  BY DEF Inv, Fits
<1>5. Asked(r)'
  BY <1>1, <1>2, <1>3, <1>4 DEF Asked
<1>6. Written(r)'
  BY <1>1, <1>2, <1>3, <1>4 DEF Written
<1>7. Fresh(r)'
  BY <1>1, <1>2, <1>3, <1>4 DEF Fresh, tables
<1>8. Missed(r)'
  <2>1. before[r] \subseteq Ids
    BY DEF Inv, TypeOK
  <2> QED BY <1>1, <1>3, <2>1 DEF Missed, HostTaken, Present, tables
<1>9. Fits(r)'
  BY <1>5, <1>6, <1>7, <1>8 DEF Fits
<1> HIDE DEF n
<1> QED BY <1>1, <1>2, <1>9, GoKeepsInv DEF Inv, TypeOK

\* Writing one of the rows of a transaction.
LEMMA OneRow ==
  ASSUME Inv, NEW r \in Requests, NEW x
  PROVE  /\ [pend EXCEPT ![r].host = x] =
              [pend EXCEPT ![r] = [host |-> x, root |-> pend[r].root, instance |-> pend[r].instance]]
         /\ [pend EXCEPT ![r].root = x] =
              [pend EXCEPT ![r] = [host |-> pend[r].host, root |-> x, instance |-> pend[r].instance]]
         /\ [pend EXCEPT ![r].instance = x] =
              [pend EXCEPT ![r] = [host |-> pend[r].host, root |-> pend[r].root, instance |-> x]]
<1>1. pend[r] \in [host : HostRow \cup {Nothing}, root : RootRow \cup {Nothing},
                   instance : InstanceRow \cup {Nothing}]
  BY DEF Inv, TypeOK
<1>2. [pend[r] EXCEPT !.host = x] =
        [host |-> x, root |-> pend[r].root, instance |-> pend[r].instance]
  BY <1>1
<1>3. [pend[r] EXCEPT !.root = x] =
        [host |-> pend[r].host, root |-> x, instance |-> pend[r].instance]
  BY <1>1
<1>4. [pend[r] EXCEPT !.instance = x] =
        [host |-> pend[r].host, root |-> pend[r].root, instance |-> x]
  BY <1>1
<1> QED BY <1>2, <1>3, <1>4 DEF Inv, TypeOK

LEMMA SeedHostKeepsInv ==
  ASSUME Inv, NEW r \in Requests, SeedHost(r)
  PROVE  Inv'
<1>1. pc[r] = "seed_host" /\ UNCHANGED <<req, tables, pick, clock, before>>
  BY DEF SeedHost
<1>2. Asked(r) /\ Written(r) /\ Fresh(r) /\ Missed(r)
  BY DEF Inv, Fits
<1>3. CASE HostTaken("local")
  <2>1. PICK i \in Present(hosts) : hosts[i].name = "local"
    BY <1>3 DEF HostTaken
  <2>2. i \in Ids \ before[r]
    BY <1>1, <1>2, <2>1 DEF Missed, Present
  <2>3. "INTERNAL_ERROR" \in Codes /\ "INTERNAL_ERROR" \in error_codes(req[r].kind)
    BY Declared DEF Codes
  <2>4. req[r].kind = "list" /\ AnswerFor(r, "INTERNAL_ERROR", "key")
    BY <1>1, <1>2, <1>3 DEF Asked, SeedHost
  <2> QED BY <1>1, <2>1, <2>2, <2>3, <2>4, AnswerKeepsInv
<1>4. CASE ~HostTaken("local")
  <2> DEFINE row == [name |-> "local", seeded |-> TRUE]
  <2> DEFINE new == [host |-> row, root |-> Nothing, instance |-> Nothing]
  <2>1. /\ pend' = [pend EXCEPT ![r].host = row] /\ Goto(r, "seed_root") /\ UNCHANGED ans
    BY <1>4 DEF SeedHost
  <2>2. row \in HostRow
    BY DEF HostRow
  <2> HIDE DEF row
  <2>3. pend' = [pend EXCEPT ![r] = new]
    <3>1. pend[r] = NoPend
      BY <1>1, <1>2 DEF Written
    <3>2. pend[r].root = Nothing /\ pend[r].instance = Nothing
      BY <3>1 DEF NoPend
    <3>3. [host |-> row, root |-> pend[r].root, instance |-> pend[r].instance] = new
      BY <3>2
    <3> HIDE DEF new
    <3> QED BY <2>1, <3>3, OneRow
  <2>4. pend'[r] = new /\ pc'[r] = "seed_root"
    BY <2>1, <2>3 DEF Goto, Inv, TypeOK
  <2>5. Fits(r)'
    <3>1. Asked(r)'
      BY <1>1, <1>2, <2>1, <2>4 DEF Asked
    <3>2. Written(r)'
      BY <2>4 DEF Written
    <3>3. Fresh(r)' /\ Missed(r)'
      BY <1>1, <1>2, <2>4 DEF Fresh, Missed, tables
    <3> QED BY <3>1, <3>2, <3>3 DEF Fits
  <2>6. /\ new \in [host : HostRow \cup {Nothing}, root : RootRow \cup {Nothing},
                    instance : InstanceRow \cup {Nothing}]
        /\ new.instance = Nothing /\ "seed_root" \in Places /\ clock' \in Nat
    BY <1>1, <2>2 DEF Places, Inv, TypeOK
  <2> HIDE DEF new
  <2> QED BY <1>1, <2>1, <2>3, <2>5, <2>6, WriteKeepsInv
<1> QED BY <1>3, <1>4

LEMMA SeedRootKeepsInv ==
  ASSUME Inv, NEW r \in Requests, SeedRoot(r)
  PROVE  Inv'
<1> DEFINE row == [host |-> r, path |-> "shared", at |-> clock]
<1> DEFINE new == [host |-> pend[r].host, root |-> row, instance |-> pend[r].instance]
<1>1. /\ pc[r] = "seed_root" /\ UNCHANGED <<req, ans, tables, pick, before>>
      /\ pend' = [pend EXCEPT ![r].root = row] /\ clock' = clock + 1 /\ Goto(r, "seed_commit")
  BY DEF SeedRoot
<1>2. Asked(r) /\ Written(r) /\ Fresh(r)
  BY DEF Inv, Fits
<1>3. row \in RootRow /\ row # Nothing /\ row.host = r /\ row.path = "shared"
  <2>1. row \in RootRow
    BY DEF RootRow, Inv, TypeOK, Ids
  <2> QED BY <2>1, NothingAssumption
<1> HIDE DEF row
<1>4. pend' = [pend EXCEPT ![r] = new]
  BY <1>1, OneRow
<1>5. pend'[r] = new /\ pc'[r] = "seed_commit"
  BY <1>1, <1>4 DEF Goto, Inv, TypeOK
<1>6. new.instance = Nothing
  BY <1>1, <1>2 DEF Written
<1>7. Fits(r)'
  <2>1. Asked(r)'
    BY <1>1, <1>2, <1>5 DEF Asked
  <2>2. Written(r)'
    BY <1>3, <1>5, <1>6 DEF Written
  <2>3. Fresh(r)' /\ Missed(r)'
    BY <1>1, <1>2, <1>5 DEF Fresh, Missed, tables
  <2> QED BY <2>1, <2>2, <2>3 DEF Fits
<1>8. /\ new \in [host : HostRow \cup {Nothing}, root : RootRow \cup {Nothing},
                  instance : InstanceRow \cup {Nothing}]
      /\ "seed_commit" \in Places /\ clock' \in Nat
  BY <1>1, <1>3 DEF Places, Inv, TypeOK
<1> HIDE DEF new
<1> QED BY <1>1, <1>4, <1>6, <1>7, <1>8, WriteKeepsInv

LEMMA SeedCommitKeepsInv ==
  ASSUME Inv, NEW r \in Requests, SeedCommit(r)
  PROVE  Inv'
<1> DEFINE a == ans[r]
<1>1. a.code = "none" /\ a.cause = "none"
  BY DEF SeedCommit, Inv, Fits, Asked
<1>2. a \in [code : Codes, cause : {"none", "key", "driver"}]
  BY DEF Inv, TypeOK
<1>3. ans' = [ans EXCEPT ![r] = a] /\ a = ans[r]
  BY DEF SeedCommit, Inv, TypeOK
<1>4. /\ pc[r] = "seed_commit" /\ Publish(r) /\ Goto(r, "list")
      /\ pend' = [pend EXCEPT ![r] = NoPend] /\ UNCHANGED <<req, pick, clock, before>>
  BY DEF SeedCommit
<1> HIDE DEF a
<1> QED BY <1>1, <1>2, <1>3, <1>4, PublishKeepsInv

LEMMA CommitKeepsInv ==
  ASSUME Inv, NEW r \in Requests, Commit(r)
  PROVE  Inv'
<1> DEFINE a == [code |-> "OK", cause |-> "none"]
<1>1. a \in [code : Codes, cause : {"none", "key", "driver"}] /\ a.code = "OK" /\ a.cause = "none"
  BY DEF Codes
<1>2. /\ pc[r] = "commit" /\ Publish(r) /\ Goto(r, "done") /\ ans' = [ans EXCEPT ![r] = a]
      /\ pend' = [pend EXCEPT ![r] = NoPend] /\ UNCHANGED <<req, pick, clock, before>>
  BY DEF Commit, Answer, AnswerFor
<1> HIDE DEF a
<1> QED BY <1>1, <1>2, PublishKeepsInv

LEMMA FailKeepsInv ==
  ASSUME Inv, NEW r \in Requests, Fail(r)
  PROVE  Inv'
<1> DEFINE a == [code |-> "INTERNAL_ERROR", cause |-> "driver"]
<1>1. /\ a \in [code : Codes, cause : {"none", "key", "driver"}]
      /\ a.code = "INTERNAL_ERROR" /\ a.cause = "driver" /\ "INTERNAL_ERROR" \in Codes
  BY DEF Codes
<1>2. "INTERNAL_ERROR" \in error_codes(req[r].kind)
  BY Declared
<1>3. /\ AnswerFor(r, "INTERNAL_ERROR", "driver") /\ UNCHANGED <<req, pick, clock, before>>
      /\ UNCHANGED tables \/ (pc[r] \in {"commit", "seed_commit"} /\ Publish(r))
  BY DEF Fail
<1>4. CASE UNCHANGED tables
  BY <1>1, <1>2, <1>3, <1>4, AnswerKeepsInv
<1>5. CASE pc[r] \in {"commit", "seed_commit"} /\ Publish(r)
  <2>1. /\ Goto(r, "done") /\ ans' = [ans EXCEPT ![r] = a] /\ pend' = [pend EXCEPT ![r] = NoPend]
    BY <1>3 DEF AnswerFor
  <2> HIDE DEF a
  <2> QED BY <1>1, <1>3, <1>5, <2>1, PublishKeepsInv
<1> QED BY <1>3, <1>4, <1>5

LEMMA ListKeepsInv ==
  ASSUME Inv, NEW r \in Requests, List(r)
  PROVE  Inv'
<1>1. "OK" \in Codes
  BY DEF Codes
<1> QED BY <1>1, AnswerKeepsInv DEF List, Answer

\* A transaction of r that has written one row and is about to commit it.
LEMMA ReadyFits ==
  ASSUME Inv, NEW r \in Requests, pc[r] \in {"host", "root"}, pc'[r] = "commit",
         UNCHANGED <<req, ans, tables, pick, before>>,
         pend'[r].instance = Nothing, pend'[r].host # Nothing => pend'[r].host.seeded = FALSE
  PROVE  Fits(r)'
<1>1. Asked(r) /\ Fresh(r)
  BY DEF Inv, Fits
<1>2. Asked(r)'
  BY <1>1 DEF Asked
<1>3. Written(r)'
  BY DEF Written
<1>4. Fresh(r)' /\ Missed(r)'
  BY <1>1 DEF Fresh, Missed, tables
<1> QED BY <1>2, <1>3, <1>4 DEF Fits

LEMMA InsertHostKeepsInv ==
  ASSUME Inv, NEW r \in Requests, InsertHost(r)
  PROVE  Inv'
<1>1. /\ pc[r] = "host" /\ UNCHANGED <<req, tables, pick, clock, before>>
      /\ \/ req[r].kind = "ssh" /\ Answer(r, "EXECUTOR_UNSUPPORTED")
         \/ req[r].kind = "host" /\ Answer(r, "HOST_NAME_CONFLICT")
         \/ /\ req[r].kind = "host"
            /\ pend' = [pend EXCEPT ![r].host = [name |-> req[r].name, seeded |-> FALSE]]
            /\ Goto(r, "commit") /\ UNCHANGED ans
  BY DEF InsertHost
<1>2. ASSUME NEW c \in {"EXECUTOR_UNSUPPORTED", "HOST_NAME_CONFLICT"}, Answer(r, c) PROVE Inv'
  <2>1. c \in Codes
    BY DEF Codes
  <2>2. c \in error_codes(req[r].kind)
    BY <1>1, Declared DEF Inv, Fits, Asked
  <2> QED BY <1>1, <1>2, <2>1, <2>2, AnswerKeepsInv DEF Answer
<1>3. CASE /\ req[r].kind = "host"
           /\ pend' = [pend EXCEPT ![r].host = [name |-> req[r].name, seeded |-> FALSE]]
           /\ Goto(r, "commit") /\ UNCHANGED ans
  <2> DEFINE row == [name |-> req[r].name, seeded |-> FALSE]
  <2> DEFINE new == [host |-> row, root |-> Nothing, instance |-> Nothing]
  <2>1. row \in HostRow /\ row.seeded = FALSE
    <3>1. req[r].name \in Names \cup {"local"}
      BY <1>3 DEF Inv, Fits, Asked
    <3> QED BY <3>1 DEF HostRow
  <2>2. pend' = [pend EXCEPT ![r].host = row]
    BY <1>3
  <2> HIDE DEF row
  <2>3. pend[r].root = Nothing /\ pend[r].instance = Nothing
    BY <1>1 DEF Inv, Fits, Written, NoPend
  <2>4. [host |-> row, root |-> pend[r].root, instance |-> pend[r].instance] = new
    BY <2>3
  <2>5. pend' = [pend EXCEPT ![r] = new]
    <3> HIDE DEF new
    <3> QED BY <2>2, <2>4, OneRow
  <2>6. pend'[r] = new /\ pc'[r] = "commit"
    BY <1>3, <2>5 DEF Goto, Inv, TypeOK
  <2>7. Fits(r)'
    <3>1. pend'[r].instance = Nothing /\ pend'[r].host = row
      BY <2>6
    <3> QED BY <1>1, <1>3, <2>1, <2>6, <3>1, ReadyFits
  <2>8. /\ new \in [host : HostRow \cup {Nothing}, root : RootRow \cup {Nothing},
                    instance : InstanceRow \cup {Nothing}]
        /\ new.instance = Nothing /\ "commit" \in Places /\ clock' \in Nat
    BY <1>1, <2>1 DEF Places, Inv, TypeOK
  <2> HIDE DEF new
  <2> QED BY <1>1, <1>3, <2>5, <2>7, <2>8, WriteKeepsInv
<1> QED BY <1>1, <1>2, <1>3

\* A look-up of the host a request names.
LEMMA HostFoundKeepsInv ==
  ASSUME Inv, NEW r \in Requests, NEW n \in {"root", "slug", "smi"},
         <<pc[r], n>> \in {<<"root_host", "root">>, <<"host_of", "slug">>, <<"probe", "smi">>},
         UNCHANGED <<req, tables, pick, clock, before>>,
         IF req[r].host \in Present(hosts)
         THEN Goto(r, n) /\ UNCHANGED <<ans, pend>>
         ELSE Answer(r, "HOST_NOT_FOUND")
  PROVE  Inv'
<1>1. \/ pc[r] = "root_host" /\ n = "root"
      \/ pc[r] = "host_of" /\ n = "slug"
      \/ pc[r] = "probe" /\ n = "smi"
  OBVIOUS
<1>2. Asked(r) /\ Written(r) /\ Fresh(r)
  BY DEF Inv, Fits
<1>3. CASE req[r].host \in Present(hosts)
  <2>1. pc'[r] = n /\ Goto(r, n) /\ UNCHANGED <<ans, pend>> /\ n \in Places
    BY <1>3 DEF Goto, Inv, TypeOK, Places
  <2>2. Asked(r)'
    BY <1>1, <1>2, <1>3, <2>1 DEF Asked, Present, tables
  <2>3. Written(r)'
    BY <1>1, <1>2, <2>1 DEF Written
  <2>4. Fresh(r)' /\ Missed(r)'
    BY <1>1, <1>2, <2>1 DEF Fresh, Missed, tables
  <2>5. Fits(r)'
    BY <2>2, <2>3, <2>4 DEF Fits
  <2> QED BY <1>1, <2>1, <2>5, GoKeepsInv DEF Inv, TypeOK
<1>4. CASE req[r].host \notin Present(hosts)
  <2>1. "HOST_NOT_FOUND" \in Codes
    BY DEF Codes
  <2>2. req[r].kind \in {"root", "instance", "probe"}
    BY <1>1, <1>2 DEF Asked
  <2>3. "HOST_NOT_FOUND" \in error_codes(req[r].kind)
    BY <2>2, Declared
  <2> QED BY <1>4, <2>1, <2>3, AnswerKeepsInv DEF Answer
<1> QED BY <1>3, <1>4

LEMMA InsertRootKeepsInv ==
  ASSUME Inv, NEW r \in Requests, InsertRoot(r)
  PROVE  Inv'
<1>1. pc[r] = "root" /\ UNCHANGED <<req, tables, pick, before>>
  BY DEF InsertRoot
<1>2. Asked(r) /\ Written(r)
  BY DEF Inv, Fits
<1>3. CASE RootTaken(req[r].host, req[r].path)
  <2>1. Answer(r, "MODEL_ROOT_CONFLICT") /\ UNCHANGED clock
    BY <1>3 DEF InsertRoot
  <2>2. "MODEL_ROOT_CONFLICT" \in Codes /\ "MODEL_ROOT_CONFLICT" \in error_codes(req[r].kind)
    BY <1>1, <1>2, Declared DEF Codes, Asked
  <2> QED BY <1>1, <2>1, <2>2, AnswerKeepsInv DEF Answer
<1>4. CASE ~RootTaken(req[r].host, req[r].path)
  <2> DEFINE row == [host |-> req[r].host, path |-> req[r].path, at |-> clock]
  <2> DEFINE new == [host |-> Nothing, root |-> row, instance |-> Nothing]
  <2>1. /\ pend' = [pend EXCEPT ![r].root = row] /\ clock' = clock + 1
        /\ Goto(r, "commit") /\ UNCHANGED ans
    BY <1>4 DEF InsertRoot
  <2>2. row \in RootRow
    <3>1. /\ req[r].path \in Paths \cup {"shared"} /\ req[r].host \in Ids /\ clock \in Nat
      BY <1>1, <1>2 DEF Asked, Present, Inv, TypeOK
    <3> QED BY <3>1 DEF RootRow
  <2> HIDE DEF row
  <2>3. pend[r].host = Nothing /\ pend[r].instance = Nothing
    BY <1>1, <1>2 DEF Written, NoPend
  <2>4. [host |-> pend[r].host, root |-> row, instance |-> pend[r].instance] = new
    BY <2>3
  <2>5. pend' = [pend EXCEPT ![r] = new]
    <3> HIDE DEF new
    <3>1. [pend EXCEPT ![r].root = row] =
            [pend EXCEPT ![r] = [host |-> pend[r].host, root |-> row, instance |-> pend[r].instance]]
      BY OneRow
    <3> QED BY <2>1, <2>4, <3>1
  <2>6. pend'[r] = new /\ pc'[r] = "commit"
    BY <2>1, <2>5 DEF Goto, Inv, TypeOK
  <2>7. Fits(r)'
    <3>1. pend'[r].instance = Nothing /\ pend'[r].host = Nothing
      BY <2>6
    <3> QED BY <1>1, <2>1, <2>6, <3>1, ReadyFits
  <2>8. /\ new \in [host : HostRow \cup {Nothing}, root : RootRow \cup {Nothing},
                    instance : InstanceRow \cup {Nothing}]
        /\ new.instance = Nothing /\ "commit" \in Places /\ clock' \in Nat
    BY <2>1, <2>2 DEF Places, Inv, TypeOK
  <2> HIDE DEF new
  <2> QED BY <1>1, <2>1, <2>5, <2>7, <2>8, WriteKeepsInv
<1> QED BY <1>3, <1>4

LEMMA SelectSlugKeepsInv ==
  ASSUME Inv, NEW r \in Requests, SelectSlug(r)
  PROVE  Inv'
<1>1. pc[r] = "slug" /\ UNCHANGED <<req, tables, pick, clock, before>>
  BY DEF SelectSlug
<1>2. Asked(r) /\ Written(r) /\ Fresh(r)
  BY DEF Inv, Fits
<1>3. CASE SlugTaken(req[r].host, req[r].slug)
  <2>1. "INSTANCE_SLUG_CONFLICT" \in Codes /\ "INSTANCE_SLUG_CONFLICT" \in error_codes(req[r].kind)
    BY <1>1, <1>2, Declared DEF Codes, Asked
  <2> QED BY <1>1, <1>3, <2>1, AnswerKeepsInv DEF SelectSlug, Answer
<1>4. CASE ~SlugTaken(req[r].host, req[r].slug)
  <2>1. pc'[r] = "roots" /\ Goto(r, "roots") /\ UNCHANGED <<ans, pend>> /\ "roots" \in Places
    BY <1>4 DEF SelectSlug, Goto, Inv, TypeOK, Places
  <2>2. Asked(r)'
    BY <1>1, <1>2, <2>1 DEF Asked, Present, tables
  <2>3. Written(r)'
    BY <1>1, <1>2, <2>1 DEF Written
  <2>4. Fresh(r)'
    BY <1>1, <1>2, <2>1 DEF Fresh, tables
  <2>5. Missed(r)'
    <3>1. before[r] \subseteq Ids
      BY DEF Inv, TypeOK
    <3>2. \A i \in before[r] : instances[i] # Nothing =>
            ~(instances[i].host = req[r].host /\ instances[i].slug = req[r].slug)
      BY <1>4, <3>1 DEF SlugTaken, Present
    <3> QED BY <1>1, <2>1, <3>2 DEF Missed, tables
  <2>6. Fits(r)'
    BY <2>2, <2>3, <2>4, <2>5 DEF Fits
  <2> QED BY <1>1, <2>1, <2>6, GoKeepsInv DEF Inv, TypeOK
<1> QED BY <1>3, <1>4

LEMMA LeastNumber ==
  ASSUME NEW T \in SUBSET Nat, T # {}
  PROVE  \E t \in T : \A u \in T : t <= u
<1> DEFINE R == {ss \in Nat \X Nat : ss[1] < ss[2]}
<1>1. IsWellFoundedOn(R, Nat)
  BY NatLessThanWellFounded DEF OpToRel
<1>2. PICK t \in T : \A u \in T : ~(<<u, t>> \in R)
  <2> HIDE DEF R
  <2> QED BY <1>1, WFMin
<1>3. ASSUME NEW u \in T PROVE t <= u
  <2>1. u \in Nat /\ t \in Nat /\ ~(<<u, t>> \in R)
    BY <1>2
  <2>2. u < t => <<u, t>> \in R
    BY <2>1
  <2> HIDE DEF R
  <2> QED BY <2>1, <2>2
<1> QED BY <1>3

\* Of the model roots of a host one is the oldest.
LEMMA Oldest ==
  ASSUME Inv, NEW own \in SUBSET Present(roots), own # {}
  PROVE  \E i \in own : \A j \in own : roots[i].at <= roots[j].at
<1> DEFINE T == {roots[i].at : i \in own}
<1>1. \A i \in own : roots[i].at \in Nat
  BY DEF Present, Inv, TypeOK, RootRow
<1>2. T \subseteq Nat /\ T # {}
  BY <1>1
<1>3. PICK t \in T : \A u \in T : t <= u
  <2> HIDE DEF T
  <2> QED BY <1>2, LeastNumber
<1>4. PICK i \in own : t = roots[i].at
  BY <1>3
<1> QED BY <1>3, <1>4

\* What create_instance has chosen suits the instance.
LEMMA ChosenSuits ==
  ASSUME Inv, NEW r \in Requests, pc[r] = "roots", RootsAreUsable(req[r])
  PROVE  /\ RootsFor(req[r]) \in SUBSET Ids /\ PrimaryFor(req[r]) \in Ids \cup {Nothing}
         /\ Suits(req[r].host, RootsFor(req[r]), PrimaryFor(req[r]), before[r])
<1> DEFINE q == req[r]
<1> DEFINE own == {i \in Present(roots) : roots[i].host = q.host}
<1>1. /\ PrimaryFor(q) # Nothing => PrimaryFor(q) \in RootsFor(q)
      /\ \A i \in RootsFor(q) : i \in Present(roots) /\ roots[i].host = q.host
  BY DEF RootsAreUsable
<1>2. \A i \in RootsFor(q) : i \in Ids /\ roots[i] # Nothing
  BY <1>1 DEF Present
<1>3. ASSUME RootsFor(q) = {} PROVE own = {}
  <2>1. q.roots = <<>>
    <3>1. q.roots # <<>> => Entries(q.roots) # {}
      BY DEF Inv, Fits, Asked
    <3> QED BY <1>3, <3>1 DEF RootsFor
  <2>2. RootsFor(q) = {i \in own : \A j \in own : roots[i].at <= roots[j].at}
    BY <2>1 DEF RootsFor
  <2>3. own # {} => \E i \in own : \A j \in own : roots[i].at <= roots[j].at
    BY Oldest
  <2> HIDE DEF own
  <2> QED BY <1>3, <2>2, <2>3
<1>4. RootsFor(q) = {} => ~\E m \in before[r] : roots[m] # Nothing /\ roots[m].host = q.host
  <2>1. before[r] \subseteq Ids
    BY DEF Inv, TypeOK
  <2> QED BY <1>3, <2>1 DEF Present
<1> QED BY <1>1, <1>2, <1>4 DEF Suits

LEMMA ChooseRootsKeepsInv ==
  ASSUME Inv, NEW r \in Requests, ChooseRoots(r)
  PROVE  Inv'
<1> DEFINE chosen == [roots |-> RootsFor(req[r]), primary |-> PrimaryFor(req[r])]
<1>1. /\ pc[r] = "roots" /\ UNCHANGED <<req, tables, clock, before>>
      /\ \/ Answer(r, "MODEL_ROOT_NOT_FOUND") /\ UNCHANGED pick
         \/ Answer(r, "REQUEST_INVALID") /\ UNCHANGED pick
         \/ /\ RootsAreUsable(req[r]) /\ pick' = [pick EXCEPT ![r] = chosen]
            /\ Goto(r, "instance") /\ UNCHANGED <<ans, pend>>
  BY DEF ChooseRoots
<1>2. Asked(r) /\ Written(r) /\ Fresh(r) /\ Missed(r)
  BY DEF Inv, Fits
<1>3. ASSUME NEW c \in {"MODEL_ROOT_NOT_FOUND", "REQUEST_INVALID"}, Answer(r, c), UNCHANGED pick
      PROVE  Inv'
  <2>1. c \in Codes /\ c \in error_codes(req[r].kind)
    BY <1>1, <1>2, Declared DEF Codes, Asked
  <2> QED BY <1>1, <1>3, <2>1, AnswerKeepsInv DEF Answer
<1>4. CASE /\ RootsAreUsable(req[r]) /\ pick' = [pick EXCEPT ![r] = chosen]
           /\ Goto(r, "instance") /\ UNCHANGED <<ans, pend>>
  <2>1. /\ RootsFor(req[r]) \in SUBSET Ids /\ PrimaryFor(req[r]) \in Ids \cup {Nothing}
        /\ Suits(req[r].host, RootsFor(req[r]), PrimaryFor(req[r]), before[r])
    BY <1>1, <1>4, ChosenSuits
  <2>2. /\ chosen \in [roots : SUBSET Ids, primary : Ids \cup {Nothing}]
        /\ chosen.roots = RootsFor(req[r]) /\ chosen.primary = PrimaryFor(req[r])
    BY <2>1
  <2> HIDE DEF chosen
  <2>3. /\ pick' \in [Requests -> [roots : SUBSET Ids, primary : Ids \cup {Nothing}]]
        /\ pick'[r] = chosen /\ \A o \in Requests \ {r} : pick'[o] = pick[o]
    BY <1>4, <2>2 DEF Inv, TypeOK
  <2>4. pc'[r] = "instance" /\ "instance" \in Places
    BY <1>4 DEF Goto, Inv, TypeOK, Places
  <2>5. Asked(r)'
    BY <1>1, <1>2, <1>4, <2>4 DEF Asked, Present, tables
  <2>6. Written(r)'
    <3>1. Suits(req[r].host, pick[r].roots, pick[r].primary, before[r])'
      BY <1>1, <2>1, <2>2, <2>3 DEF Suits, tables
    <3>2. pend'[r] = NoPend
      BY <1>1, <1>2, <1>4 DEF Written
    <3> QED BY <2>4, <3>1, <3>2 DEF Written
  <2>7. Fresh(r)' /\ Missed(r)'
    BY <1>1, <1>2, <2>4 DEF Fresh, Missed, tables
  <2>8. Fits(r)'
    BY <2>5, <2>6, <2>7 DEF Fits
  <2> QED BY <1>1, <1>4, <2>3, <2>4, <2>8, GoKeepsInv
<1> QED BY <1>1, <1>3, <1>4

LEMMA InsertInstanceKeepsInv ==
  ASSUME Inv, NEW r \in Requests, InsertInstance(r)
  PROVE  Inv'
<1>1. /\ pc[r] = "instance" /\ UNCHANGED <<req, tables, pick, clock, before>>
      /\ ~SlugBusy(r, req[r].host, req[r].slug)
  BY DEF InsertInstance
<1>2. Asked(r) /\ Written(r) /\ Fresh(r) /\ Missed(r)
  BY DEF Inv, Fits
<1>3. CASE SlugTaken(req[r].host, req[r].slug)
  <2>1. PICK i \in Present(instances) :
          instances[i].host = req[r].host /\ instances[i].slug = req[r].slug
    BY <1>3 DEF SlugTaken
  <2>2. i \in Ids \ before[r]
    BY <1>1, <1>2, <2>1 DEF Missed, Present
  <2>3. "INTERNAL_ERROR" \in Codes /\ "INTERNAL_ERROR" \in error_codes(req[r].kind)
    BY Declared DEF Codes
  <2>4. req[r].kind = "instance" /\ AnswerFor(r, "INTERNAL_ERROR", "key")
    BY <1>1, <1>2, <1>3 DEF Asked, InsertInstance
  <2> QED BY <1>1, <2>1, <2>2, <2>3, <2>4, AnswerKeepsInv
<1>4. CASE ~SlugTaken(req[r].host, req[r].slug)
  <2> DEFINE row == [host |-> req[r].host, slug |-> req[r].slug, roots |-> {},
                     primary |-> pick[r].primary]
  <2> DEFINE new == [host |-> Nothing, root |-> Nothing, instance |-> row]
  <2>1. /\ pend' = [pend EXCEPT ![r].instance = row] /\ Goto(r, "bind") /\ UNCHANGED ans
    BY <1>4 DEF InsertInstance
  <2>2. /\ row \in InstanceRow /\ row # Nothing /\ row.host = req[r].host
        /\ row.slug = req[r].slug /\ row.primary = pick[r].primary
    <3>1. req[r].host \in Ids /\ req[r].slug \in Slugs /\ pick[r].primary \in Ids \cup {Nothing}
      BY <1>1, <1>2 DEF Asked, Present, Inv, TypeOK
    <3>2. row \in InstanceRow
      BY <3>1 DEF InstanceRow
    <3> QED BY <3>2, NothingAssumption
  <2> HIDE DEF row
  <2>3. pend[r].host = Nothing /\ pend[r].root = Nothing
    BY <1>1, <1>2 DEF Written, NoPend
  <2>4. [host |-> pend[r].host, root |-> pend[r].root, instance |-> row] = new
    BY <2>3
  <2>5. pend' = [pend EXCEPT ![r] = new]
    <3> HIDE DEF new
    <3>1. [pend EXCEPT ![r].instance = row] =
            [pend EXCEPT ![r] = [host |-> pend[r].host, root |-> pend[r].root, instance |-> row]]
      BY OneRow
    <3> QED BY <2>1, <2>4, <3>1
  <2>6. pend'[r] = new /\ pc'[r] = "bind"
    BY <2>1, <2>5 DEF Goto, Inv, TypeOK
  <2>7. pend'[r].instance = row /\ pend'[r].host = Nothing
    BY <2>6
  <2>8. Fits(r)'
    <3>1. Asked(r)'
      BY <1>1, <1>2, <2>1, <2>6 DEF Asked, Present, tables
    <3>2. Suits(req[r].host, pick[r].roots, pick[r].primary, before[r])'
      BY <1>1, <1>2 DEF Written, Suits, tables
    <3>3. Written(r)'
      BY <1>1, <2>2, <2>6, <2>7, <3>2 DEF Written
    <3>4. Fresh(r)' /\ Missed(r)'
      BY <1>1, <1>2, <2>6 DEF Fresh, Missed, tables
    <3> QED BY <3>1, <3>3, <3>4 DEF Fits
  <2>9. /\ new \in [host : HostRow \cup {Nothing}, root : RootRow \cup {Nothing},
                    instance : InstanceRow \cup {Nothing}]
        /\ new.instance = row /\ "bind" \in Places /\ clock' \in Nat
    BY <1>1, <2>2 DEF Places, Inv, TypeOK
  <2> HIDE DEF new
  <2> QED BY <1>1, <1>4, <2>1, <2>2, <2>5, <2>8, <2>9, WriteKeepsInv
<1> QED BY <1>3, <1>4

LEMMA BindRootsKeepsInv ==
  ASSUME Inv, NEW r \in Requests, BindRoots(r)
  PROVE  Inv'
<1> DEFINE old == pend[r].instance
<1> DEFINE row == [host |-> old.host, slug |-> old.slug, roots |-> pick[r].roots,
                   primary |-> old.primary]
<1> DEFINE new == [host |-> pend[r].host, root |-> pend[r].root, instance |-> row]
<1>1. /\ pc[r] = "bind" /\ Goto(r, "commit") /\ UNCHANGED <<req, ans, tables, pick, clock, before>>
      /\ pend' = [pend EXCEPT ![r].instance.roots = pick[r].roots]
  BY DEF BindRoots
<1>2. Asked(r) /\ Written(r) /\ Fresh(r)
  BY DEF Inv, Fits
<1>3. /\ pend[r] \in [host : HostRow \cup {Nothing}, root : RootRow \cup {Nothing},
                      instance : InstanceRow \cup {Nothing}]
      /\ old \in InstanceRow /\ old # Nothing /\ old.host = req[r].host
      /\ old.primary = pick[r].primary /\ pick[r].roots \in SUBSET Ids
  BY <1>1, <1>2 DEF Written, Inv, TypeOK
<1>4. [old EXCEPT !.roots = pick[r].roots] = row
  BY <1>3 DEF InstanceRow
<1>5. /\ row \in InstanceRow /\ row.host = old.host /\ row.slug = old.slug
      /\ row.roots = pick[r].roots /\ row.primary = old.primary
  BY <1>3 DEF InstanceRow
<1>6. pend' = [pend EXCEPT ![r] = new]
  <2>1. pend' = [pend EXCEPT ![r].instance = [old EXCEPT !.roots = pick[r].roots]]
    BY <1>1 DEF Inv, TypeOK
  <2>2. pend' = [pend EXCEPT ![r].instance = row]
    BY <1>4, <2>1
  <2> HIDE DEF row
  <2> QED BY <2>2, OneRow
<1> HIDE DEF row
<1>7. /\ pend'[r] = new /\ pc'[r] = "commit"
  BY <1>1, <1>6 DEF Goto, Inv, TypeOK
<1>8. pend'[r].instance = row /\ pend'[r].host = pend[r].host
  BY <1>7
<1>9. Fits(r)'
  <2>1. Asked(r)'
    BY <1>1, <1>2, <1>7 DEF Asked
  <2>2. Suits(pend[r].instance.host, pend[r].instance.roots, pend[r].instance.primary, before[r])'
    <3>1. Suits(req[r].host, pick[r].roots, pick[r].primary, before[r])
      BY <1>1, <1>2 DEF Written
    <3>2. /\ pend'[r].instance.host = req[r].host /\ pend'[r].instance.roots = pick[r].roots
          /\ pend'[r].instance.primary = pick[r].primary
      BY <1>3, <1>5, <1>8
    <3> QED BY <1>1, <3>1, <3>2 DEF Suits, tables
  <2>3. Written(r)'
    BY <1>1, <1>2, <1>7, <1>8, <2>2 DEF Written
  <2>4. Fresh(r)' /\ Missed(r)'
    BY <1>1, <1>2, <1>7 DEF Fresh, Missed, tables
  <2> QED BY <2>1, <2>3, <2>4 DEF Fits
<1>10. /\ new \in [host : HostRow \cup {Nothing}, root : RootRow \cup {Nothing},
                   instance : InstanceRow \cup {Nothing}]
       /\ new.instance = row /\ "commit" \in Places /\ clock' \in Nat
  BY <1>1, <1>3, <1>5 DEF Places, Inv, TypeOK
<1> HIDE DEF new
<1> QED BY <1>1, <1>3, <1>5, <1>6, <1>9, <1>10, WriteKeepsInv

LEMMA InspectKeepsInv ==
  ASSUME Inv, NEW r \in Requests, Get(r) \/ Check(r) \/ Probe(r)
  PROVE  Inv'
<1>1. Asked(r)
  BY DEF Inv, Fits
<1>2. \E c \in {"OK", "INSTANCE_NOT_FOUND", "MODEL_ROOT_NOT_FOUND", "COMFYCTL_FAILED"} :
        /\ Answer(r, c) /\ (c = "OK" \/ c \in error_codes(req[r].kind))
        /\ UNCHANGED <<req, tables, pick, clock, before>>
  <2>1. CASE Get(r)
    BY <1>1, <2>1, Declared DEF Get, Asked
  <2>2. CASE Check(r)
    BY <1>1, <2>2, Declared DEF Check, Asked
  <2>3. CASE Probe(r)
    BY <1>1, <2>3, Declared DEF Probe, Asked
  <2> QED BY <2>1, <2>2, <2>3
<1>3. PICK c \in {"OK", "INSTANCE_NOT_FOUND", "MODEL_ROOT_NOT_FOUND", "COMFYCTL_FAILED"} :
        /\ AnswerFor(r, c, "none") /\ c \in {"none", "OK"} \cup error_codes(req[r].kind)
        /\ UNCHANGED <<req, tables, pick, clock, before>>
  BY <1>2 DEF Answer
<1>4. c \in Codes
  BY DEF Codes
<1> QED BY <1>3, <1>4, AnswerKeepsInv

LEMMA NextKeepsInv == Inv /\ [Next]_vars => Inv'
<1> SUFFICES ASSUME Inv, [Next]_vars PROVE Inv'
  OBVIOUS
<1>1. ASSUME NEW r \in Requests, Begin(r) PROVE Inv'
  BY <1>1, BeginKeepsInv
<1>2. ASSUME NEW r \in Requests, Invalid(r) \/ Unauthorized(r) PROVE Inv'
  BY <1>2, RefuseKeepsInv
<1>3. ASSUME NEW r \in Requests, Fail(r) PROVE Inv'
  BY <1>3, FailKeepsInv
<1>4. ASSUME NEW r \in Requests, Step(r) PROVE Inv'
  <2>1. CASE SelectLocal(r) \/ SeedHost(r) \/ SeedRoot(r) \/ SeedCommit(r) \/ List(r)
    BY <2>1, SelectLocalKeepsInv, SeedHostKeepsInv, SeedRootKeepsInv, SeedCommitKeepsInv, ListKeepsInv
  <2>2. CASE InsertHost(r) \/ InsertRoot(r) \/ SelectSlug(r) \/ ChooseRoots(r)
    BY <2>2, InsertHostKeepsInv, InsertRootKeepsInv, SelectSlugKeepsInv, ChooseRootsKeepsInv
  <2>3. CASE InsertInstance(r) \/ BindRoots(r) \/ Commit(r)
    BY <2>3, InsertInstanceKeepsInv, BindRootsKeepsInv, CommitKeepsInv
  <2>4. CASE Get(r) \/ Check(r) \/ Probe(r)
    BY <2>4, InspectKeepsInv
  <2>5. CASE SelectRootHost(r)
    BY <2>5, HostFoundKeepsInv DEF SelectRootHost
  <2>6. CASE SelectHost(r)
    BY <2>6, HostFoundKeepsInv DEF SelectHost
  <2>7. CASE ProbeSelect(r)
    BY <2>7, HostFoundKeepsInv DEF ProbeSelect
  <2> QED BY <1>4, <2>1, <2>2, <2>3, <2>4, <2>5, <2>6, <2>7 DEF Step
<1>5. CASE UNCHANGED vars
  <2> USE <1>5 DEF vars, work, tables
  <2>1. TypeOK'
    BY DEF Inv, TypeOK
  <2>2. ASSUME NEW r \in Requests PROVE Fits(r)'
    BY DEF Inv, Fits, Asked, Written, Suits, Fresh, Missed, Present
  <2>3. Apart' /\ Settled'
    BY DEF Inv, Apart, Settled, SlugTaken, Present
  <2>4. (Present(instances) \subseteq Requests)' /\ InstancesAreWellFormed'
    BY DEF Inv, Present, InstancesAreWellFormed
  <2>5. DefaultHostComplete' /\ OnlyRacesBreak' /\ DeclaredErrorsOnly'
    BY DEF Inv, Present, DefaultHostComplete, OnlyRacesBreak, DeclaredErrorsOnly
  <2> QED BY <2>1, <2>2, <2>3, <2>4, <2>5 DEF Inv
<1> QED BY <1>1, <1>2, <1>3, <1>4, <1>5 DEF Next

-----------------------------------------------------------------------------
(* The theorems                                                             *)

LEMMA InvAlways == Spec => []Inv
<1>1. Init => Inv
  BY InitInv
<1>2. Inv /\ [Next]_vars => Inv'
  BY NextKeepsInv
<1> QED BY <1>1, <1>2, PTL DEF Spec

\* Every variable keeps its type: the rows of open transactions and of the
\* tables, the choice of model roots, the answers.
THEOREM TypeCorrect == Spec => []TypeOK
<1>1. Inv => TypeOK
  BY DEF Inv
<1> QED BY <1>1, InvAlways, PTL

\* However many requests race and whatever statement fails, an instance has
\* model roots of its own host, some if the host had any when its request
\* began, its primary root among them, and a slug of its own (create_instance).
THEOREM InstancesStayWellFormed == Spec => []InstancesAreWellFormed
<1>1. Inv => InstancesAreWellFormed
  BY DEF Inv
<1> QED BY <1>1, InvAlways, PTL

\* The default host never appears without its shared model root
\* (ensure_default_host).
THEOREM DefaultHostIsComplete == Spec => []DefaultHostComplete
<1>1. Inv => DefaultHostComplete
  BY DEF Inv
<1> QED BY <1>1, InvAlways, PTL

\* A request that dies on a unique index without an error code of its own has
\* lost a race (ensure_default_host, create_instance).
THEOREM OnlyLostRacesBreak == Spec => []OnlyRacesBreak
<1>1. Inv => OnlyRacesBreak
  BY DEF Inv
<1> QED BY <1>1, InvAlways, PTL

\* No request is answered with an error code its operation does not declare
\* (app/api/operations.py).
THEOREM AnswersAreDeclared == Spec => []DeclaredErrorsOnly
<1>1. Inv => DeclaredErrorsOnly
  BY DEF Inv
<1> QED BY <1>1, InvAlways, PTL

-----------------------------------------------------------------------------
(* Recommendations                                                          *)

\* A part of a small version is below 100, and there are three.
LEMMA SmallParts ==
  ASSUME NEW v, SmallVersion(v)
  PROVE  /\ Len(v) \in 0 .. 3
         /\ \A k \in 1 .. 3 : Part(v, k) \in 0 .. 99
         /\ \A k \in Nat : k > Len(v) => Part(v, k) = 0
<1>1. v \in Seq(Nat) /\ Len(v) \in Nat /\ Len(v) <= 3 /\ DOMAIN v = 1 .. Len(v)
  BY DEF SmallVersion
<1>2. \A k \in 1 .. Len(v) : v[k] \in Nat /\ v[k] < 100
  BY <1>1 DEF SmallVersion
<1>3. ASSUME NEW k \in 1 .. 3 PROVE Part(v, k) \in 0 .. 99
  <2>1. CASE k <= Len(v)
    <3>1. PICK p \in Nat : p = v[k] /\ p < 100
      BY <1>1, <1>2, <2>1
    <3>2. Part(v, k) = p
      BY <2>1, <3>1 DEF Part
    <3> QED BY <3>1, <3>2
  <2>2. CASE ~(k <= Len(v))
    BY <2>2 DEF Part
  <2> QED BY <2>1, <2>2
<1>4. ASSUME NEW k \in Nat, k > Len(v) PROVE Part(v, k) = 0
  BY <1>1, <1>4 DEF Part
<1>5. Len(v) \in 0 .. 3
  BY <1>1
<1> QED BY <1>3, <1>4, <1>5

\* The comparison of version_at_least part by part is that of the numbers the
\* versions stand for.
LEMMA VersionsCompareAsNumbers ==
  ASSUME NEW v, NEW m, SmallVersion(v), SmallVersion(m), v # <<>>, m # <<>>
  PROVE  version_at_least(v, m) <=> Weight(v) >= Weight(m)
<1> DEFINE n == Len(v) + Len(m)
           Good(k) == Part(v, k) < Part(m, k) => \E j \in 1 .. k - 1 : Part(v, j) > Part(m, j)
<1>1. PICK lv \in 0 .. 3, lm \in 0 .. 3 : lv = Len(v) /\ lm = Len(m)
  BY SmallParts
<1>2. PICK a \in 0 .. 99, b \in 0 .. 99, c \in 0 .. 99 :
        a = Part(v, 1) /\ b = Part(v, 2) /\ c = Part(v, 3)
  <2>1. Part(v, 1) \in 0 .. 99 /\ Part(v, 2) \in 0 .. 99 /\ Part(v, 3) \in 0 .. 99
    BY SmallParts
  <2> QED BY <2>1
<1>3. PICK x \in 0 .. 99, y \in 0 .. 99, z \in 0 .. 99 :
        x = Part(m, 1) /\ y = Part(m, 2) /\ z = Part(m, 3)
  <2>1. Part(m, 1) \in 0 .. 99 /\ Part(m, 2) \in 0 .. 99 /\ Part(m, 3) \in 0 .. 99
    BY SmallParts
  <2> QED BY <2>1
<1>4. version_at_least(v, m) <=> \A k \in 1 .. n : Good(k)
  BY DEF version_at_least
<1>5. ASSUME NEW k \in Nat, k > 3 \/ k > n PROVE Good(k)
  <2>1. k > lv /\ k > lm
    <3>1. k > 3 \/ k > lv + lm
      BY <1>1, <1>5
    <3> QED BY <3>1
  <2>2. Part(v, k) = 0 /\ Part(m, k) = 0
    BY <1>1, <2>1, SmallParts
  <2> QED BY <2>2
<1>6. Good(1) <=> a >= x
  <2>1. 1 .. (1 - 1) = {}
    OBVIOUS
  <2>2. Good(1) <=> ~(a < x)
    BY <1>2, <1>3, <2>1
  <2> HIDE DEF Good
  <2> QED BY <2>2
<1>7. Good(2) <=> (b < y => a > x)
  <2>1. 1 .. (2 - 1) = {1}
    OBVIOUS
  <2> QED BY <1>2, <1>3, <2>1
<1>8. Good(3) <=> (c < z => a > x \/ b > y)
  <2>1. 1 .. (3 - 1) = {1, 2}
    OBVIOUS
  <2> QED BY <1>2, <1>3, <2>1
<1>9. (\A k \in 1 .. n : Good(k)) <=> Good(1) /\ Good(2) /\ Good(3)
  <2>1. n \in Nat
    BY <1>1
  <2> HIDE DEF n, Good
  <2>2. ASSUME \A k \in 1 .. n : Good(k), NEW k \in 1 .. 3 PROVE Good(k)
    BY <1>5, <2>1, <2>2
  <2>3. ASSUME Good(1), Good(2), Good(3), NEW k \in 1 .. n PROVE Good(k)
    <3>1. k = 1 \/ k = 2 \/ k = 3 \/ k > 3
      BY <2>1
    <3> QED BY <1>5, <2>1, <2>3, <3>1
  <2> QED BY <2>2, <2>3
<1>10. Weight(v) = 10000 * a + 100 * b + c /\ Weight(m) = 10000 * x + 100 * y + z
  BY <1>2, <1>3 DEF Weight
<1>11. a >= x /\ (b < y => a > x) /\ (c < z => a > x \/ b > y)
       <=> 10000 * a + 100 * b + c >= 10000 * x + 100 * y + z
  OBVIOUS
<1> HIDE DEF n, Good
<1> QED BY <1>4, <1>6, <1>7, <1>8, <1>9, <1>10, <1>11

\* What comfyctl recommends is taken from the first rule that applies, and
\* there is one.
LEMMA FirstRuleRecommends ==
  ASSUME RulesAreOrdered, NEW cuda, NEW gpus \in Seq(Nat)
  PROVE  \E m \in DOMAIN Rules :
           /\ Applies(Rules[m], cuda, gpus)
           /\ \A j \in DOMAIN Rules : Applies(Rules[j], cuda, gpus) => m <= j
           /\ recommendation(cuda, gpus) \in Recommendation
           /\ recommendation(cuda, gpus).profile = Rules[m].runtime_profile_id
           /\ recommendation(cuda, gpus).gpu_ids = IF gpus = <<>> THEN {} ELSE {gpus[1]}
<1> DEFINE applies == [k \in DOMAIN Rules |-> Applies(Rules[k], cuda, gpus)]
           first == FirstIndex(Rules, applies)
           T == {k \in DOMAIN Rules : Applies(Rules[k], cuda, gpus)}
<1>1. PICK L \in Nat : DOMAIN Rules = 1 .. L
  <2>1. Rules \in Seq(Entries(Rules))
    BY DEF RulesAreOrdered
  <2> QED BY <2>1
<1>2. \E k \in DOMAIN Rules : Applies(Rules[k], cuda, gpus)
  <2>1. PICK rule \in Entries(Rules) :
          rule.gpu_vendor = (IF gpus = <<>> THEN "none" ELSE "nvidia") /\ rule.cuda_min = <<>>
    BY DEF RulesAreOrdered
  <2>2. PICK k \in DOMAIN Rules : rule = Rules[k]
    BY <2>1 DEF Entries
  <2> QED BY <2>1, <2>2 DEF Applies
<1>3. PICK t \in T : \A u \in T : t <= u
  <2>1. T \in SUBSET Nat /\ T # {}
    BY <1>1, <1>2
  <2> HIDE DEF T
  <2> QED BY <2>1, LeastNumber
<1>4. t \in DOMAIN Rules /\ applies[t] /\ \A j \in 1 .. t - 1 : ~applies[j]
  <2>1. t \in 1 .. L /\ Applies(Rules[t], cuda, gpus)
    BY <1>1, <1>3
  <2>2. ASSUME NEW j \in 1 .. t - 1 PROVE j \in DOMAIN Rules /\ ~Applies(Rules[j], cuda, gpus)
    <3>1. j \in 1 .. L /\ ~(t <= j)
      BY <2>1
    <3> QED BY <1>1, <1>3, <3>1
  <2> QED BY <1>1, <2>1, <2>2
<1>5. first \in DOMAIN Rules /\ applies[first] /\ \A j \in 1 .. first - 1 : ~applies[j]
  <2> HIDE DEF applies
  <2> QED BY <1>4 DEF FirstIndex
<1> HIDE DEF first
<1>6. Applies(Rules[first], cuda, gpus)
  BY <1>5
<1>7. ASSUME NEW j \in DOMAIN Rules, Applies(Rules[j], cuda, gpus) PROVE first <= j
  <2>1. j \in 1 .. L /\ first \in 1 .. L
    BY <1>1, <1>5
  <2>2. j \notin 1 .. first - 1
    BY <1>5, <1>7
  <2> QED BY <2>1, <2>2
<1>8. Rules[first] \in Entries(Rules)
  BY <1>5 DEF Entries
<1>9. PICK v \in Entries(Versions) :
        v.id = Rules[first].version_id /\ v = version_by_id(Rules[first].version_id)
  BY <1>8, CatalogAssumption DEF ValidRules, version_by_id
<1>10. PICK p \in Entries(Profiles) :
         /\ p.id = Rules[first].runtime_profile_id
         /\ p = runtime_profile_by_id(Rules[first].runtime_profile_id)
  BY <1>8, CatalogAssumption DEF ValidRules, runtime_profile_by_id
<1> DEFINE ids == IF Rules[first].gpu = "first" /\ gpus # <<>> THEN {Head(gpus)} ELSE {}
<1>11. recommendation(cuda, gpus) = [version |-> v.id, profile |-> p.id, gpu_ids |-> ids]
  <2>1. \E k \in DOMAIN Rules : applies[k]
    BY <1>2
  <2> HIDE DEF applies
  <2> QED BY <1>9, <1>10, <2>1 DEF recommendation, first, applies
<1>12. ids = IF gpus = <<>> THEN {} ELSE {gpus[1]}
  <2>1. CASE gpus = <<>>
    BY <2>1
  <2>2. CASE gpus # <<>>
    <3>1. Rules[first].gpu_vendor = "nvidia"
      BY <1>6, <2>2 DEF Applies
    <3>2. Rules[first].gpu = "first"
      BY <1>8, <3>1 DEF RulesAreOrdered
    <3> QED BY <2>2, <3>2
  <2> QED BY <2>1, <2>2
<1>13. ids \in SUBSET Nat
  <2>1. gpus # <<>> => gpus[1] \in Nat
    OBVIOUS
  <2> HIDE DEF ids
  <2> QED BY <1>12, <2>1
<1> HIDE DEF ids
<1>14. recommendation(cuda, gpus) \in Recommendation
  BY <1>11, <1>13 DEF Recommendation
<1> QED BY <1>5, <1>6, <1>7, <1>10, <1>11, <1>12, <1>14

\* A rule with a minimum applies exactly to the hosts that have a GPU and a
\* CUDA version not below it.
LEMMA TiedRules ==
  ASSUME RulesAreOrdered, ReportsAreSmall, NEW cuda \in Cudas, NEW gpus \in Gpus,
         NEW rule \in Entries(Rules), rule.cuda_min # <<>>
  PROVE  Applies(rule, cuda, gpus) <=>
           gpus # <<>> /\ cuda # <<>> /\ Weight(cuda) >= Weight(rule.cuda_min)
<1>1. SmallVersion(cuda) /\ SmallVersion(rule.cuda_min) /\ rule.gpu_vendor = "nvidia"
  BY DEF RulesAreOrdered, ReportsAreSmall
<1>2. Applies(rule, cuda, gpus) <=> gpus # <<>> /\ version_at_least(cuda, rule.cuda_min)
  BY <1>1 DEF Applies
<1>3. version_at_least(cuda, rule.cuda_min) => cuda # <<>>
  BY DEF version_at_least
<1>4. cuda # <<>> =>
        (version_at_least(cuda, rule.cuda_min) <=> Weight(cuda) >= Weight(rule.cuda_min))
  BY <1>1, VersionsCompareAsNumbers
<1> QED BY <1>2, <1>3, <1>4

\* A probe has reported what nvidia-smi said and what that recommends.
Reports ==
  /\ probed = [r \in Requests |-> probed[r]]
  /\ \A r \in Requests : probed[r] # Nothing =>
       \E gpus \in Gpus, cuda \in Cudas :
         probed[r] = [gpus |-> gpus, cuda |-> cuda, rec |-> recommendation(cuda, gpus)]

LEMMA ReportsAlways == Spec => []Reports
<1>1. Init => Reports
  BY DEF Init, Reports
<1>2. ASSUME Reports, [Next]_vars PROVE Reports'
  <2>1. ASSUME NEW r \in Requests, Probe(r) PROVE Reports'
    BY <1>2, <2>1 DEF Probe, Reports
  <2>2. CASE UNCHANGED probed
    BY <1>2, <2>2 DEF Reports
  <2>3. ASSUME NEW r \in Requests, Step(r), ~Probe(r) PROVE UNCHANGED probed
    BY <2>3 DEF Step, SelectLocal, SeedHost, SeedRoot, SeedCommit, List, InsertHost,
         SelectRootHost, InsertRoot, SelectHost, SelectSlug, ChooseRoots, InsertInstance,
         BindRoots, Commit, Get, Check, ProbeSelect
  <2>4. ASSUME NEW r \in Requests, Begin(r) \/ Invalid(r) \/ Unauthorized(r) \/ Fail(r)
        PROVE  UNCHANGED probed
    BY <2>4 DEF Begin, Invalid, Unauthorized, Refuse, Fail
  <2> QED BY <1>2, <2>1, <2>2, <2>3, <2>4 DEF Next, vars
<1> QED BY <1>1, <1>2, PTL DEF Spec

\* A probe always has a recommendation: the first GPU if there is one, and a
\* profile tied to a CUDA version exactly when, read as numbers, the version
\* found is new enough for one of the rules.  This holds for every host and
\* every catalog whose rules are ordered as the shipped ones are
\* (comfyctl/catalog.py, version_at_least and recommendation).
THEOREM ProbesRecommendWhatFits ==
  ASSUME RulesAreOrdered, ReportsAreSmall
  PROVE  Spec => []RecommendationFits
<1>1. ASSUME Reports PROVE RecommendationFits
  <2> SUFFICES ASSUME NEW r \in Requests, probed[r] # Nothing
               PROVE
    /\ probed[r].rec # Nothing
    /\ (\E rule \in Entries(Rules) :
          /\ rule.cuda_min # <<>>
          /\ probed[r].gpus # <<>> /\ probed[r].cuda # <<>>
          /\ Weight(probed[r].cuda) >= Weight(rule.cuda_min))
       = \E rule \in Entries(Rules) :
           rule.cuda_min # <<>> /\ rule.runtime_profile_id = probed[r].rec.profile
    /\ probed[r].rec.gpu_ids = IF probed[r].gpus = <<>> THEN {} ELSE {probed[r].gpus[1]}
    BY DEF RecommendationFits
  <2>1. PICK gpus \in Gpus, cuda \in Cudas :
          probed[r] = [gpus |-> gpus, cuda |-> cuda, rec |-> recommendation(cuda, gpus)]
    BY <1>1 DEF Reports
  <2>2. probed[r].gpus = gpus /\ probed[r].cuda = cuda /\ probed[r].rec = recommendation(cuda, gpus)
    BY <2>1
  <2>3. gpus \in Seq(Nat)
    BY DEF ReportsAreSmall
  <2>4. PICK m \in DOMAIN Rules :
           /\ Applies(Rules[m], cuda, gpus)
           /\ \A j \in DOMAIN Rules : Applies(Rules[j], cuda, gpus) => m <= j
           /\ recommendation(cuda, gpus) \in Recommendation
           /\ recommendation(cuda, gpus).profile = Rules[m].runtime_profile_id
           /\ recommendation(cuda, gpus).gpu_ids = IF gpus = <<>> THEN {} ELSE {gpus[1]}
    BY <2>3, FirstRuleRecommends
  <2>5. recommendation(cuda, gpus) # Nothing
    BY <2>4, NothingAssumption
  <2>6. \A k \in DOMAIN Rules : Rules[k] \in Entries(Rules)
    BY DEF Entries
  <2>7. ASSUME NEW j \in DOMAIN Rules, Rules[j].cuda_min # <<>>, gpus # <<>>, cuda # <<>>,
               Weight(cuda) >= Weight(Rules[j].cuda_min)
        PROVE  Rules[m].cuda_min # <<>>
    <3>1. Applies(Rules[j], cuda, gpus)
      BY <2>6, <2>7, TiedRules
    <3>2. m <= j /\ Rules[m].gpu_vendor = "nvidia"
      BY <2>4, <2>7, <3>1 DEF Applies
    <3>3. m \in Nat /\ j \in Nat
      <4>1. Rules \in Seq(Entries(Rules))
        BY DEF RulesAreOrdered
      <4> QED BY <4>1
    <3>4. Rules[m].cuda_min = <<>> => j < m
      BY <2>7, <3>2 DEF RulesAreOrdered
    <3> QED BY <3>2, <3>3, <3>4
  <2>8. ASSUME NEW j \in DOMAIN Rules, Rules[j].cuda_min # <<>>,
               Rules[j].runtime_profile_id = Rules[m].runtime_profile_id
        PROVE  /\ Rules[m].cuda_min # <<>> /\ gpus # <<>> /\ cuda # <<>>
               /\ Weight(cuda) >= Weight(Rules[m].cuda_min)
    <3>1. Rules[m].cuda_min # <<>>
      BY <2>8 DEF RulesAreOrdered
    <3> QED BY <2>4, <2>6, <3>1, TiedRules
  <2>9. (\E rule \in Entries(Rules) :
           /\ rule.cuda_min # <<>> /\ gpus # <<>> /\ cuda # <<>>
           /\ Weight(cuda) >= Weight(rule.cuda_min))
        <=> \E rule \in Entries(Rules) :
              rule.cuda_min # <<>> /\ rule.runtime_profile_id = Rules[m].runtime_profile_id
    BY <2>6, <2>7, <2>8 DEF Entries
  <2> QED BY <2>2, <2>4, <2>5, <2>9
<1> QED BY <1>1, ReportsAlways, PTL

=============================================================================
