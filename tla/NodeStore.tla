------------------------------ MODULE NodeStore ------------------------------
(***************************************************************************)
(* The node adapter of server/main.go: concurrent HTTP handlers over one   *)
(* in-memory registry guarded by a lock, saved to nodes.json on every      *)
(* change, and copied to Headscale by a goroutine per registration.        *)
(*                                                                         *)
(* A handler is a request in flight.  Its life is split where another      *)
(* handler, the death of the process or a disk error can come between:     *)
(*                                                                         *)
(*   idle -> wait -> held -> opened -> saved -> reply -> idle  (writers)   *)
(*   idle -> wait -------------------------> reply -> idle  (readers)      *)
(*                                                                         *)
(* os.WriteFile truncates the file before it writes it, so the save is two *)
(* steps, each of which may fail; the code looks at neither error.  A      *)
(* truncated or half written file does not parse, and load takes it for an *)
(* empty one.  Requests that are refused (wrong key, wrong method, empty   *)
(* node id) touch nothing and are left out.                                *)
(***************************************************************************)
EXTENDS Integers, Sequences

CONSTANTS Handlers,     \* the requests that can be in flight together
          NoHandler,    \* holder of the lock when it is free
          Preloaded,    \* nodes in nodes.json when the process first starts
          MaxNodes,     \* bound: Preloaded plus registrations that arrive
          MaxTime,      \* bound: the last instant of the clock
          MaxDeaths     \* bound: how often the process dies

ASSUME NodeStoreAssumption ==
    /\ NoHandler \notin Handlers
    /\ Preloaded \in Nat /\ MaxNodes \in Nat /\ Preloaded <= MaxNodes
    /\ MaxTime \in Nat \ {0} /\ MaxDeaths \in Nat

VARIABLES
    up,         \* the process runs
    nodes,      \* nodeStore.nodes
    nextID,     \* nodeStore.nextID
    holder,     \* the handler inside nodeStore.mu, or NoHandler
    op,         \* per handler: the request it serves and how far it is
    file,       \* nodes.json
    pending,    \* the nodes whose syncToHeadscale goroutine has not ended
    headscale,  \* the nodes Headscale has accepted
    now,        \* the clock LastSeen is taken from
    made,       \* key pairs generated so far, which numbers them
    deaths,     \* how often the process has died
    unsaved,    \* history: the last save failed
    damaged,    \* history: the process died with an unfinished or failed save
    known,      \* history: identities of nodes told to some client
    acked       \* history: <<id, instant>> of answered writes that touched a node

vars == <<up, nodes, nextID, holder, op, file, pending, headscale, now, made,
          deaths, unsaved, damaged, known, acked>>

store == <<nodes, nextID>>
remote == <<pending, headscale>>
history == <<unsaved, damaged, known, acked>>
counters == <<now, made, deaths>>

-----------------------------------------------------------------------------
Nodes == [id : Nat, key : Nat, seen : Nat]
Idents == [id : Nat, key : Nat]
Kinds == {"register", "keepalive", "list", "get"}
Steps == {"idle", "wait", "held", "opened", "saved", "reply"}

Identity(n) == [id |-> n.id, key |-> n.key]
Identities(s) == {Identity(s[i]) : i \in DOMAIN s}

Torn == [whole |-> FALSE, nodes |-> << >>]
Whole(s) == [whole |-> TRUE, nodes |-> s]

\* Where a handler is between two requests.
Idle == [step |-> "idle", kind |-> "list", id |-> 0, key |-> 0, stamp |-> 0,
         before |-> {}, result |-> {}]

(***************************************************************************)
(* load: a file that is missing, or does not parse, leaves the registry    *)
(* empty; either way the next number is two more than the nodes read.      *)
(***************************************************************************)
Loaded(f) == IF f.whole THEN f.nodes ELSE << >>

\* The slots the search loops stop at: the first node with that id, if any.
Slots(id) == {i \in DOMAIN nodes : /\ nodes[i].id = id
                                   /\ \A j \in 1 .. (i - 1) : nodes[j].id # id}

InitialNodes == [i \in 1 .. Preloaded |-> [id |-> i + 1, key |-> i, seen |-> 0]]

Init ==
    /\ up = FALSE
    /\ nodes = << >> /\ nextID = 2 /\ holder = NoHandler
    /\ op = [h \in Handlers |-> Idle]
    /\ file = Whole(InitialNodes)
    /\ pending = {} /\ headscale = {}
    /\ now = 1 /\ made = Preloaded /\ deaths = 0
    /\ unsaved = FALSE /\ damaged = FALSE
    /\ known = {} /\ acked = {}

-----------------------------------------------------------------------------
\* Mutant: load takes the last number given where it should take the next.
StartOffByOne ==
    /\ ~up /\ up' = TRUE
    /\ nodes' = Loaded(file)
    /\ nextID' = IF nodes' = << >> THEN 2 ELSE Len(nodes') + 1
    /\ UNCHANGED <<holder, op, file, remote, counters, history>>

Start ==
    /\ ~up /\ up' = TRUE
    /\ nodes' = Loaded(file) /\ nextID' = Len(nodes') + 2
    /\ UNCHANGED <<holder, op, file, remote, counters, history>>

(***************************************************************************)
(* A request that passes the checks of its handler.  handleRegister makes  *)
(* the key pair here, before it asks for the lock.                         *)
(***************************************************************************)
Arrive(h, kind, id) ==
    LET writes == kind = "register"
        reads == kind \in {"list", "get"}
    IN  /\ up /\ op[h].step = "idle"
        /\ writes => made < MaxNodes
        /\ made' = IF writes THEN made + 1 ELSE made
        /\ op' = [op EXCEPT ![h] = [Idle EXCEPT
                    !.step = "wait", !.kind = kind,
                    !.id = IF kind \in {"keepalive", "get"} THEN id ELSE 0,
                    !.key = IF writes THEN made' ELSE 0,
                    !.before = IF reads THEN known ELSE {}]]
        /\ UNCHANGED <<up, store, holder, file, remote, now, deaths, history>>

\* Mutant: the lock covers the registry but not the save.
RegisterUnlockedSave(h) ==
    /\ op[h].step = "wait" /\ op[h].kind = "register" /\ holder = NoHandler
    /\ LET node == [id |-> nextID, key |-> op[h].key, seen |-> now]
       IN  /\ nodes' = Append(nodes, node)
           /\ op' = [op EXCEPT ![h].step = "held", ![h].id = nextID,
                               ![h].result = {Identity(node)}, ![h].stamp = now]
    /\ nextID' = nextID + 1
    /\ UNCHANGED <<up, holder, file, pending, headscale, counters, history>>

\* Mutant: syncToHeadscale is started before the registry is saved.
RegisterEarlySync(h) ==
    /\ op[h].step = "wait" /\ op[h].kind = "register"
    /\ holder = NoHandler /\ holder' = h
    /\ LET node == [id |-> nextID, key |-> op[h].key, seen |-> now]
       IN  /\ nodes' = Append(nodes, node)
           /\ pending' = pending \cup {Identity(node)}
           /\ op' = [op EXCEPT ![h].step = "held", ![h].id = nextID,
                               ![h].result = {Identity(node)}, ![h].stamp = now]
    /\ nextID' = nextID + 1
    /\ UNCHANGED <<up, file, headscale, counters, history>>

RegisterLocked(h) ==
    /\ op[h].step = "wait" /\ op[h].kind = "register"
    /\ holder = NoHandler /\ holder' = h
    /\ LET node == [id |-> nextID, key |-> op[h].key, seen |-> now]
       IN  /\ nodes' = Append(nodes, node)
           /\ op' = [op EXCEPT ![h].step = "held", ![h].id = nextID,
                               ![h].result = {Identity(node)}, ![h].stamp = now]
    /\ nextID' = nextID + 1
    /\ UNCHANGED <<up, file, pending, headscale, counters, history>>

\* What every keepalive does but write the registry; n is the step it goes to.
KeepAliveFrame(h, n) ==
    /\ op[h].step = "wait" /\ op[h].kind = "keepalive"
    /\ holder = NoHandler /\ holder' = h
    /\ op' = [op EXCEPT ![h].step = n,
                        ![h].stamp = IF Slots(op[h].id) = {} THEN 0 ELSE now]
    /\ UNCHANGED <<up, nextID, file, remote, counters, history>>

\* The registry once the node with this id has been seen now.
Seen(id) == [i \in DOMAIN nodes |->
                IF i \in Slots(id) THEN [nodes[i] EXCEPT !.seen = now] ELSE nodes[i]]

\* Mutant: a keepalive for an unknown id adds it, without a key.
KeepAliveUpsert(h) ==
    /\ KeepAliveFrame(h, "held")
    /\ nodes' = IF Slots(op[h].id) # {} THEN Seen(op[h].id)
                ELSE Append(nodes, [id |-> op[h].id, seen |-> now])

\* Mutant: a keepalive writes the node as the request describes it.
KeepAliveOverwrite(h) ==
    /\ KeepAliveFrame(h, "held")
    /\ nodes' = [i \in DOMAIN nodes |->
                    IF i \in Slots(op[h].id)
                    THEN [id |-> op[h].id, key |-> op[h].key, seen |-> now]
                    ELSE nodes[i]]

\* Mutant: a keepalive does not save the registry.
KeepAliveUnsaved(h) == KeepAliveFrame(h, "saved") /\ nodes' = Seen(op[h].id)

\* Mutant: a keepalive for an unknown id answers without giving up the lock.
KeepAliveKeepsLock(h) ==
    /\ KeepAliveFrame(h, IF Slots(op[h].id) = {} THEN "reply" ELSE "held")
    /\ nodes' = Seen(op[h].id)

\* Mutant: the node seen last is moved to the end.
KeepAliveMoves(h) ==
    /\ KeepAliveFrame(h, "held")
    /\ nodes' = SelectSeq(nodes, LAMBDA n : n.id # op[h].id)
                \o SelectSeq(Seen(op[h].id), LAMBDA n : n.id = op[h].id)

\* An unknown id changes nothing, but is saved and answered as any other.
KeepAliveLocked(h) == KeepAliveFrame(h, "held") /\ nodes' = Seen(op[h].id)

(***************************************************************************)
(* save, first half: os.WriteFile opens the file and truncates it.  When   *)
(* that fails the file stays as it was, and the handler goes on.           *)
(***************************************************************************)
OpenFile(h) ==
    /\ op[h].step = "held"
    /\ \/ /\ file' = Torn
          /\ op' = [op EXCEPT ![h].step = "opened"]
          /\ UNCHANGED unsaved
       \/ /\ unsaved' = TRUE
          /\ op' = [op EXCEPT ![h].step = "saved"]
          /\ UNCHANGED file
    /\ UNCHANGED <<up, store, holder, remote, counters, damaged, known, acked>>

(***************************************************************************)
(* save, second half.  When the write fails part of the file is written,   *)
(* which does not parse, and the handler goes on.                          *)
(***************************************************************************)
WriteFile(h) ==
    /\ op[h].step = "opened"
    /\ op' = [op EXCEPT ![h].step = "saved"]
    /\ \/ file' = Whole(nodes) /\ unsaved' = FALSE
       \/ file' = Torn /\ unsaved' = TRUE
    /\ UNCHANGED <<up, store, holder, remote, counters, damaged, known, acked>>

\* A registration is handed to its goroutine once the lock is given up.
Unlock(h) ==
    /\ op[h].step = "saved"
    /\ holder' = NoHandler
    /\ op' = [op EXCEPT ![h].step = "reply"]
    /\ pending' = pending \cup op[h].result
    /\ UNCHANGED <<up, store, file, headscale, counters, history>>

\* Mutant: a read is answered from the file.
ReadFromFile(h) ==
    /\ op[h].step = "wait" /\ op[h].kind \in {"list", "get"}
    /\ holder = NoHandler
    /\ op' = [op EXCEPT ![h].step = "reply", ![h].result = Identities(Loaded(file))]
    /\ UNCHANGED <<up, store, holder, file, remote, counters, history>>

\* A reader copies what it wants under the read lock, in one piece.
ReadLocked(h) ==
    /\ op[h].step = "wait" /\ op[h].kind \in {"list", "get"}
    /\ holder = NoHandler
    /\ op' = [op EXCEPT ![h].step = "reply",
                        ![h].result = IF op[h].kind = "list" THEN Identities(nodes)
                                      ELSE {Identity(nodes[i]) : i \in Slots(op[h].id)}]
    /\ UNCHANGED <<up, store, holder, file, remote, counters, history>>

Reply(h) ==
    /\ op[h].step = "reply"
    /\ op' = [op EXCEPT ![h] = Idle]
    /\ known' = known \cup op[h].result
    /\ acked' = IF op[h].stamp = 0 THEN acked
                ELSE acked \cup {[id |-> op[h].id, seen |-> op[h].stamp]}
    /\ UNCHANGED <<up, store, holder, file, remote, counters, unsaved, damaged>>

\* The steps of the handler, without the arrival of its request.
Handle(h) == \/ RegisterLocked(h) \/ KeepAliveLocked(h) \/ ReadLocked(h)
             \/ OpenFile(h) \/ WriteFile(h) \/ Unlock(h) \/ Reply(h)

-----------------------------------------------------------------------------
\* One POST, never repeated: Headscale accepts the node, or it never will.
SyncToHeadscale(n) ==
    /\ up /\ n \in pending
    /\ pending' = pending \ {n}
    /\ \/ headscale' = headscale \cup {n}
       \/ UNCHANGED headscale
    /\ UNCHANGED <<up, store, holder, op, file, counters, history>>

(***************************************************************************)
(* The process ends: main returns on SIGINT or SIGTERM without waiting for *)
(* its handlers, which is no different from a kill.                        *)
(***************************************************************************)
Die ==
    /\ up /\ deaths < MaxDeaths
    /\ up' = FALSE /\ deaths' = deaths + 1
    /\ nodes' = << >> /\ nextID' = 2 /\ holder' = NoHandler
    /\ op' = [h \in Handlers |-> Idle] /\ pending' = {}
    /\ damaged' = (damaged \/ unsaved \/ \E h \in Handlers : op[h].step = "opened")
    /\ UNCHANGED <<file, headscale, now, made, unsaved, known, acked>>

\* The operator's reset (DEPLOY.md): the server is stopped and headscale.db removed.
ResetDatabase ==
    /\ ~up
    /\ headscale' = {}
    /\ UNCHANGED <<up, store, holder, op, file, pending, counters, history>>

Tick ==
    /\ now < MaxTime /\ now' = now + 1
    /\ UNCHANGED <<up, store, holder, op, file, remote, made, deaths, history>>

Next ==
    \/ Start \/ Die \/ ResetDatabase \/ Tick
    \/ \E h \in Handlers : Handle(h)
    \/ \E h \in Handlers, kind \in Kinds, id \in 2 .. (MaxNodes + 1) : Arrive(h, kind, id)
    \/ \E n \in pending : SyncToHeadscale(n)

(***************************************************************************)
(* A handler that can go on does (weak fairness of its goroutine), and a   *)
(* handler that waits for the lock gets it if it is free again and again:  *)
(* sync.RWMutex makes neither readers nor writers starve.                  *)
(***************************************************************************)
Fairness ==
    \A h \in Handlers :
        /\ WF_vars(OpenFile(h)) /\ WF_vars(WriteFile(h))
        /\ WF_vars(Unlock(h)) /\ WF_vars(Reply(h))
        /\ SF_vars(RegisterLocked(h)) /\ SF_vars(KeepAliveLocked(h))
        /\ SF_vars(ReadLocked(h))

Spec == Init /\ [][Next]_vars
FairSpec == Spec /\ Fairness

-----------------------------------------------------------------------------
Ops == [step : Steps, kind : Kinds, id : Nat, key : Nat, stamp : Nat,
        before : SUBSET Idents, result : SUBSET Idents]

\* The state is what server/main.go declares it to be.
TypeOK ==
    /\ up \in BOOLEAN
    /\ nodes \in Seq(Nodes) /\ nextID \in Nat
    /\ holder \in Handlers \cup {NoHandler}
    /\ op \in [Handlers -> Ops]
    /\ file \in [whole : BOOLEAN, nodes : Seq(Nodes)]
    /\ pending \subseteq Idents /\ headscale \subseteq Idents
    /\ now \in Nat /\ made \in Nat /\ deaths \in Nat
    /\ unsaved \in BOOLEAN /\ damaged \in BOOLEAN
    /\ known \subseteq Idents
    /\ acked \subseteq [id : Nat, seen : Nat]

Numbered(s) == \A i \in 1 .. Len(s) : s[i].id = i + 1

(***************************************************************************)
(* The number of a node is its slot, in memory and in the file, and the    *)
(* next number is that of the next slot: nextID++ (line 251) and len+2 on  *)
(* load (line 119) agree whatever handlers, deaths and torn saves do.      *)
(***************************************************************************)
SlotAddress ==
    /\ Numbered(nodes) /\ Numbered(file.nodes)
    /\ nextID = Len(nodes) + 2

\* The file is the outcome of the last save, which succeeded.
Current == ~unsaved /\ \A h \in Handlers : op[h].step # "opened"

(***************************************************************************)
(* A node that some client was told about is in the registry, and in the   *)
(* file unless a save is under way or has failed -- for as long as no      *)
(* death of the process hit an unfinished or failed save.                  *)
(***************************************************************************)
KnownSurvive ==
    ~damaged => /\ up => known \subseteq Identities(nodes)
                /\ Current => known \subseteq Identities(Loaded(file))

(***************************************************************************)
(* No two clients are told the same number, hence the same address, for    *)
(* different keys, across restarts, under the same proviso.                *)
(***************************************************************************)
NoAddressReuse == ~damaged => \A a, b \in known : a.id = b.id => a = b

(***************************************************************************)
(* What goes to Headscale is a node that is in the registry, and will be   *)
(* there after a restart: the goroutine starts after the save (line 266).  *)
(***************************************************************************)
HeadscaleKnowsRegistered ==
    ~damaged /\ Current =>
        pending \cup headscale \subseteq Identities(Loaded(file))

(***************************************************************************)
(* A list or lookup answers with every node (every node of that id) that   *)
(* any client had been told about when the request arrived.                *)
(***************************************************************************)
ReadsAreFresh ==
    ~damaged => \A h \in Handlers : op[h].step = "reply" =>
        CASE op[h].kind = "list" -> op[h].before \subseteq op[h].result
          [] op[h].kind = "get"  -> {n \in op[h].before : n.id = op[h].id}
                                        \subseteq op[h].result
          [] OTHER -> TRUE

\* The registry s says of a's node that it was seen at a's instant or later.
Remembers(s, a) == \E i \in DOMAIN s : s[i].id = a.id /\ s[i].seen >= a.seen

(***************************************************************************)
(* A registration, or a keepalive of a registered node, that was answered  *)
(* is not forgotten: the file says the node was seen then or later.        *)
(***************************************************************************)
AckedDurable ==
    ~damaged /\ Current => \A a \in acked : Remembers(Loaded(file), a)

\* From s to t no node is taken out, moved, renamed or made to look older.
Grows(s, t) ==
    /\ Len(t) >= Len(s)
    /\ \A i \in 1 .. Len(s) : /\ Identity(t[i]) = Identity(s[i])
                              /\ t[i].seen >= s[i].seen

(***************************************************************************)
(* While the process runs no handler takes a node out, moves it, changes   *)
(* its identity or makes it look older.                                    *)
(***************************************************************************)
NodesOnlyGrow == [][up /\ up' => Grows(nodes, nodes')]_vars

(***************************************************************************)
(* A request that waits for the lock is answered, or its process dies.     *)
(***************************************************************************)
RequestsAnswered ==
    \A h \in Handlers : op[h].step = "wait" ~> op[h].step = "idle"

-----------------------------------------------------------------------------
(* The inductive invariant behind KnownSurvive, NoAddressReuse and          *)
(* HeadscaleKnowsRegistered.                                                *)

InSave == {"held", "opened", "saved"}

\* Only the holder of the lock saves, and a dead process does nothing.
LockInv ==
    /\ \A h \in Handlers : op[h].step \in InSave => holder = h /\ up
    /\ ~up => pending = {} /\ \A h \in Handlers : op[h] = Idle
    /\ ~up /\ unsaved => damaged

\* A handler that writes answers with nodes of the registry; no other has a result yet.
WorkInv ==
    \A h \in Handlers :
        /\ op[h].step \in {"idle", "wait"} => op[h].result = {}
        /\ op[h].step \in InSave => op[h].result \subseteq Identities(nodes)

\* Between two saves that succeed, the file is the registry.
FileInv ==
    /\ up /\ ~unsaved
    /\ \A h \in Handlers : op[h].step \notin {"held", "opened"}
    => Loaded(file) = nodes

\* Every identity that has left the registry, or is about to in an answer.
Told == known \cup pending \cup headscale
        \cup UNION {op[h].result : h \in {g \in Handlers : op[g].step = "reply"}}

ToldInv ==
    ~damaged => /\ up => Told \subseteq Identities(nodes)
                /\ Current => Told \subseteq Identities(Loaded(file))

(***************************************************************************)
(* Whatever left the adapter, in an answer or towards Headscale, was in a  *)
(* finished save first, and stays there: the invariant that makes the      *)
(* three properties above hold at every step.                              *)
(***************************************************************************)
StoreInv == LockInv /\ WorkInv /\ FileInv /\ ToldInv

\* What a reader must answer with was told before it arrived; writers are no readers.
FreshInv ==
    \A h \in Handlers :
        /\ op[h].step = "wait" => op[h].before \subseteq known
        /\ op[h].step \in InSave => op[h].kind \notin {"list", "get"}

\* The keepalives and registrations that handlers at these steps will answer.
Acks(steps) == {[id |-> op[h].id, seen |-> op[h].stamp] :
                    h \in {g \in Handlers : op[g].step \in steps /\ op[g].stamp # 0}}

\* Nobody waits with an instant to answer for; those there are, are in the registry
\* and, once they can be answered, in the file: the invariant behind AckedDurable.
AckInv ==
    /\ \A h \in Handlers : op[h].step \in {"idle", "wait"} => op[h].stamp = 0
    /\ ~damaged =>
        /\ up => \A a \in acked \cup Acks(InSave \cup {"reply"}) : Remembers(nodes, a)
        /\ Current => \A a \in acked \cup Acks({"reply"}) : Remembers(Loaded(file), a)

-----------------------------------------------------------------------------
(***************************************************************************)
(* The adapter implements Registry: what survives a death is an earlier    *)
(* state of what there was, whatever save the death interrupted.  While    *)
(* the process is down the registry is what it would load.                 *)
(***************************************************************************)
R == INSTANCE Registry WITH slots <- IF up THEN nodes ELSE Loaded(file)
ImplementsRegistry == R!Spec

\* What makes a death a step of Registry: the file is an earlier registry.
BehindInv ==
    /\ \A i \in 1 .. Len(nodes) : nodes[i].seen <= now
    /\ \A i \in 1 .. Len(file.nodes) : file.nodes[i].seen <= now
    /\ up => R!Earlier(Loaded(file), nodes)
=============================================================================
