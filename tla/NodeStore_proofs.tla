-------------------------- MODULE NodeStore_proofs --------------------------
(***************************************************************************)
(* Proofs about NodeStore, for any number of handlers, nodes, instants and *)
(* deaths of the process.                                                  *)
(***************************************************************************)
EXTENDS NodeStore, TLAPS

USE DEF store, remote, history, counters

-----------------------------------------------------------------------------
(***************************************************************************)
(* Loading the file, whole or not, yields a sequence of nodes.             *)
(***************************************************************************)
LEMMA LoadedType ==
  ASSUME TypeOK
  PROVE  Loaded(file) \in Seq(Nodes)
BY DEF TypeOK, Loaded

(***************************************************************************)
(* A keepalive keeps the length of the registry, the identity of every     *)
(* node and its type.                                                      *)
(***************************************************************************)
LEMMA SeenType ==
  ASSUME TypeOK, NEW id
  PROVE  /\ Seen(id) \in Seq(Nodes)
         /\ Len(Seen(id)) = Len(nodes)
         /\ \A i \in 1 .. Len(nodes) :
                /\ Seen(id)[i].id = nodes[i].id
                /\ Seen(id)[i].key = nodes[i].key
                /\ Seen(id)[i].seen \in {nodes[i].seen, now}
<1>1. nodes \in Seq(Nodes) /\ now \in Nat
  BY DEF TypeOK
<1>2. DOMAIN nodes = 1 .. Len(nodes) /\ Len(nodes) \in Nat
  BY <1>1
<1>3. ASSUME NEW i \in 1 .. Len(nodes)
      PROVE  /\ Seen(id)[i] \in Nodes
             /\ Seen(id)[i].id = nodes[i].id
             /\ Seen(id)[i].key = nodes[i].key
             /\ Seen(id)[i].seen \in {nodes[i].seen, now}
  <2>1. nodes[i] \in Nodes
    BY <1>1, <1>2
  <2>2. Seen(id)[i] = IF i \in Slots(id) THEN [nodes[i] EXCEPT !.seen = now]
                                         ELSE nodes[i]
    BY <1>2 DEF Seen
  <2> QED
    BY <1>1, <2>1, <2>2 DEF Nodes
<1>4. Seen(id) = [i \in 1 .. Len(nodes) |-> Seen(id)[i]]
  BY <1>2 DEF Seen
<1> QED
  BY <1>1, <1>2, <1>3, <1>4

(***************************************************************************)
(* The identities of a sequence of nodes are identities.                   *)
(***************************************************************************)
LEMMA IdentitiesType ==
  ASSUME NEW s \in Seq(Nodes)
  PROVE  Identities(s) \subseteq Idents
<1>1. \A i \in DOMAIN s : s[i] \in Nodes
  OBVIOUS
<1>2. \A n \in Nodes : Identity(n) \in Idents
  BY DEF Nodes, Identity, Idents
<1> QED
  BY <1>1, <1>2 DEF Identities

(***************************************************************************)
(* Moving one handler to its next step keeps the type of op, whether the   *)
(* step also sets a stamp, a result, or all that a registration sets.      *)
(***************************************************************************)
LEMMA StepType ==
  ASSUME op \in [Handlers -> Ops], NEW h \in Handlers, NEW step \in Steps
  PROVE  [op EXCEPT ![h].step = step] \in [Handlers -> Ops]
<1>1. [op[h] EXCEPT !.step = step] \in Ops
  BY DEF Ops
<1> QED
  BY <1>1

\* The time a keepalive will answer for is a time.
LEMMA StampType ==
  ASSUME op \in [Handlers -> Ops], NEW h \in Handlers, NEW step \in Steps,
         NEW stamp \in Nat
  PROVE  [op EXCEPT ![h].step = step, ![h].stamp = stamp] \in [Handlers -> Ops]
<1> DEFINE o == [op[h] EXCEPT !.step = step, !.stamp = stamp]
<1>1. o \in Ops
  BY DEF Ops
<1>2. [op EXCEPT ![h].step = step, ![h].stamp = stamp] = [op EXCEPT ![h] = o]
  BY DEF Ops
<1> HIDE DEF o
<1> QED
  BY <1>1, <1>2

\* What a handler answers with is a set of identities.
LEMMA ResultType ==
  ASSUME op \in [Handlers -> Ops], NEW h \in Handlers, NEW step \in Steps,
         NEW result \in SUBSET Idents
  PROVE  [op EXCEPT ![h].step = step, ![h].result = result] \in [Handlers -> Ops]
<1> DEFINE o == [op[h] EXCEPT !.step = step, !.result = result]
<1>1. o \in Ops
  BY DEF Ops
<1>2. [op EXCEPT ![h].step = step, ![h].result = result] = [op EXCEPT ![h] = o]
  BY DEF Ops
<1> HIDE DEF o
<1> QED
  BY <1>1, <1>2

\* A registration leaves registry and handler well-typed.
LEMMA RegisterType ==
  ASSUME op \in [Handlers -> Ops], NEW h \in Handlers, NEW step \in Steps,
         NEW id \in Nat, NEW stamp \in Nat, NEW result \in SUBSET Idents
  PROVE  [op EXCEPT ![h].step = step, ![h].id = id, ![h].result = result,
                    ![h].stamp = stamp] \in [Handlers -> Ops]
<1> DEFINE o == [op[h] EXCEPT !.step = step, !.id = id, !.result = result,
                              !.stamp = stamp]
<1>1. o \in Ops
  BY DEF Ops
<1>2. [op EXCEPT ![h].step = step, ![h].id = id, ![h].result = result,
                 ![h].stamp = stamp] = [op EXCEPT ![h] = o]
  BY DEF Ops
<1> HIDE DEF o
<1> QED
  BY <1>1, <1>2

(***************************************************************************)
(* Type correctness of the adapter.                                        *)
(***************************************************************************)
LEMMA TypeInit == Init => TypeOK
<1> SUFFICES ASSUME Init PROVE TypeOK
  OBVIOUS
<1>1. InitialNodes \in Seq(Nodes)
  BY NodeStoreAssumption DEF InitialNodes, Nodes
<1>2. Idle \in Ops /\ << >> \in Seq(Nodes)
  BY DEF Idle, Ops, Steps, Kinds
<1>3. op \in [Handlers -> Ops]
  BY <1>2 DEF Init
<1>4. file \in [whole : BOOLEAN, nodes : Seq(Nodes)]
  BY <1>1 DEF Init, Whole
<1> QED
  BY <1>2, <1>3, <1>4, NodeStoreAssumption DEF Init, TypeOK

\* Every step of the adapter keeps the types, one case per action.
LEMMA TypeStep == TypeOK /\ [Next]_vars => TypeOK'
<1> SUFFICES ASSUME TypeOK, [Next]_vars PROVE TypeOK'
  OBVIOUS
<1> USE DEF TypeOK
<1>0. /\ Idle \in Ops /\ << >> \in Seq(Nodes)
      /\ Torn \in [whole : BOOLEAN, nodes : Seq(Nodes)]
      /\ Whole(nodes) \in [whole : BOOLEAN, nodes : Seq(Nodes)]
  BY DEF Idle, Ops, Steps, Kinds, Torn, Whole
<1>1. CASE Start
  BY <1>1, LoadedType DEF Start
<1>2. ASSUME NEW h \in Handlers, NEW kind \in Kinds,
             NEW id \in 2 .. (MaxNodes + 1), Arrive(h, kind, id)
      PROVE  TypeOK'
  <2> DEFINE o == [Idle EXCEPT
                    !.step = "wait", !.kind = kind,
                    !.id = IF kind \in {"keepalive", "get"} THEN id ELSE 0,
                    !.key = IF kind = "register" THEN made' ELSE 0,
                    !.before = IF kind \in {"list", "get"} THEN known ELSE {}]
  <2>1. made' \in Nat /\ id \in Nat
    BY <1>2, NodeStoreAssumption DEF Arrive
  <2>2. o \in Ops
    BY <2>1 DEF Idle, Ops, Steps, Kinds
  <2>3. op' = [op EXCEPT ![h] = o]
    BY <1>2 DEF Arrive
  <2> HIDE DEF o
  <2>4. op' \in [Handlers -> Ops]
    BY <2>2, <2>3
  <2> QED
    BY <1>2, <2>1, <2>4 DEF Arrive
<1>3. ASSUME NEW h \in Handlers, RegisterLocked(h) PROVE TypeOK'
  <2> DEFINE node == [id |-> nextID, key |-> op[h].key, seen |-> now]
  <2>1. node \in Nodes /\ Identity(node) \in Idents
    BY DEF Nodes, Idents, Identity, Ops
  <2>2. /\ nodes' = Append(nodes, node) /\ nextID' = nextID + 1 /\ holder' = h
        /\ op' = [op EXCEPT ![h].step = "held", ![h].id = nextID,
                            ![h].result = {Identity(node)}, ![h].stamp = now]
    BY <1>3 DEF RegisterLocked
  <2> HIDE DEF node
  <2>3. nodes' \in Seq(Nodes)
    BY <2>1, <2>2
  <2>4. op' \in [Handlers -> Ops]
    <3>1. {Identity(node)} \in SUBSET Idents /\ "held" \in Steps
      BY <2>1 DEF Steps
    <3> QED
      BY <2>2, <3>1, RegisterType
  <2>5. UNCHANGED <<up, file, pending, headscale, counters, history>>
    BY <1>3 DEF RegisterLocked
  <2>6. nextID' \in Nat
    BY <2>2
  <2> QED
    BY <2>2, <2>3, <2>4, <2>5, <2>6
<1>4. ASSUME NEW h \in Handlers, KeepAliveLocked(h) PROVE TypeOK'
  <2>1. op' \in [Handlers -> Ops]
    <3> DEFINE stamp == IF Slots(op[h].id) = {} THEN 0 ELSE now
    <3>1. op' = [op EXCEPT ![h].step = "held", ![h].stamp = stamp]
      BY <1>4 DEF KeepAliveLocked, KeepAliveFrame
    <3>2. stamp \in Nat
      OBVIOUS
    <3> HIDE DEF stamp
    <3> QED
      BY <3>1, <3>2, StampType DEF Steps
  <2>2. nodes' \in Seq(Nodes)
    BY <1>4, SeenType DEF KeepAliveLocked
  <2> QED
    BY <1>4, <2>1, <2>2 DEF KeepAliveLocked, KeepAliveFrame
<1>5. ASSUME NEW h \in Handlers, ReadLocked(h) PROVE TypeOK'
  <2> DEFINE r == IF op[h].kind = "list" THEN Identities(nodes)
                  ELSE {Identity(nodes[i]) : i \in Slots(op[h].id)}
  <2>1. r \subseteq Idents
    BY IdentitiesType DEF Identities, Slots
  <2>2. op' = [op EXCEPT ![h].step = "reply", ![h].result = r]
    BY <1>5 DEF ReadLocked
  <2> HIDE DEF r
  <2>3. op' \in [Handlers -> Ops]
    BY <2>1, <2>2, ResultType DEF Steps
  <2> QED
    BY <1>5, <2>3 DEF ReadLocked
<1>6. ASSUME NEW h \in Handlers, OpenFile(h) PROVE TypeOK'
  <2>1. op' \in [Handlers -> Ops]
    <3>1. \/ op' = [op EXCEPT ![h].step = "opened"]
          \/ op' = [op EXCEPT ![h].step = "saved"]
      BY <1>6 DEF OpenFile
    <3>2. "opened" \in Steps /\ "saved" \in Steps
      BY DEF Steps
    <3> QED
      BY <3>1, <3>2, StepType
  <2> QED
    BY <1>0, <1>6, <2>1 DEF OpenFile
<1>7. ASSUME NEW h \in Handlers, WriteFile(h) PROVE TypeOK'
  <2>1. op' \in [Handlers -> Ops]
    BY <1>7, StepType DEF WriteFile, Steps
  <2> QED
    BY <1>0, <1>7, <2>1 DEF WriteFile
<1>8. ASSUME NEW h \in Handlers, Unlock(h) PROVE TypeOK'
  <2>1. op[h].result \subseteq Idents
    BY DEF Ops
  <2>2. op' \in [Handlers -> Ops]
    BY <1>8, StepType DEF Unlock, Steps
  <2> QED
    BY <1>8, <2>1, <2>2 DEF Unlock
<1>9. ASSUME NEW h \in Handlers, Reply(h) PROVE TypeOK'
  <2>1. op[h] \in Ops
    OBVIOUS
  <2>2. op' \in [Handlers -> Ops]
    BY <1>0, <1>9 DEF Reply
  <2>3. known' \subseteq Idents /\ acked' \subseteq [id : Nat, seen : Nat]
    BY <1>9, <2>1 DEF Reply, Ops
  <2> QED
    BY <1>9, <2>2, <2>3 DEF Reply
<1>10. ASSUME NEW n \in pending, SyncToHeadscale(n) PROVE TypeOK'
  BY <1>10 DEF SyncToHeadscale
<1>11. CASE Die
  <2>1. op' \in [Handlers -> Ops]
    BY <1>0, <1>11 DEF Die
  <2>2. damaged' \in BOOLEAN
    BY <1>11 DEF Die
  <2>3. /\ up' = FALSE /\ deaths' = deaths + 1
        /\ nodes' = << >> /\ nextID' = 2 /\ holder' = NoHandler /\ pending' = {}
        /\ UNCHANGED <<file, headscale, now, made, unsaved, known, acked>>
    BY <1>11 DEF Die
  <2>4. deaths' \in Nat /\ nextID' \in Nat
    BY <2>3
  <2> QED
    BY <1>0, <2>1, <2>2, <2>3, <2>4
<1>12. CASE ResetDatabase
  BY <1>12 DEF ResetDatabase
<1>13. CASE Tick
  BY <1>13 DEF Tick
<1>14. CASE UNCHANGED vars
  BY <1>14 DEF vars
<1> QED
  <2> HIDE DEF TypeOK
  <2> QED
    BY <1>1, <1>2, <1>3, <1>4, <1>5, <1>6, <1>7, <1>8, <1>9, <1>10, <1>11,
       <1>12, <1>13, <1>14 DEF Next, Handle

\* The state stays of the types of server/main.go, whatever the handlers, the
\* bounds and the registry the process starts from.
THEOREM TypeCorrect == Spec => []TypeOK
BY TypeInit, TypeStep, PTL DEF Spec

-----------------------------------------------------------------------------
(***************************************************************************)
(* The number of a node is its slot and the next number that of the next   *)
(* slot, in memory and in the file.                                        *)
(***************************************************************************)
LEMMA SlotInit == Init => SlotAddress
<1> SUFFICES ASSUME Init PROVE SlotAddress
  OBVIOUS
<1>1. Numbered(InitialNodes)
  BY NodeStoreAssumption DEF Numbered, InitialNodes
<1>2. Numbered(<< >>)
  BY DEF Numbered
<1> QED
  BY <1>1, <1>2 DEF Init, SlotAddress, Whole

\* load, handleRegister and handleNodeByID keep numbers and slots together.
LEMMA SlotStep == TypeOK /\ SlotAddress /\ [Next]_vars => SlotAddress'
<1> SUFFICES ASSUME TypeOK, SlotAddress, [Next]_vars PROVE SlotAddress'
  OBVIOUS
<1>0. Numbered(<< >>) /\ Numbered(Loaded(file))
  BY DEF Numbered, Loaded, SlotAddress
<1>1. CASE Start
  BY <1>0, <1>1 DEF Start, SlotAddress
<1>2. ASSUME NEW h \in Handlers, RegisterLocked(h) PROVE SlotAddress'
  <2> DEFINE node == [id |-> nextID, key |-> op[h].key, seen |-> now]
  <2>1. nodes' = Append(nodes, node) /\ nextID' = nextID + 1 /\ file' = file
    BY <1>2 DEF RegisterLocked
  <2>2. node.id = Len(nodes) + 2
    BY DEF SlotAddress
  <2> HIDE DEF node
  <2>3. nodes \in Seq(Nodes)
    BY DEF TypeOK
  <2>4. Numbered(nodes')
    BY <2>1, <2>2, <2>3 DEF Numbered, SlotAddress
  <2> QED
    BY <2>1, <2>3, <2>4 DEF SlotAddress
<1>3. ASSUME NEW h \in Handlers, KeepAliveLocked(h) PROVE SlotAddress'
  <2>1. nodes' = Seen(op[h].id) /\ nextID' = nextID /\ file' = file
    BY <1>3 DEF KeepAliveLocked, KeepAliveFrame
  <2> QED
    BY <2>1, SeenType DEF SlotAddress, Numbered
<1>4. ASSUME NEW h \in Handlers, OpenFile(h) PROVE SlotAddress'
  <2>1. file' \in {file, Torn}
    BY <1>4 DEF OpenFile
  <2>2. nodes' = nodes /\ nextID' = nextID
    BY <1>4 DEF OpenFile
  <2> QED
    BY <1>0, <2>1, <2>2 DEF SlotAddress, Torn
<1>5. ASSUME NEW h \in Handlers, WriteFile(h) PROVE SlotAddress'
  <2>1. file' \in {Whole(nodes), Torn}
    BY <1>5 DEF WriteFile
  <2>2. nodes' = nodes /\ nextID' = nextID
    BY <1>5 DEF WriteFile
  <2> QED
    BY <1>0, <2>1, <2>2 DEF SlotAddress, Torn, Whole
<1>6. CASE Die
  BY <1>0, <1>6 DEF Die, SlotAddress
<1>7. CASE UNCHANGED <<nodes, nextID, file>>
  BY <1>7 DEF SlotAddress
<1> QED
  BY <1>1, <1>2, <1>3, <1>4, <1>5, <1>6, <1>7
     DEF Next, Handle, Arrive, ReadLocked, Unlock, Reply, SyncToHeadscale,
         ResetDatabase, Tick, vars

\* The node in slot i has the number i + 1, and nextID is the next: two nodes of
\* the registry never share an id or an address (server/main.go:249-251).
THEOREM SlotAddressCorrect == Spec => []SlotAddress
BY TypeInit, TypeStep, SlotInit, SlotStep, PTL DEF Spec

-----------------------------------------------------------------------------
(***************************************************************************)
(* What a registration and a keepalive do to the identities of the         *)
(* registry: the first adds one, the second leaves them as they are.       *)
(***************************************************************************)
LEMMA IdentitiesAppend ==
  ASSUME NEW s \in Seq(Nodes), NEW n \in Nodes
  PROVE  Identities(Append(s, n)) = Identities(s) \cup {Identity(n)}
<1> DEFINE t == Append(s, n)
<1>1. /\ DOMAIN t = DOMAIN s \cup {Len(s) + 1}
      /\ \A i \in DOMAIN s : t[i] = s[i]
      /\ t[Len(s) + 1] = n
  OBVIOUS
<1> HIDE DEF t
<1>2. Identities(t) = Identities(s) \cup {Identity(n)}
  BY <1>1 DEF Identities
<1> QED
  BY <1>2 DEF t

\* A keepalive changes no identity.
LEMMA IdentitiesSeen ==
  ASSUME TypeOK, NEW id
  PROVE  Identities(Seen(id)) = Identities(nodes)
<1>1. DOMAIN Seen(id) = DOMAIN nodes
  BY DEF Seen
<1>2. \A i \in DOMAIN nodes : Identity(Seen(id)[i]) = Identity(nodes[i])
  <2>1. DOMAIN nodes = 1 .. Len(nodes)
    BY DEF TypeOK
  <2> QED
    BY <2>1, SeenType DEF Identity
<1> QED
  BY <1>1, <1>2 DEF Identities

(***************************************************************************)
(* What leaves the adapter is in a finished save, and stays there.         *)
(***************************************************************************)
LEMMA StoreInit == Init => StoreInv
<1> SUFFICES ASSUME Init PROVE StoreInv
  OBVIOUS
<1>1. \A h \in Handlers : op[h] = Idle
  BY DEF Init
<1>2. Idle.step = "idle" /\ Idle.result = {}
  BY DEF Idle
<1>3. Told = {}
  BY <1>1, <1>2 DEF Told, Init
<1> QED
  BY <1>1, <1>2, <1>3 DEF Init, StoreInv, LockInv, WorkInv, FileInv, ToldInv, InSave

\* Every step of the adapter keeps the inductive invariant, case by action and
\* under it conjunct by conjunct.
LEMMA StoreStep == TypeOK /\ StoreInv /\ [Next]_vars => StoreInv'
<1> SUFFICES ASSUME TypeOK, StoreInv, [Next]_vars PROVE StoreInv'
  OBVIOUS
<1>0. /\ op \in [Handlers -> Ops] /\ nodes \in Seq(Nodes)
      /\ Idle.step = "idle" /\ Idle.result = {}
  BY DEF TypeOK, Idle
<1> DEFINE MovesTo(h, step, result) ==
             /\ \A g \in Handlers : g # h => op'[g] = op[g]
             /\ op'[h].step = step /\ op'[h].result = result
<1>1. CASE Start
  <2>1. /\ ~up /\ up' /\ nodes' = Loaded(file)
        /\ UNCHANGED <<holder, op, file, remote, counters, history>>
    BY <1>1 DEF Start
  <2>2. pending = {} /\ \A h \in Handlers : op[h] = Idle
    BY <2>1 DEF StoreInv, LockInv
  <2>3. LockInv' /\ WorkInv' /\ FileInv'
    BY <1>0, <2>1, <2>2 DEF LockInv, WorkInv, FileInv, InSave, StoreInv, Loaded
  <2>4. Told' = Told /\ (Current <=> Current')
    BY <2>1 DEF Told, Current
  <2>5. ~damaged => Current
    BY <1>0, <2>1, <2>2 DEF Current, StoreInv, LockInv
  <2>6. ToldInv'
    BY <2>1, <2>4, <2>5 DEF ToldInv, StoreInv, Loaded
  <2> QED
    BY <2>3, <2>6 DEF StoreInv
<1>2. ASSUME NEW h \in Handlers, NEW kind \in Kinds,
             NEW id \in 2 .. (MaxNodes + 1), Arrive(h, kind, id)
      PROVE  StoreInv'
  <2>1. /\ up /\ op[h].step = "idle" /\ MovesTo(h, "wait", {})
        /\ UNCHANGED <<up, store, holder, file, remote, history>>
    BY <1>0, <1>2 DEF Arrive, Idle
  <2>2. LockInv' /\ WorkInv' /\ FileInv'
    BY <2>1 DEF LockInv, WorkInv, FileInv, InSave, StoreInv, Loaded
  <2>3. Told' = Told /\ (Current <=> Current')
    BY <2>1 DEF Told, Current
  <2>4. ToldInv'
    BY <2>1, <2>3 DEF ToldInv, StoreInv, Loaded
  <2> QED
    BY <2>2, <2>4 DEF StoreInv
<1>3. ASSUME NEW h \in Handlers, RegisterLocked(h) PROVE StoreInv'
  <2> DEFINE node == [id |-> nextID, key |-> op[h].key, seen |-> now]
  <2>1. /\ op[h].step = "wait" /\ holder = NoHandler /\ holder' = h
        /\ nodes' = Append(nodes, node) /\ MovesTo(h, "held", {Identity(node)})
        /\ UNCHANGED <<up, file, pending, headscale, history>>
    BY <1>0, <1>3 DEF RegisterLocked
  <2>2. node \in Nodes
    BY DEF TypeOK, Nodes, Ops
  <2> HIDE DEF node
  <2>3. Identities(nodes') = Identities(nodes) \cup {Identity(node)}
    BY <1>0, <2>1, <2>2, IdentitiesAppend
  <2>4. up /\ \A g \in Handlers : op[g].step \notin InSave
    BY <1>0, <2>1, NodeStoreAssumption DEF StoreInv, LockInv
  <2>5. LockInv' /\ WorkInv' /\ FileInv'
    BY <2>1, <2>3, <2>4 DEF LockInv, WorkInv, FileInv, InSave, StoreInv
  <2>6. Told' = Told /\ (Current <=> Current')
    BY <2>1 DEF Told, Current
  <2>7. ToldInv'
    BY <2>1, <2>3, <2>6 DEF ToldInv, StoreInv, Loaded
  <2> QED
    BY <2>5, <2>7 DEF StoreInv
<1>4. ASSUME NEW h \in Handlers, KeepAliveLocked(h) PROVE StoreInv'
  <2>1. /\ op[h].step = "wait" /\ holder = NoHandler /\ holder' = h
        /\ nodes' = Seen(op[h].id) /\ MovesTo(h, "held", op[h].result)
        /\ UNCHANGED <<up, file, pending, headscale, history>>
    BY <1>0, <1>4 DEF KeepAliveLocked, KeepAliveFrame
  <2>2. Identities(nodes') = Identities(nodes)
    BY <2>1, IdentitiesSeen
  <2>3. /\ up /\ op[h].result = {}
        /\ \A g \in Handlers : op[g].step \notin InSave
    BY <1>0, <2>1, NodeStoreAssumption DEF StoreInv, LockInv, WorkInv
  <2>4. LockInv' /\ WorkInv' /\ FileInv'
    BY <2>1, <2>2, <2>3 DEF LockInv, WorkInv, FileInv, InSave, StoreInv
  <2>5. Told' = Told /\ (Current <=> Current')
    BY <2>1 DEF Told, Current
  <2>6. ToldInv'
    BY <2>1, <2>2, <2>5 DEF ToldInv, StoreInv, Loaded
  <2> QED
    BY <2>4, <2>6 DEF StoreInv
<1>5. ASSUME NEW h \in Handlers, ReadLocked(h) PROVE StoreInv'
  <2> DEFINE r == IF op[h].kind = "list" THEN Identities(nodes)
                  ELSE {Identity(nodes[i]) : i \in Slots(op[h].id)}
  <2>1. /\ op[h].step = "wait" /\ holder = NoHandler /\ MovesTo(h, "reply", r)
        /\ UNCHANGED <<up, store, holder, file, remote, history>>
    BY <1>0, <1>5 DEF ReadLocked
  <2>2. r \subseteq Identities(nodes)
    BY DEF Identities, Slots
  <2> HIDE DEF r
  <2>3. up /\ \A g \in Handlers : op[g].step \notin InSave
    BY <1>0, <2>1, NodeStoreAssumption DEF StoreInv, LockInv
  <2>4. LockInv' /\ WorkInv' /\ FileInv'
    BY <2>1, <2>3 DEF LockInv, WorkInv, FileInv, InSave, StoreInv, Loaded
  <2>5. Told' \subseteq Told \cup Identities(nodes) /\ (Current' => Current)
    BY <2>1, <2>2 DEF Told, Current
  <2>6. Current' => Loaded(file) = nodes
    BY <2>3, <2>5 DEF FileInv, StoreInv, Current, InSave
  <2>7. ToldInv'
    BY <2>1, <2>3, <2>5, <2>6 DEF ToldInv, StoreInv, Loaded
  <2> QED
    BY <2>4, <2>7 DEF StoreInv
<1>6. ASSUME NEW h \in Handlers, OpenFile(h) PROVE StoreInv'
  <2>1. /\ op[h].step = "held"
        /\ UNCHANGED <<up, store, holder, remote, damaged, known>>
    BY <1>6 DEF OpenFile
  <2>2. \/ MovesTo(h, "opened", op[h].result) /\ unsaved' = unsaved
        \/ MovesTo(h, "saved", op[h].result) /\ unsaved' = TRUE
    <3>1. \/ op' = [op EXCEPT ![h].step = "opened"] /\ unsaved' = unsaved
          \/ op' = [op EXCEPT ![h].step = "saved"] /\ unsaved' = TRUE
      BY <1>6 DEF OpenFile
    <3>2. op' = [op EXCEPT ![h].step = "opened"] => MovesTo(h, "opened", op[h].result)
      BY <1>0
    <3>3. op' = [op EXCEPT ![h].step = "saved"] => MovesTo(h, "saved", op[h].result)
      BY <1>0
    <3> HIDE DEF MovesTo
    <3> QED
      BY <3>1, <3>2, <3>3
  <2>3. up /\ holder = h
    BY <2>1 DEF StoreInv, LockInv, InSave
  <2>4. LockInv' /\ WorkInv' /\ FileInv'
    BY <2>1, <2>2, <2>3 DEF LockInv, WorkInv, FileInv, InSave, StoreInv
  <2>5. Told' = Told /\ ~Current'
    BY <2>1, <2>2 DEF Told, Current
  <2>6. ToldInv'
    BY <2>1, <2>5 DEF ToldInv, StoreInv
  <2> QED
    BY <2>4, <2>6 DEF StoreInv
<1>7. ASSUME NEW h \in Handlers, WriteFile(h) PROVE StoreInv'
  <2>1. /\ op[h].step = "opened" /\ MovesTo(h, "saved", op[h].result)
        /\ UNCHANGED <<up, store, holder, remote, damaged, known>>
    BY <1>0, <1>7 DEF WriteFile
  <2>2. \/ Loaded(file') = nodes /\ unsaved' = FALSE
        \/ unsaved' = TRUE
    BY <1>7 DEF WriteFile, Loaded, Whole
  <2>3. up /\ holder = h
    BY <2>1 DEF StoreInv, LockInv, InSave
  <2>4. LockInv' /\ WorkInv' /\ FileInv'
    BY <2>1, <2>2, <2>3 DEF LockInv, WorkInv, FileInv, InSave, StoreInv, Loaded
  <2>5. Told' = Told /\ (Current' => Loaded(file') = nodes')
    BY <2>1, <2>2 DEF Told, Current
  <2>6. ToldInv'
    BY <2>1, <2>3, <2>5 DEF ToldInv, StoreInv, Loaded
  <2> QED
    BY <2>4, <2>6 DEF StoreInv
<1>8. ASSUME NEW h \in Handlers, Unlock(h) PROVE StoreInv'
  <2>1. /\ op[h].step = "saved" /\ holder' = NoHandler
        /\ MovesTo(h, "reply", op[h].result)
        /\ pending' = pending \cup op[h].result
        /\ UNCHANGED <<up, store, file, headscale, history>>
    BY <1>0, <1>8 DEF Unlock
  <2>2. /\ up /\ op[h].result \subseteq Identities(nodes)
        /\ \A g \in Handlers : g # h => op[g].step \notin InSave
    BY <2>1 DEF StoreInv, LockInv, WorkInv, InSave
  <2>3. LockInv' /\ WorkInv' /\ FileInv'
    BY <2>1, <2>2 DEF LockInv, WorkInv, FileInv, InSave, StoreInv, Loaded
  <2>4. Told' \subseteq Told \cup Identities(nodes) /\ (Current' => Current)
    BY <2>1, <2>2 DEF Told, Current
  <2>5. Current' => Loaded(file) = nodes
    BY <2>1, <2>2 DEF FileInv, StoreInv, Current, InSave
  <2>6. ToldInv'
    BY <2>1, <2>2, <2>4, <2>5 DEF ToldInv, StoreInv, Loaded
  <2> QED
    BY <2>3, <2>6 DEF StoreInv
<1>9. ASSUME NEW h \in Handlers, Reply(h) PROVE StoreInv'
  <2>1. /\ op[h].step = "reply" /\ MovesTo(h, "idle", {}) /\ op'[h] = Idle
        /\ known' = known \cup op[h].result
        /\ UNCHANGED <<up, store, holder, file, remote, unsaved, damaged>>
    BY <1>0, <1>9 DEF Reply
  <2>2. LockInv' /\ WorkInv' /\ FileInv'
    BY <2>1 DEF LockInv, WorkInv, FileInv, InSave, StoreInv, Loaded
  <2>3. Told' \subseteq Told /\ (Current' => Current)
    BY <2>1 DEF Told, Current
  <2>4. ToldInv'
    BY <2>1, <2>3 DEF ToldInv, StoreInv, Loaded
  <2> QED
    BY <2>2, <2>4 DEF StoreInv
<1>10. ASSUME NEW n \in pending, SyncToHeadscale(n) PROVE StoreInv'
  <2>1. /\ up /\ pending' \subseteq pending /\ headscale' \subseteq headscale \cup pending
        /\ UNCHANGED <<up, store, holder, op, file, history>>
    BY <1>10 DEF SyncToHeadscale
  <2>2. LockInv' /\ WorkInv' /\ FileInv'
    BY <2>1 DEF LockInv, WorkInv, FileInv, StoreInv, Loaded
  <2>3. Told' \subseteq Told /\ (Current <=> Current')
    BY <2>1 DEF Told, Current
  <2>4. ToldInv'
    BY <2>1, <2>3 DEF ToldInv, StoreInv, Loaded
  <2> QED
    BY <2>2, <2>4 DEF StoreInv
<1>11. CASE Die
  <2>1. /\ up' = FALSE /\ pending' = {} /\ op' = [h \in Handlers |-> Idle]
        /\ (damaged' <=> damaged \/ unsaved \/ \E h \in Handlers : op[h].step = "opened")
        /\ UNCHANGED <<file, headscale, unsaved, known>>
    BY <1>11 DEF Die, TypeOK
  <2>2. LockInv' /\ WorkInv' /\ FileInv'
    BY <1>0, <2>1 DEF LockInv, WorkInv, FileInv, InSave
  <2>3. Told' \subseteq Told /\ (~damaged' => Current)
    BY <1>0, <2>1 DEF Told, Current
  <2>4. ToldInv'
    BY <2>1, <2>3 DEF ToldInv, StoreInv, Loaded
  <2> QED
    BY <2>2, <2>4 DEF StoreInv
<1>12. CASE ResetDatabase
  <2>1. /\ headscale' = {}
        /\ UNCHANGED <<up, store, holder, op, file, pending, history>>
    BY <1>12 DEF ResetDatabase
  <2>2. LockInv' /\ WorkInv' /\ FileInv'
    BY <2>1 DEF LockInv, WorkInv, FileInv, StoreInv, Loaded
  <2>3. Told' \subseteq Told /\ (Current <=> Current')
    BY <2>1 DEF Told, Current
  <2>4. ToldInv'
    BY <2>1, <2>3 DEF ToldInv, StoreInv, Loaded
  <2> QED
    BY <2>2, <2>4 DEF StoreInv
<1>13. CASE UNCHANGED <<up, store, holder, op, file, remote, history>>
  BY <1>13 DEF StoreInv, LockInv, WorkInv, FileInv, ToldInv, Told, Current, Loaded
<1> QED
  BY <1>1, <1>2, <1>3, <1>4, <1>5, <1>6, <1>7, <1>8, <1>9, <1>10, <1>11,
     <1>12, <1>13 DEF Next, Handle, Tick, vars

(***************************************************************************)
(* StoreInv is an invariant, and gives three of the adapter's promises:    *)
(* what clients were told survives restarts, no number is told twice, and  *)
(* Headscale hears of registered nodes only.                               *)
(***************************************************************************)
THEOREM StoreInvCorrect == Spec => []StoreInv
BY TypeInit, TypeStep, StoreInit, StoreStep, PTL DEF Spec

\* What a client was told of a node is in the registry, and on disk unless a save
\* is under way or failed (handleRegister, save).
THEOREM KnownSurviveCorrect == Spec => []KnownSurvive
<1>1. StoreInv => KnownSurvive
  BY DEF StoreInv, ToldInv, Told, KnownSurvive
<1> QED
  BY <1>1, StoreInvCorrect, PTL

\* Headscale hears only of nodes that handleRegister put in the registry, once
\* they were saved (server/main.go:263-266).
THEOREM HeadscaleCorrect == Spec => []HeadscaleKnowsRegistered
<1>1. StoreInv => HeadscaleKnowsRegistered
  BY DEF StoreInv, ToldInv, Told, HeadscaleKnowsRegistered
<1> QED
  BY <1>1, StoreInvCorrect, PTL

(***************************************************************************)
(* In a registry numbered by slot a number belongs to one identity.        *)
(***************************************************************************)
LEMMA NumberedIdentities ==
  ASSUME NEW s \in Seq(Nodes), Numbered(s),
         NEW a \in Identities(s), NEW b \in Identities(s), a.id = b.id
  PROVE  a = b
<1>1. PICK i \in DOMAIN s : a = Identity(s[i])
  BY DEF Identities
<1>2. PICK j \in DOMAIN s : b = Identity(s[j])
  BY DEF Identities
<1>3. a.id = i + 1 /\ b.id = j + 1
  BY <1>1, <1>2 DEF Numbered, Identity
<1>4. i = j
  <2>1. i \in Nat /\ j \in Nat
    OBVIOUS
  <2>2. i + 1 = j + 1
    BY <1>3
  <2>3. \A m, n \in Nat : m + 1 = n + 1 => m = n
    OBVIOUS
  <2> QED
    BY <2>1, <2>2, <2>3
<1> QED
  BY <1>1, <1>2, <1>4

\* As long as no save failed and no process died in one, no id was ever told for
\* two different nodes.
THEOREM NoAddressReuseCorrect == Spec => []NoAddressReuse
<1>1. TypeOK /\ SlotAddress /\ StoreInv => NoAddressReuse
  <2> SUFFICES ASSUME TypeOK, SlotAddress, StoreInv, ~damaged,
                      NEW a \in known, NEW b \in known, a.id = b.id
               PROVE  a = b
    BY DEF NoAddressReuse
  <2>1. CASE up
    <3>1. known \subseteq Identities(nodes)
      BY <2>1 DEF StoreInv, ToldInv, Told
    <3> QED
      BY <3>1, NumberedIdentities DEF TypeOK, SlotAddress
  <2>2. CASE ~up
    <3>1. Current
      BY <2>2 DEF StoreInv, LockInv, Current, Idle
    <3>2. known \subseteq Identities(Loaded(file))
      BY <3>1 DEF StoreInv, ToldInv, Told
    <3>3. Numbered(Loaded(file)) /\ Loaded(file) \in Seq(Nodes)
      BY LoadedType DEF SlotAddress, Loaded, Numbered
    <3> QED
      BY <3>2, <3>3, NumberedIdentities
  <2> QED
    BY <2>1, <2>2
<1> QED
  BY <1>1, TypeCorrect, SlotAddressCorrect, StoreInvCorrect, PTL

-----------------------------------------------------------------------------
(***************************************************************************)
(* The nodes of a sequence of nodes.                                       *)
(***************************************************************************)
LEMMA NodeAt ==
  ASSUME NEW s \in Seq(Nodes), NEW i \in 1 .. Len(s)
  PROVE  s[i] \in Nodes /\ s[i].seen \in Nat
<1>1. s[i] \in Nodes
  OBVIOUS
<1> QED
  BY <1>1 DEF Nodes

(***************************************************************************)
(* The file is an earlier state of the registry, never of anything else,   *)
(* and nothing was seen after now.                                         *)
(***************************************************************************)
LEMMA EarlierRefl ==
  ASSUME NEW s \in Seq(Nodes)
  PROVE  R!Earlier(s, s)
<1>1. \A i \in 1 .. Len(s) : s[i].seen \in Nat
  BY NodeAt
<1> QED
  BY <1>1 DEF R!Earlier

\* An empty registry is earlier than any.
LEMMA EarlierEmpty ==
  ASSUME NEW s \in Seq(Nodes)
  PROVE  R!Earlier(<< >>, s)
BY DEF R!Earlier

\* A registry is earlier than itself with one more node.
LEMMA EarlierAppend ==
  ASSUME NEW s \in Seq(Nodes), NEW t \in Seq(Nodes), NEW n \in Nodes,
         R!Earlier(s, t)
  PROVE  R!Earlier(s, Append(t, n))
BY DEF R!Earlier

\* A registry is earlier than itself after a keepalive.
LEMMA EarlierSeen ==
  ASSUME TypeOK, BehindInv, NEW id, NEW s \in Seq(Nodes), R!Earlier(s, nodes)
  PROVE  R!Earlier(s, Seen(id))
<1>1. Len(Seen(id)) = Len(nodes) /\ Len(s) \in Nat /\ Len(nodes) \in Nat
  BY SeenType DEF TypeOK
<1>2. ASSUME NEW i \in 1 .. Len(s)
      PROVE  R!Identity(s[i]) = R!Identity(Seen(id)[i]) /\ s[i].seen <= Seen(id)[i].seen
  <2>1. i \in 1 .. Len(nodes)
    BY <1>1 DEF R!Earlier
  <2>2. /\ Seen(id)[i].id = nodes[i].id /\ Seen(id)[i].key = nodes[i].key
        /\ Seen(id)[i].seen \in {nodes[i].seen, now}
    BY <2>1, SeenType
  <2>3. nodes[i].seen \in Nat /\ s[i].seen \in Nat /\ now \in Nat
    BY <2>1, NodeAt DEF TypeOK
  <2>4. nodes[i].seen <= now
    BY <2>1 DEF BehindInv
  <2>5. s[i].seen <= nodes[i].seen /\ R!Identity(s[i]) = R!Identity(nodes[i])
    BY DEF R!Earlier
  <2> QED
    BY <2>2, <2>3, <2>4, <2>5 DEF R!Identity
<1> QED
  BY <1>1, <1>2 DEF R!Earlier

\* The file starts out no newer than the registry in memory.
LEMMA BehindInit == Init => BehindInv
<1> SUFFICES ASSUME Init PROVE BehindInv
  OBVIOUS
<1>1. /\ nodes = << >> /\ up = FALSE /\ now = 1 /\ file.nodes = InitialNodes
  BY DEF Init, Whole
<1>2. \A i \in 1 .. Len(InitialNodes) : InitialNodes[i].seen = 0
  BY NodeStoreAssumption DEF InitialNodes
<1> QED
  BY <1>1, <1>2 DEF BehindInv

\* Every step keeps the file no newer than the registry in memory.
LEMMA BehindStep == TypeOK /\ BehindInv /\ [Next]_vars => BehindInv'
<1> SUFFICES ASSUME TypeOK, BehindInv, [Next]_vars PROVE BehindInv'
  OBVIOUS
<1>0. /\ nodes \in Seq(Nodes) /\ file.nodes \in Seq(Nodes) /\ Loaded(file) \in Seq(Nodes)
      /\ now \in Nat /\ Loaded(file) \in {file.nodes, << >>}
  BY LoadedType DEF TypeOK, Loaded
<1>1. CASE Start
  <2>1. up' /\ nodes' = Loaded(file) /\ file' = file /\ now' = now
    BY <1>1 DEF Start
  <2>2. R!Earlier(Loaded(file), Loaded(file))
    BY <1>0, EarlierRefl
  <2>3. /\ \A i \in 1 .. Len(<< >>) : << >>[i].seen <= now
        /\ \A i \in 1 .. Len(Loaded(file)) : Loaded(file)[i].seen <= now
    BY <1>0 DEF BehindInv
  <2> QED
    BY <2>1, <2>2, <2>3 DEF BehindInv, Loaded
<1>2. ASSUME NEW h \in Handlers, RegisterLocked(h) PROVE BehindInv'
  <2> DEFINE node == [id |-> nextID, key |-> op[h].key, seen |-> now]
  <2>1. nodes' = Append(nodes, node) /\ file' = file /\ now' = now /\ up' = up
    BY <1>2 DEF RegisterLocked
  <2>2. node \in Nodes /\ node.seen = now
    BY DEF TypeOK, Nodes, Ops
  <2> HIDE DEF node
  <2>3. \A i \in 1 .. Len(nodes') : nodes'[i].seen <= now
    BY <1>0, <2>1, <2>2 DEF BehindInv
  <2>4. up' => R!Earlier(Loaded(file'), nodes')
    BY <1>0, <2>1, <2>2, EarlierAppend DEF BehindInv, Loaded
  <2> QED
    BY <2>1, <2>3, <2>4 DEF BehindInv
<1>3. ASSUME NEW h \in Handlers, KeepAliveLocked(h) PROVE BehindInv'
  <2>1. nodes' = Seen(op[h].id) /\ file' = file /\ now' = now /\ up' = up
    BY <1>3 DEF KeepAliveLocked, KeepAliveFrame
  <2>2. \A i \in 1 .. Len(nodes') : nodes'[i].seen <= now
    BY <1>0, <2>1, SeenType DEF BehindInv
  <2>3. up' => R!Earlier(Loaded(file'), nodes')
    BY <1>0, <2>1, EarlierSeen DEF BehindInv, Loaded
  <2> QED
    BY <2>1, <2>2, <2>3 DEF BehindInv
<1>4. ASSUME NEW h \in Handlers, OpenFile(h) PROVE BehindInv'
  <2>1. file' \in {file, Torn}
    BY <1>4 DEF OpenFile
  <2>2. UNCHANGED <<up, nodes, now>>
    BY <1>4 DEF OpenFile
  <2> QED
    BY <1>0, <2>1, <2>2, EarlierEmpty DEF BehindInv, Torn, Loaded
<1>5. ASSUME NEW h \in Handlers, WriteFile(h) PROVE BehindInv'
  <2>1. file' \in {Whole(nodes), Torn}
    BY <1>5 DEF WriteFile
  <2>2. UNCHANGED <<up, nodes, now>>
    BY <1>5 DEF WriteFile
  <2> QED
    BY <1>0, <2>1, <2>2, EarlierEmpty, EarlierRefl DEF BehindInv, Torn, Whole, Loaded
<1>6. CASE Die
  <2>1. ~up' /\ nodes' = << >> /\ UNCHANGED <<file, now>>
    BY <1>6 DEF Die
  <2> QED
    BY <2>1 DEF BehindInv
<1>7. CASE Tick
  <2>1. now' = now + 1 /\ UNCHANGED <<up, nodes, file>>
    BY <1>7 DEF Tick
  <2>2. \A n \in Nat : n <= now => n <= now'
    BY <1>0, <2>1
  <2>3. \A s \in Seq(Nodes) : \A i \in 1 .. Len(s) : s[i].seen \in Nat
    BY NodeAt
  <2> QED
    BY <1>0, <2>1, <2>2, <2>3 DEF BehindInv, Loaded
<1>8. CASE UNCHANGED <<up, nodes, file, now>>
  BY <1>8 DEF BehindInv, Loaded
<1> QED
  BY <1>1, <1>2, <1>3, <1>4, <1>5, <1>6, <1>7, <1>8
     DEF Next, Handle, Arrive, ReadLocked, Unlock, Reply, SyncToHeadscale,
         ResetDatabase, vars

-----------------------------------------------------------------------------
(***************************************************************************)
(* The adapter implements Registry: initial states to initial states, each *)
(* step to a step or a stutter.                                            *)
(***************************************************************************)
LEMMA RegistryInit == Init => R!Init
<1> SUFFICES ASSUME Init PROVE R!Init
  OBVIOUS
<1>1. up = FALSE /\ file = Whole(InitialNodes)
  BY DEF Init
<1>2. InitialNodes \in Seq(Nodes)
  BY NodeStoreAssumption DEF InitialNodes, Nodes
<1> QED
  BY <1>1, <1>2 DEF R!Init, Loaded, Whole, Nodes, R!Nodes

\* Every step of the adapter is a step of the abstract registry, or none.
LEMMA RegistryStep ==
  TypeOK /\ SlotAddress /\ LockInv /\ BehindInv /\ [Next]_vars
    => [R!Next]_<<up, IF up THEN nodes ELSE Loaded(file)>>
<1> DEFINE slots == IF up THEN nodes ELSE Loaded(file)
<1> SUFFICES ASSUME TypeOK, SlotAddress, LockInv, BehindInv, [Next]_vars
             PROVE  R!Next \/ UNCHANGED <<up, slots>>
  BY DEF Loaded
<1>0. nodes \in Seq(Nodes) /\ up \in BOOLEAN
  BY DEF TypeOK
<1>1. CASE Start
  BY <1>1 DEF Start, R!Next, R!Restart, Loaded
<1>2. ASSUME NEW h \in Handlers, RegisterLocked(h) PROVE R!Next
  <2> DEFINE node == [id |-> nextID, key |-> op[h].key, seen |-> now]
  <2>1. up /\ up' /\ nodes' = Append(nodes, node)
    BY <1>2 DEF RegisterLocked, LockInv, Idle
  <2>2. node.id = Len(nodes) + 2
    BY DEF SlotAddress
  <2> HIDE DEF node
  <2>3. /\ Len(nodes') = Len(nodes) + 1
        /\ \A i \in DOMAIN nodes : nodes'[i] = nodes[i]
        /\ nodes'[Len(nodes')].id = Len(nodes') + 1
    BY <1>0, <2>1, <2>2
  <2> QED
    BY <2>1, <2>3 DEF R!Next, R!Register
<1>3. ASSUME NEW h \in Handlers, KeepAliveLocked(h) PROVE R!Next
  <2>1. up /\ up' /\ nodes' = Seen(op[h].id)
    BY <1>3 DEF KeepAliveLocked, KeepAliveFrame, LockInv, Idle
  <2>2. Len(nodes') = Len(nodes) /\ R!Earlier(nodes, nodes')
    BY <1>0, <2>1, SeenType, EarlierSeen, EarlierRefl
  <2> QED
    BY <2>1, <2>2 DEF R!Next, R!Touch
<1>4. CASE Die
  <2>1. up /\ ~up' /\ file' = file
    BY <1>4 DEF Die
  <2>2. R!Earlier(Loaded(file), nodes)
    BY <2>1 DEF BehindInv
  <2> QED
    BY <2>1, <2>2 DEF R!Next, R!Die, Loaded
<1>5. ASSUME NEW h \in Handlers, OpenFile(h) \/ WriteFile(h)
      PROVE  UNCHANGED <<up, slots>>
  <2>1. up
    BY <1>5 DEF OpenFile, WriteFile, LockInv, Idle
  <2>2. UNCHANGED <<up, nodes>>
    BY <1>5 DEF OpenFile, WriteFile
  <2> QED
    BY <2>1, <2>2
<1>6. CASE UNCHANGED <<up, nodes, file>>
  BY <1>6 DEF Loaded
<1> QED
  BY <1>1, <1>2, <1>3, <1>4, <1>5, <1>6
     DEF Next, Handle, Arrive, ReadLocked, Unlock, Reply, SyncToHeadscale,
         ResetDatabase, Tick, vars

\* The adapter implements the abstract registry: handlers, lock, file and crashes
\* together only register, touch, die and restart.
THEOREM Implementation == Spec => ImplementsRegistry
<1>1. Spec => [](TypeOK /\ SlotAddress /\ LockInv)
  <2>1. StoreInv => LockInv
    BY DEF StoreInv
  <2> QED
    BY <2>1, TypeCorrect, SlotAddressCorrect, StoreInvCorrect, PTL
<1>2. Spec => []BehindInv
  BY TypeInit, TypeStep, BehindInit, BehindStep, PTL DEF Spec
<1> QED
  BY <1>1, <1>2, RegistryInit, RegistryStep, PTL DEF Spec, ImplementsRegistry, R!Spec
-----------------------------------------------------------------------------
(***************************************************************************)
(* What the answers are worth: reads are fresh, answered writes are kept,  *)
(* and no handler undoes what another did.                                 *)
(***************************************************************************)

\* The types and the invariants established so far.
Base == TypeOK /\ SlotAddress /\ StoreInv /\ BehindInv

\* They hold together.
LEMMA BaseInvariant == Spec => []Base
<1>1. Init => BehindInv
  BY BehindInit
<1>2. TypeOK /\ BehindInv /\ [Next]_vars => BehindInv'
  BY BehindStep
<1>3. Spec => []BehindInv
  BY <1>1, <1>2, TypeCorrect, PTL DEF Spec
<1> QED
  BY <1>3, TypeCorrect, SlotAddressCorrect, StoreInvCorrect, PTL DEF Base

-----------------------------------------------------------------------------
\* A registry grows by what a registration appends.
LEMMA GrowsAppend ==
  ASSUME NEW s \in Seq(Nodes), NEW n \in Nodes
  PROVE  Grows(s, Append(s, n))
<1>1. \A i \in 1 .. Len(s) : Append(s, n)[i] = s[i] /\ s[i].seen \in Nat
  BY NodeAt
<1>2. Len(Append(s, n)) = Len(s) + 1 /\ Len(s) \in Nat
  OBVIOUS
<1> QED
  BY <1>1, <1>2 DEF Grows

\* It grows by a keepalive, since no node was seen later than now.
LEMMA GrowsSeen ==
  ASSUME TypeOK, BehindInv, NEW id
  PROVE  Grows(nodes, Seen(id))
<1>1. R!Earlier(nodes, Seen(id))
  BY EarlierRefl, EarlierSeen DEF TypeOK
<1>2. Len(nodes) \in Nat /\ Len(Seen(id)) = Len(nodes)
  BY SeenType DEF TypeOK
<1>3. \A i \in 1 .. Len(nodes) : nodes[i].seen \in Nat /\ Seen(id)[i].seen \in Nat
  BY <1>2, NodeAt, SeenType DEF TypeOK
<1> QED
  BY <1>1, <1>2, <1>3 DEF Grows, R!Earlier, Identity, R!Identity

\* It grows by nothing.
LEMMA GrowsRefl ==
  ASSUME NEW s \in Seq(Nodes)
  PROVE  Grows(s, s)
<1>1. \A i \in 1 .. Len(s) : s[i].seen \in Nat
  BY NodeAt
<1> QED
  BY <1>1 DEF Grows

(***************************************************************************)
(* A step of the running adapter keeps the registry or lets it grow.       *)
(***************************************************************************)
LEMMA GrowStep == TypeOK /\ BehindInv /\ [Next]_vars => (up /\ up' => Grows(nodes, nodes'))
<1> SUFFICES ASSUME TypeOK, BehindInv, [Next]_vars, up, up' PROVE Grows(nodes, nodes')
  OBVIOUS
<1>0. nodes \in Seq(Nodes)
  BY DEF TypeOK
<1>1. ASSUME NEW h \in Handlers, RegisterLocked(h) PROVE Grows(nodes, nodes')
  <2> DEFINE node == [id |-> nextID, key |-> op[h].key, seen |-> now]
  <2>1. nodes' = Append(nodes, node)
    BY <1>1 DEF RegisterLocked
  <2>2. node \in Nodes
    BY DEF TypeOK, Nodes, Ops
  <2> QED
    BY <1>0, <2>1, <2>2, GrowsAppend
<1>2. ASSUME NEW h \in Handlers, KeepAliveLocked(h) PROVE Grows(nodes, nodes')
  BY <1>2, GrowsSeen DEF KeepAliveLocked
<1>3. CASE nodes' = nodes
  BY <1>0, <1>3, GrowsRefl
<1> QED
  BY <1>1, <1>2, <1>3
     DEF Next, Handle, Start, Die, ResetDatabase, Tick, Arrive, ReadLocked, OpenFile,
         WriteFile, Unlock, Reply, SyncToHeadscale, vars

\* While the process runs, no handler takes a node out of the registry, changes
\* its identity or makes it look older (handleRegister, handleNodeByID).
THEOREM NodesOnlyGrowCorrect == Spec => NodesOnlyGrow
<1>1. Base => TypeOK /\ BehindInv
  BY DEF Base
<1> QED
  BY <1>1, BaseInvariant, GrowStep, PTL DEF Spec, NodesOnlyGrow

-----------------------------------------------------------------------------
(***************************************************************************)
(* Readers: FreshInv says what they are owed, ReadsAreFresh that they get  *)
(* it.                                                                     *)
(***************************************************************************)
Fresh(h) ==
    /\ op[h].step = "wait" => op[h].before \subseteq known
    /\ op[h].step \in InSave => op[h].kind \notin {"list", "get"}
    /\ ~damaged /\ op[h].step = "reply" =>
        /\ op[h].kind = "list" => op[h].before \subseteq op[h].result
        /\ op[h].kind = "get" =>
                {n \in op[h].before : n.id = op[h].id} \subseteq op[h].result

\* Handler by handler, this is FreshInv and ReadsAreFresh.
LEMMA FreshParts == (\A h \in Handlers : Fresh(h)) <=> FreshInv /\ ReadsAreFresh
BY DEF Fresh, FreshInv, ReadsAreFresh

\* The search loop finds a node that is in a registry numbered by slot.
LEMMA SlotsFind ==
  ASSUME TypeOK, SlotAddress, NEW n \in Identities(nodes)
  PROVE  n \in {Identity(nodes[i]) : i \in Slots(n.id)}
<1>1. PICK i \in DOMAIN nodes : n = Identity(nodes[i])
  BY DEF Identities
<1>2. DOMAIN nodes = 1 .. Len(nodes) /\ Len(nodes) \in Nat
  BY DEF TypeOK
<1>3. nodes[i].id = n.id /\ n.id = i + 1
  BY <1>1, <1>2 DEF Identity, SlotAddress, Numbered
<1>4. ASSUME NEW j \in 1 .. (i - 1) PROVE nodes[j].id # n.id
  <2>1. j \in 1 .. Len(nodes) /\ j # i
    BY <1>2
  <2>2. nodes[j].id = j + 1
    BY <2>1 DEF SlotAddress, Numbered
  <2> QED
    BY <1>2, <1>3, <2>1, <2>2
<1>5. i \in Slots(n.id)
  BY <1>3, <1>4 DEF Slots
<1> QED
  BY <1>1, <1>5

\* No handler is owed anything before the first request.
LEMMA FreshInit == Init => \A h \in Handlers : Fresh(h)
<1> SUFFICES ASSUME Init, NEW h \in Handlers PROVE Fresh(h)
  OBVIOUS
<1>1. op[h] = Idle
  BY DEF Init
<1>2. Idle.step = "idle"
  BY DEF Idle
<1> QED
  BY <1>1, <1>2 DEF Fresh, InSave

(***************************************************************************)
(* Every step keeps what readers are owed, and ReadLocked pays it.         *)
(***************************************************************************)
LEMMA FreshStep ==
  Base /\ (\A h \in Handlers : Fresh(h)) /\ [Next]_vars => (\A h \in Handlers : Fresh(h))'
<1> SUFFICES ASSUME Base, \A h \in Handlers : Fresh(h), [Next]_vars, NEW g \in Handlers
             PROVE  Fresh(g)'
  OBVIOUS
<1>0. /\ op \in [Handlers -> Ops] /\ TypeOK /\ SlotAddress
      /\ Fresh(g) /\ LockInv /\ Idle.step = "idle"
  BY DEF Base, TypeOK, StoreInv, Idle
<1>1. ASSUME op'[g] = op[g], known \subseteq known', damaged' = damaged
      PROVE  Fresh(g)'
  BY <1>0, <1>1 DEF Fresh
<1>2. ASSUME op'[g] = Idle PROVE Fresh(g)'
  BY <1>0, <1>2 DEF Fresh, InSave
<1>3. ASSUME NEW h \in Handlers, NEW kind \in Kinds,
             NEW id \in 2 .. (MaxNodes + 1), Arrive(h, kind, id)
      PROVE  Fresh(g)'
  <2>1. /\ op'[h].step = "wait" /\ op'[h].before \subseteq known
        /\ g # h => op'[g] = op[g]
        /\ known' = known /\ damaged' = damaged
    BY <1>0, <1>3 DEF Arrive, Idle
  <2> QED
    BY <1>1, <2>1 DEF Fresh, InSave
<1>4. ASSUME NEW h \in Handlers, RegisterLocked(h) \/ KeepAliveLocked(h)
      PROVE  Fresh(g)'
  <2>1. /\ op[h].kind \in {"register", "keepalive"}
        /\ op'[h].step = "held" /\ op'[h].kind = op[h].kind
        /\ g # h => op'[g] = op[g]
        /\ known' = known /\ damaged' = damaged
    <3>1. CASE RegisterLocked(h)
      BY <1>0, <3>1 DEF RegisterLocked
    <3>2. CASE KeepAliveLocked(h)
      BY <1>0, <3>2 DEF KeepAliveLocked, KeepAliveFrame
    <3> QED
      BY <1>4, <3>1, <3>2
  <2> QED
    BY <1>1, <2>1 DEF Fresh, InSave
<1>5. ASSUME NEW h \in Handlers, OpenFile(h) \/ WriteFile(h) PROVE Fresh(g)'
  <2>1. /\ op[h].step \in {"held", "opened"} /\ known' = known /\ damaged' = damaged
        /\ \/ op' = [op EXCEPT ![h].step = "opened"]
           \/ op' = [op EXCEPT ![h].step = "saved"]
    BY <1>5 DEF OpenFile, WriteFile
  <2>2. /\ op'[h].step \in {"opened", "saved"} /\ op'[h].kind = op[h].kind
        /\ g # h => op'[g] = op[g]
    <3>1. CASE op' = [op EXCEPT ![h].step = "opened"]
      BY <1>0, <3>1
    <3>2. CASE op' = [op EXCEPT ![h].step = "saved"]
      BY <1>0, <3>2
    <3> QED
      BY <2>1, <3>1, <3>2
  <2>3. op[h].kind \notin {"list", "get"}
    BY <2>1 DEF Fresh, InSave
  <2> QED
    BY <1>1, <2>1, <2>2, <2>3 DEF Fresh, InSave
<1>6. ASSUME NEW h \in Handlers, Unlock(h) PROVE Fresh(g)'
  <2>1. /\ op[h].step = "saved" /\ op'[h].step = "reply" /\ op'[h].kind = op[h].kind
        /\ g # h => op'[g] = op[g]
        /\ known' = known /\ damaged' = damaged
    BY <1>0, <1>6 DEF Unlock
  <2>2. op[h].kind \notin {"list", "get"}
    BY <2>1 DEF Fresh, InSave
  <2> QED
    BY <1>1, <2>1, <2>2 DEF Fresh, InSave
<1>7. ASSUME NEW h \in Handlers, ReadLocked(h) PROVE Fresh(g)'
  <2> DEFINE r == IF op[h].kind = "list" THEN Identities(nodes)
                  ELSE {Identity(nodes[i]) : i \in Slots(op[h].id)}
  <2>1. /\ op[h].step = "wait" /\ op' = [op EXCEPT ![h].step = "reply", ![h].result = r]
        /\ known' = known /\ damaged' = damaged
    BY <1>7 DEF ReadLocked
  <2>2. /\ op'[h].step = "reply" /\ op'[h].result = r /\ op'[h].kind = op[h].kind
        /\ op'[h].id = op[h].id /\ op'[h].before = op[h].before
        /\ g # h => op'[g] = op[g]
    BY <1>0, <2>1
  <2>3. up
    BY <1>0, <2>1 DEF LockInv
  <2>4. ~damaged => op[h].before \subseteq Identities(nodes)
    BY <2>1, <2>3 DEF Fresh, Base, StoreInv, ToldInv, Told
  <2>5. ASSUME op[h].kind # "list", ~damaged, NEW n \in op[h].before, n.id = op[h].id
        PROVE  n \in r
    BY <1>0, <2>4, <2>5, SlotsFind
  <2>6. op[h].kind = "list" => r = Identities(nodes)
    OBVIOUS
  <2> HIDE DEF r
  <2>7. Fresh(h)'
    BY <2>1, <2>2, <2>4, <2>5, <2>6 DEF Fresh, InSave
  <2> QED
    BY <1>1, <2>1, <2>2, <2>7
<1>8. ASSUME NEW h \in Handlers, Reply(h) PROVE Fresh(g)'
  <2>1. /\ op'[h] = Idle /\ known \subseteq known' /\ damaged' = damaged
        /\ g # h => op'[g] = op[g]
    BY <1>0, <1>8 DEF Reply
  <2> QED
    BY <1>1, <1>2, <2>1
<1>9. CASE Die
  BY <1>2, <1>9 DEF Die
<1>10. CASE UNCHANGED <<op, known, damaged>>
  BY <1>1, <1>10
<1> QED
  BY <1>3, <1>4, <1>5, <1>6, <1>7, <1>8, <1>9, <1>10
     DEF Next, Handle, Start, ResetDatabase, Tick, SyncToHeadscale, vars

\* As long as no save failed and no process died in one, a list or lookup answers
\* with all that anybody had been told when it arrived (handleNodes, handleNodeByID).
THEOREM ReadsAreFreshCorrect == Spec => []ReadsAreFresh
<1> DEFINE AllFresh == \A h \in Handlers : Fresh(h)
<1>1. Init => AllFresh
  BY FreshInit
<1>2. Base /\ AllFresh /\ [Next]_vars => AllFresh'
  BY FreshStep
<1>3. AllFresh => ReadsAreFresh
  BY FreshParts
<1> HIDE DEF AllFresh
<1> QED
  BY <1>1, <1>2, <1>3, BaseInvariant, PTL DEF Spec

-----------------------------------------------------------------------------
(***************************************************************************)
(* Writers: what is answered, or about to be, is in the registry, and in   *)
(* the file when the file is current.                                      *)
(***************************************************************************)
Owed == acked \cup Acks(InSave \cup {"reply"})
Given == acked \cup Acks({"reply"})

\* Instants answered for are times.
LEMMA PendingType ==
  ASSUME TypeOK
  PROVE  Owed \subseteq [id : Nat, seen : Nat] /\ Given \subseteq Owed
BY DEF TypeOK, Owed, Given, Acks, Ops

\* What a registry remembers it does not forget by growing.
LEMMA RemembersGrows ==
  ASSUME NEW s \in Seq(Nodes), NEW t \in Seq(Nodes), Grows(s, t),
         NEW a \in [id : Nat, seen : Nat], Remembers(s, a)
  PROVE  Remembers(t, a)
<1>1. PICK i \in 1 .. Len(s) : s[i].id = a.id /\ s[i].seen >= a.seen
  BY DEF Remembers
<1>2. i \in 1 .. Len(t) /\ t[i].id = s[i].id /\ t[i].seen >= s[i].seen
  <2>1. Len(s) \in Nat /\ Len(t) \in Nat /\ Len(t) >= Len(s)
    BY DEF Grows
  <2>2. Identity(t[i]) = Identity(s[i]) /\ t[i].seen >= s[i].seen
    BY <1>1 DEF Grows
  <2>3. Identity(t[i]).id = t[i].id /\ Identity(s[i]).id = s[i].id
    BY DEF Identity
  <2>4. i \in 1 .. Len(t)
    BY <1>1, <2>1
  <2> QED
    BY <2>2, <2>3, <2>4
<1>3. t[i].seen \in Nat /\ s[i].seen \in Nat /\ a.seen \in Nat
  BY <1>1, <1>2, NodeAt
<1> QED
  BY <1>1, <1>2, <1>3 DEF Remembers

\* Nobody has an answer coming before the first request.
LEMMA AckInit == Init => AckInv
<1> SUFFICES ASSUME Init PROVE AckInv
  OBVIOUS
<1>1. \A h \in Handlers : op[h] = Idle
  BY DEF Init
<1>2. Idle.stamp = 0
  BY DEF Idle
<1>3. acked = {} /\ \A steps : Acks(steps) = {}
  BY <1>1, <1>2 DEF Init, Acks
<1> QED
  BY <1>1, <1>2, <1>3 DEF AckInv

(***************************************************************************)
(* Every step keeps AckInv: a write enters the registry with its instant,  *)
(* the file before its answer, and neither loses it.                       *)
(***************************************************************************)
LEMMA AckStep == Base /\ AckInv /\ [Next]_vars => AckInv'
<1> SUFFICES ASSUME Base, AckInv, [Next]_vars PROVE AckInv'
  OBVIOUS
<1>0. /\ TypeOK /\ LockInv /\ FileInv /\ BehindInv
      /\ op \in [Handlers -> Ops] /\ nodes \in Seq(Nodes)
      /\ Idle.step = "idle" /\ Idle.stamp = 0
  BY DEF Base, TypeOK, StoreInv, Idle
<1> DEFINE Waiting == \A h \in Handlers : op[h].step \in {"idle", "wait"} => op[h].stamp = 0
           InMemory == ~damaged /\ up => \A a \in Owed : Remembers(nodes, a)
           OnDisk == ~damaged /\ Current => \A a \in Given : Remembers(Loaded(file), a)
           MovesTo(h, step, stamp) ==
             /\ \A g \in Handlers : g # h => op'[g] = op[g]
             /\ op'[h].step = step /\ op'[h].id = op[h].id /\ op'[h].stamp = stamp
<1>a. AckInv <=> Waiting /\ InMemory /\ OnDisk
  BY DEF AckInv, Owed, Given
<1>b. AckInv' <=> Waiting' /\ InMemory' /\ OnDisk'
  BY DEF AckInv, Owed, Given
<1>1. CASE Start
  <2>1. /\ ~up /\ nodes' = Loaded(file)
        /\ UNCHANGED <<op, file, unsaved, damaged, acked>>
    BY <1>1 DEF Start
  <2>2. \A h \in Handlers : op[h] = Idle
    BY <1>0, <2>1 DEF LockInv
  <2>3. Owed' = acked /\ Given' = acked /\ Given = acked
    BY <1>0, <2>1, <2>2 DEF Owed, Given, Acks
  <2>4. (Current <=> Current') /\ (~damaged => Current)
    BY <1>0, <2>1, <2>2 DEF Current, LockInv
  <2>5. Waiting' /\ InMemory' /\ OnDisk'
    BY <1>0, <1>a, <2>1, <2>2, <2>3, <2>4 DEF Loaded
  <2> QED
    BY <1>b, <2>5
<1>2. ASSUME NEW h \in Handlers, NEW kind \in Kinds,
             NEW id \in 2 .. (MaxNodes + 1), Arrive(h, kind, id)
      PROVE  AckInv'
  <2>1. /\ op[h].step = "idle" /\ op'[h].step = "wait" /\ op'[h].stamp = 0
        /\ \A g \in Handlers : g # h => op'[g] = op[g]
        /\ UNCHANGED <<up, nodes, file, unsaved, damaged, acked>>
    BY <1>0, <1>2 DEF Arrive, Idle
  <2>2. Owed' = Owed /\ Given' = Given /\ (Current <=> Current')
    BY <2>1 DEF Owed, Given, Acks, Current, InSave
  <2>3. Waiting' /\ InMemory' /\ OnDisk'
    BY <1>a, <2>1, <2>2 DEF Loaded
  <2> QED
    BY <1>b, <2>3
<1>3. ASSUME NEW h \in Handlers, RegisterLocked(h) PROVE AckInv'
  <2> DEFINE node == [id |-> nextID, key |-> op[h].key, seen |-> now]
             ack == [id |-> nextID, seen |-> now]
  <2>1. /\ op[h].step = "wait" /\ nodes' = Append(nodes, node)
        /\ op'[h].step = "held" /\ op'[h].id = nextID /\ op'[h].stamp = now
        /\ \A g \in Handlers : g # h => op'[g] = op[g]
        /\ UNCHANGED <<up, file, unsaved, damaged, acked>>
    BY <1>0, <1>3 DEF RegisterLocked
  <2>2. node \in Nodes /\ nodes' \in Seq(Nodes)
    BY <2>1 DEF TypeOK, Nodes, Ops, Base
  <2>3. Grows(nodes, nodes')
    BY <1>0, <2>1, <2>2, GrowsAppend
  <2>4. Remembers(nodes', ack)
    <3>1. nodes'[Len(nodes) + 1] = node /\ Len(nodes) + 1 \in DOMAIN nodes'
      BY <1>0, <2>1, <2>2
    <3>2. now >= now
      BY <1>0 DEF TypeOK
    <3> QED
      BY <3>1, <3>2 DEF Remembers
  <2> HIDE DEF node
  <2>5. /\ Owed' \subseteq Owed \cup {ack} /\ Given' = Given
        /\ (Current <=> Current')
    BY <2>1 DEF Owed, Given, Acks, Current, InSave
  <2> HIDE DEF ack
  <2>6. InMemory'
    BY <1>0, <1>a, <2>1, <2>2, <2>3, <2>4, <2>5, RemembersGrows, PendingType
  <2>7. Waiting' /\ OnDisk'
    BY <1>a, <2>1, <2>5 DEF Loaded
  <2> QED
    BY <1>b, <2>6, <2>7
<1>4. ASSUME NEW h \in Handlers, KeepAliveLocked(h) PROVE AckInv'
  <2> DEFINE ack == [id |-> op[h].id, seen |-> now]
             stamp == IF Slots(op[h].id) = {} THEN 0 ELSE now
  <2>1. /\ op[h].step = "wait" /\ nodes' = Seen(op[h].id) /\ MovesTo(h, "held", stamp)
        /\ UNCHANGED <<up, file, unsaved, damaged, acked>>
    BY <1>0, <1>4 DEF KeepAliveLocked, KeepAliveFrame
  <2>2. nodes' \in Seq(Nodes) /\ Grows(nodes, nodes')
    BY <1>0, <2>1, SeenType, GrowsSeen
  <2>3. Slots(op[h].id) # {} => Remembers(nodes', ack)
    <3> SUFFICES ASSUME NEW i \in Slots(op[h].id) PROVE Remembers(nodes', ack)
      OBVIOUS
    <3>1. i \in DOMAIN nodes /\ nodes[i].id = op[h].id /\ nodes[i] \in Nodes
      BY <1>0 DEF Slots
    <3>2. Seen(op[h].id)[i] = [nodes[i] EXCEPT !.seen = now]
      BY <3>1 DEF Seen
    <3>3. i \in DOMAIN nodes' /\ nodes'[i].id = op[h].id /\ nodes'[i].seen = now
      BY <2>1, <3>1, <3>2 DEF Seen, Nodes
    <3>4. now >= now
      BY <1>0 DEF TypeOK
    <3> QED
      BY <3>3, <3>4 DEF Remembers
  <2>4. /\ stamp = 0 => Owed' \subseteq Owed
        /\ stamp # 0 => Owed' \subseteq Owed \cup {ack} /\ Slots(op[h].id) # {}
        /\ Given' = Given /\ (Current <=> Current')
    BY <2>1 DEF Owed, Given, Acks, Current, InSave
  <2> HIDE DEF stamp, ack
  <2>5. InMemory'
    BY <1>0, <1>a, <2>1, <2>2, <2>3, <2>4, RemembersGrows, PendingType
  <2>6. Waiting' /\ OnDisk'
    BY <1>a, <2>1, <2>4 DEF Loaded
  <2> QED
    BY <1>b, <2>5, <2>6
<1>5. ASSUME NEW h \in Handlers, ReadLocked(h) PROVE AckInv'
  <2>1. /\ op[h].step = "wait" /\ MovesTo(h, "reply", op[h].stamp)
        /\ UNCHANGED <<up, nodes, file, unsaved, damaged, acked>>
    BY <1>0, <1>5 DEF ReadLocked
  <2>2. op[h].stamp = 0
    BY <1>a, <2>1
  <2>3. Owed' = Owed /\ Given' = Given /\ (Current <=> Current')
    BY <2>1, <2>2 DEF Owed, Given, Acks, Current, InSave
  <2>4. Waiting' /\ InMemory' /\ OnDisk'
    BY <1>a, <2>1, <2>3 DEF Loaded
  <2> QED
    BY <1>b, <2>4
<1>6. ASSUME NEW h \in Handlers, OpenFile(h) PROVE AckInv'
  <2>1. /\ op[h].step = "held" /\ UNCHANGED <<up, nodes, damaged, acked>>
        /\ \/ op' = [op EXCEPT ![h].step = "opened"] /\ unsaved' = unsaved
           \/ op' = [op EXCEPT ![h].step = "saved"] /\ unsaved' = TRUE
    BY <1>6 DEF OpenFile
  <2>2. \/ MovesTo(h, "opened", op[h].stamp)
        \/ MovesTo(h, "saved", op[h].stamp) /\ unsaved' = TRUE
    <3>1. op' = [op EXCEPT ![h].step = "opened"] => MovesTo(h, "opened", op[h].stamp)
      BY <1>0
    <3>2. op' = [op EXCEPT ![h].step = "saved"] => MovesTo(h, "saved", op[h].stamp)
      BY <1>0
    <3> HIDE DEF MovesTo
    <3> QED
      BY <2>1, <3>1, <3>2
  <2>3. Owed' = Owed /\ ~Current'
    BY <2>1, <2>2 DEF Owed, Acks, Current, InSave
  <2>4. Waiting' /\ InMemory' /\ OnDisk'
    BY <1>a, <2>1, <2>2, <2>3
  <2> QED
    BY <1>b, <2>4
<1>7. ASSUME NEW h \in Handlers, WriteFile(h) PROVE AckInv'
  <2>1. /\ op[h].step = "opened" /\ MovesTo(h, "saved", op[h].stamp)
        /\ UNCHANGED <<up, nodes, damaged, acked>>
    BY <1>0, <1>7 DEF WriteFile
  <2>2. Current' => Loaded(file') = nodes
    BY <1>7 DEF WriteFile, Loaded, Whole, Current
  <2>3. up
    BY <1>0, <2>1 DEF LockInv, InSave
  <2>4. Owed' = Owed /\ Given' = Given
    BY <2>1 DEF Owed, Given, Acks, InSave
  <2>5. Waiting' /\ InMemory' /\ OnDisk'
    BY <1>0, <1>a, <2>1, <2>2, <2>3, <2>4, PendingType
  <2> QED
    BY <1>b, <2>5
<1>8. ASSUME NEW h \in Handlers, Unlock(h) PROVE AckInv'
  <2>1. /\ op[h].step = "saved" /\ MovesTo(h, "reply", op[h].stamp)
        /\ UNCHANGED <<up, nodes, file, unsaved, damaged, acked>>
    BY <1>0, <1>8 DEF Unlock
  <2>2. up /\ \A g \in Handlers : g # h => op[g].step \notin InSave
    BY <1>0, <2>1 DEF LockInv, InSave
  <2>3. Owed' = Owed /\ Given' \subseteq Owed
    BY <2>1 DEF Owed, Given, Acks, InSave
  <2>4. Current' => Loaded(file') = nodes
    BY <1>0, <2>1, <2>2 DEF Current, FileInv, InSave, Loaded
  <2>5. Waiting' /\ InMemory' /\ OnDisk'
    BY <1>a, <2>1, <2>2, <2>3, <2>4
  <2> QED
    BY <1>b, <2>5
<1>9. ASSUME NEW h \in Handlers, Reply(h) PROVE AckInv'
  <2>1. /\ op[h].step = "reply" /\ op'[h] = Idle
        /\ \A g \in Handlers : g # h => op'[g] = op[g]
        /\ acked' = IF op[h].stamp = 0 THEN acked
                    ELSE acked \cup {[id |-> op[h].id, seen |-> op[h].stamp]}
        /\ UNCHANGED <<up, nodes, file, unsaved, damaged>>
    BY <1>0, <1>9 DEF Reply
  <2>2. /\ Owed' \subseteq Owed /\ Given' \subseteq Given
        /\ (Current <=> Current')
    BY <1>0, <2>1 DEF Owed, Given, Acks, Current, InSave
  <2>3. Waiting' /\ InMemory' /\ OnDisk'
    BY <1>0, <1>a, <2>1, <2>2 DEF Loaded
  <2> QED
    BY <1>b, <2>3
<1>10. CASE Die
  <2>1. /\ up' = FALSE /\ op' = [h \in Handlers |-> Idle]
        /\ (damaged' <=> damaged \/ unsaved \/ \E h \in Handlers : op[h].step = "opened")
        /\ UNCHANGED <<file, acked>>
    BY <1>0, <1>10 DEF Die, TypeOK
  <2>2. Given' \subseteq Given /\ (~damaged' => Current)
    BY <1>0, <2>1 DEF Given, Acks, Current
  <2>3. Waiting' /\ InMemory' /\ OnDisk'
    BY <1>0, <1>a, <2>1, <2>2 DEF Loaded
  <2> QED
    BY <1>b, <2>3
<1>11. CASE UNCHANGED <<up, nodes, op, file, unsaved, damaged, acked>>
  BY <1>11 DEF AckInv, Acks, Remembers, Current, Loaded
<1> QED
  BY <1>1, <1>2, <1>3, <1>4, <1>5, <1>6, <1>7, <1>8, <1>9, <1>10, <1>11
     DEF Next, Handle, ResetDatabase, Tick, SyncToHeadscale, vars

\* As long as no save failed and no process died in one, every write that was
\* answered with ok is in nodes.json whenever no save is under way (save).
THEOREM AckedDurableCorrect == Spec => []AckedDurable
<1>1. AckInv => AckedDurable
  BY DEF AckInv, AckedDurable
<1> QED
  BY <1>1, BaseInvariant, AckInit, AckStep, PTL DEF Spec

=============================================================================
