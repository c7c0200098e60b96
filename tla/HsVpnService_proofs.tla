------------------------- MODULE HsVpnService_proofs -------------------------
(***************************************************************************)
(* Proofs about HsVpnService, for any number of tunnels, intents, threads  *)
(* and destroyed instances.                                                *)
(***************************************************************************)
EXTENDS HsVpnService, FiniteSetTheorems, TLAPS

-----------------------------------------------------------------------------
(***************************************************************************)
(* RunningHasTunnel needs to look into the queue: behind an "up" that has  *)
(* not run yet there is a tunnel that is up, or a "down" that runs later,  *)
(* or a thread that will post one.                                         *)
(***************************************************************************)
SomeUp == \E t \in Tunnels : tunnel[t] = "up"
DownAfter(i) == \E j \in DOMAIN posts : j > i /\ posts[j].kind = "down"

QueueInv ==
    /\ isRunning \/ told => SomeUp \/ DownAfter(0) \/ Live # {}
    /\ \A i \in DOMAIN posts : posts[i].kind = "up" => SomeUp \/ DownAfter(i) \/ Live # {}

\* The little of the types that the queue needs.
SeqInv ==
    /\ posts \in Seq([kind : {"up", "down"}, from : 0 .. MaxDestroys])
    /\ stops \in Seq([tunnel : Tunnels, from : 0 .. MaxDestroys, step : {"call", "post", "done"}])
    /\ tunnel \in [Tunnels -> {"none", "starting", "up", "down"}]
    /\ maker \in [Tunnels -> 0 .. MaxDestroys]
    /\ instance \in 0 .. MaxDestroys
    /\ current \in Tunnels \cup {0}

\* The elements of a sequence over a set are in it.
LEMMA ElementOf ==
    ASSUME NEW S, NEW s \in Seq(S), NEW i \in DOMAIN s
    PROVE  s[i] \in S
OBVIOUS

\* The cases of a step, for the proofs below.
LEMMA Cases ==
    ASSUME Next
    PROVE  \/ User \/ ConnectRefused \/ Connect \/ Disconnect \/ Destroy
           \/ RunDown \/ RunUp
           \/ \E t \in Tunnels : TunnelUp(t) \/ TunnelThrows(t) \/ Revoke(t)
           \/ \E i \in DOMAIN stops : StopCall(i) \/ StopPost(i)
BY DEF Next, Main, SetUp

\* What the user does reaches the service through the queue of intents only.
LEMMA UserFrame ==
    ASSUME User
    PROVE  /\ Elsewhere
           /\ \/ UNCHANGED <<intents, sent>>
              \/ sent < MaxIntents /\ sent' = sent + 1
                 /\ \E k \in {"connect", "bad", "disconnect"} \cup {asking} : intents' = Append(intents, k)
BY DEF User, StartVpn, PermissionGiven, StartReceiver, StopVpn, StartService, Elsewhere

\* A "down" that is posted is later than all that waits.
LEMMA PostDown ==
    ASSUME SeqInv, NEW from \in 0 .. MaxDestroys, Post("down", from),
           NEW i \in 0 .. Len(posts)
    PROVE  /\ posts' \in Seq([kind : {"up", "down"}, from : 0 .. MaxDestroys])
           /\ DownAfter(i)'
           /\ \A j \in DOMAIN posts' : posts'[j].kind = "up" =>
                  j \in DOMAIN posts /\ posts[j].kind = "up"
<1> DEFINE e == [kind |-> "down", from |-> from]
           Posts == [kind : {"up", "down"}, from : 0 .. MaxDestroys]
<1>1. posts \in Seq(Posts) /\ e \in Posts /\ posts' = Append(posts, e)
  BY DEF SeqInv, Post
<1>2. /\ posts' \in Seq(Posts) /\ Len(posts') = Len(posts) + 1
      /\ posts'[Len(posts) + 1] = e
      /\ \A j \in 1 .. Len(posts) : posts'[j] = posts[j]
  BY <1>1
<1>3. DownAfter(i)'
  BY <1>1, <1>2 DEF DownAfter
<1>4. \A j \in DOMAIN posts' : j \in 1 .. Len(posts) \/ j = Len(posts) + 1
  BY <1>1, <1>2
<1> QED
  BY <1>1, <1>2, <1>3, <1>4

\* Likewise for an "up".
LEMMA PostUp ==
    ASSUME SeqInv, NEW from \in 0 .. MaxDestroys, Post("up", from)
    PROVE  /\ posts' \in Seq([kind : {"up", "down"}, from : 0 .. MaxDestroys])
           /\ \A j \in DOMAIN posts' : posts'[j].kind = "down" =>
                  j \in DOMAIN posts /\ posts[j].kind = "down"
           /\ \A j \in DOMAIN posts : j \in DOMAIN posts' /\ posts'[j] = posts[j]
           /\ \E j \in DOMAIN posts' : posts'[j].kind = "up"
<1> DEFINE e == [kind |-> "up", from |-> from]
           Posts == [kind : {"up", "down"}, from : 0 .. MaxDestroys]
<1>1. posts \in Seq(Posts) /\ e \in Posts /\ posts' = Append(posts, e)
  BY DEF SeqInv, Post
<1>2. /\ posts' \in Seq(Posts) /\ Len(posts') = Len(posts) + 1
      /\ posts'[Len(posts) + 1] = e
      /\ \A j \in 1 .. Len(posts) : posts'[j] = posts[j]
  BY <1>1
<1>3. \A j \in DOMAIN posts' : j \in 1 .. Len(posts) \/ j = Len(posts) + 1
  BY <1>1, <1>2
<1> QED
  BY <1>1, <1>2, <1>3

\* Running the first of the queue moves the others up by one.
LEMMA PostsTail ==
    ASSUME SeqInv, posts # << >>, posts' = Tail(posts)
    PROVE  /\ posts' \in Seq([kind : {"up", "down"}, from : 0 .. MaxDestroys])
           /\ 1 \in DOMAIN posts /\ posts[1] = Head(posts)
           /\ \A j \in DOMAIN posts' : j + 1 \in DOMAIN posts /\ posts'[j] = posts[j + 1]
           /\ \A j \in DOMAIN posts : j # 1 => j - 1 \in DOMAIN posts' /\ posts'[j - 1] = posts[j]
<1>1. posts \in Seq([kind : {"up", "down"}, from : 0 .. MaxDestroys])
  BY DEF SeqInv
<1>2. Len(posts) \in Nat \ {0} /\ DOMAIN posts = 1 .. Len(posts)
  BY <1>1
<1>3. Len(posts') = Len(posts) - 1 /\ DOMAIN posts' = 1 .. (Len(posts) - 1)
  BY <1>1, <1>2
<1> QED
  BY <1>1, <1>2, <1>3

\* A thread of disconnect is about the tunnel the service holds.
LEMMA StopThreadAdds ==
    ASSUME SeqInv, StopThread
    PROVE  /\ stops' \in Seq([tunnel : Tunnels, from : 0 .. MaxDestroys,
                              step : {"call", "post", "done"}])
           /\ current = 0 => stops' = stops /\ lost' = lost
           /\ current # 0 => Live' # {} /\ lost' = lost \cup (Starting \cap {current})
           /\ Live \subseteq Live'
           /\ \A i \in Live' : \/ i \in Live /\ stops'[i] = stops[i]
                               \/ /\ stops'[i].step = "call" /\ current # 0
                                  /\ stops'[i].tunnel = current
<1> DEFINE Stops == [tunnel : Tunnels, from : 0 .. MaxDestroys, step : {"call", "post", "done"}]
           e == [tunnel |-> current, from |-> instance, step |-> "call"]
<1>1. stops \in Seq(Stops)
  BY DEF SeqInv
<1>2. CASE current = 0
  BY <1>1, <1>2 DEF StopThread, Live
<1>3. CASE current # 0
  <2>1. e \in Stops /\ stops' = Append(stops, e)
    BY <1>3 DEF StopThread, SeqInv
  <2>2. /\ stops' \in Seq(Stops) /\ Len(stops') = Len(stops) + 1
        /\ stops'[Len(stops) + 1] = e
        /\ \A j \in 1 .. Len(stops) : stops'[j] = stops[j]
    BY <1>1, <2>1
  <2>3. DOMAIN stops = 1 .. Len(stops) /\ DOMAIN stops' = 1 .. (Len(stops) + 1) /\ Len(stops) \in Nat
    BY <1>1, <2>2
  <2>4. Len(stops) + 1 \in Live'
    BY <2>2, <2>3 DEF Live
  <2>5. ASSUME NEW i \in Live
        PROVE  i \in Live' /\ stops'[i] = stops[i]
    BY <2>2, <2>3 DEF Live
  <2>6. ASSUME NEW i \in Live', i \notin Live
        PROVE  i = Len(stops) + 1
    BY <2>2, <2>3, <2>6 DEF Live
  <2>7. \A i \in Live' : \/ i \in Live /\ stops'[i] = stops[i]
                         \/ /\ stops'[i].step = "call" /\ current # 0
                            /\ stops'[i].tunnel = current
    BY <1>3, <2>2, <2>5, <2>6
  <2> QED
    BY <1>3, <2>2, <2>4, <2>5, <2>7 DEF StopThread
<1> QED
  BY <1>2, <1>3

\* A step of a thread of disconnect is a step of that one.
LEMMA StopMoves ==
    ASSUME SeqInv, NEW i \in DOMAIN stops, NEW s \in {"post", "done"},
           stops' = [stops EXCEPT ![i].step = s]
    PROVE  /\ stops' \in Seq([tunnel : Tunnels, from : 0 .. MaxDestroys,
                              step : {"call", "post", "done"}])
           /\ stops'[i].step = s /\ i \in DOMAIN stops'
           /\ \A j \in DOMAIN stops' : j \in DOMAIN stops /\ (j # i => stops'[j] = stops[j])
           /\ \A j \in DOMAIN stops : j # i => j \in DOMAIN stops' /\ stops'[j] = stops[j]
<1> DEFINE Stops == [tunnel : Tunnels, from : 0 .. MaxDestroys, step : {"call", "post", "done"}]
<1>0. stops \in Seq(Stops)
  BY DEF SeqInv
<1>1. stops \in Seq(Stops) /\ stops[i] \in Stops
  BY <1>0, ElementOf
<1>2. [stops[i] EXCEPT !.step = s] \in Stops
  BY <1>1
<1>3. stops' \in Seq(Stops) /\ DOMAIN stops' = DOMAIN stops
  BY <1>1, <1>2
<1>4. stops'[i].step = s
  BY <1>1
<1> QED
  BY <1>1, <1>3, <1>4

-----------------------------------------------------------------------------
\* The queues are empty at the start.
LEMMA SeqInit == Init => SeqInv
BY HsVpnAssumption DEF Init, SeqInv

\* Nothing runs at the start.
LEMMA QueueInit == Init => QueueInv
BY DEF Init, QueueInv

\* The number of the tunnels made so far is a number.
LEMMA MadeType == Made \in Nat
<1>1. IsFiniteSet(Tunnels)
  BY HsVpnAssumption, FS_Interval DEF Tunnels
<1>2. IsFiniteSet({t \in Tunnels : tunnel[t] # "none"})
  BY <1>1, FS_Subset
<1> QED
  BY <1>2, FS_CardinalityType DEF Made

\* Tunnels are numbered in the order they are made.
MadeInv == {t \in Tunnels : tunnel[t] # "none"} = 1 .. Made

\* None is made at the start.
LEMMA MadeInit == Init => MadeInv
<1> SUFFICES ASSUME Init PROVE MadeInv
  OBVIOUS
<1>1. {t \in Tunnels : tunnel[t] # "none"} = {}
  BY DEF Init
<1>2. Made = 0
  BY <1>1, FS_EmptySet DEF Made
<1> QED
  BY <1>1, <1>2 DEF MadeInv

\* Only Connect makes a tunnel, the next one; no other step loses one.
LEMMA MadeStep == SeqInv /\ MadeInv /\ [Next]_vars => MadeInv'
<1> SUFFICES ASSUME SeqInv, MadeInv, [Next]_vars PROVE MadeInv'
  OBVIOUS
<1> DEFINE M == {t \in Tunnels : tunnel[t] # "none"}
<1>1. ASSUME M' = M PROVE MadeInv'
  BY <1>1 DEF MadeInv, Made
<1>2. CASE Connect
  <2>1. Made + 1 \in Tunnels /\ Made \in Nat
    BY <1>2, MadeType, HsVpnAssumption DEF Connect, Tunnels
  <2>2. M' = M \cup {Made + 1}
    BY <1>2, <2>1 DEF Connect, SeqInv
  <2>3. M' = 1 .. (Made + 1)
    BY <2>1, <2>2 DEF MadeInv
  <2>4. Cardinality(1 .. (Made + 1)) = Made + 1
    BY <2>1, FS_Interval
  <2> QED
    BY <2>3, <2>4 DEF MadeInv, Made
<1>3. CASE UNCHANGED tunnel
  BY <1>1, <1>3
<1>4. ASSUME NEW t \in Tunnels, NEW s \in {"up", "down"},
             tunnel[t] # "none", tunnel' = [tunnel EXCEPT ![t] = s]
      PROVE  MadeInv'
  <2>1. M' = M
    BY <1>4 DEF SeqInv
  <2> QED
    BY <1>1, <2>1
<1>5. ASSUME NEW t \in Tunnels, TunnelUp(t) \/ TunnelThrows(t) \/ Revoke(t)
      PROVE  MadeInv'
  BY <1>4, <1>5 DEF TunnelUp, TunnelThrows, Revoke
<1>6. ASSUME NEW i \in DOMAIN stops, StopCall(i) \/ StopPost(i)
      PROVE  MadeInv'
  <2>1. stops[i] \in [tunnel : Tunnels, from : 0 .. MaxDestroys, step : {"call", "post", "done"}]
    BY ElementOf DEF SeqInv
  <2>2. stops[i].tunnel \in Tunnels
    BY <2>1
  <2> QED
    BY <1>3, <1>4, <1>6, <2>2 DEF StopCall, StopPost
<1>7. CASE User
  BY <1>3, <1>7, UserFrame DEF Elsewhere
<1>8. CASE ConnectRefused \/ Disconnect \/ Destroy \/ RunDown \/ RunUp
  BY <1>3, <1>8 DEF ConnectRefused, Disconnect, Destroy, RunDown, RunUp
<1>9. CASE UNCHANGED vars
  BY <1>3, <1>9 DEF vars
<1> QED
  BY <1>2, <1>5, <1>6, <1>7, <1>8, <1>9, Cases

\* Every step keeps the types of SeqInv; Made + 1 is a tunnel when Connect takes it.
LEMMA SeqStep == SeqInv /\ [Next]_vars => SeqInv'
<1> SUFFICES ASSUME SeqInv, [Next]_vars PROVE SeqInv'
  OBVIOUS
<1>1. CASE UNCHANGED vars
  BY <1>1 DEF vars, SeqInv
<1>2. CASE User
  BY <1>2, UserFrame DEF Elsewhere, service, SeqInv
<1>3. CASE ConnectRefused
  BY <1>3 DEF ConnectRefused, SeqInv
<1>4. CASE Connect
  <2>1. Made + 1 \in Tunnels
    BY <1>4, MadeType, HsVpnAssumption DEF Connect, Tunnels
  <2>2. tunnel' \in [Tunnels -> {"none", "starting", "up", "down"}]
    BY <1>4, <2>1 DEF Connect, SeqInv
  <2>3. maker' \in [Tunnels -> 0 .. MaxDestroys]
    BY <1>4, <2>1 DEF Connect, SeqInv
  <2> QED
    BY <1>4, <2>1, <2>2, <2>3 DEF Connect, SeqInv
<1>5. CASE Disconnect
  <2>1. StopThread
    BY <1>5 DEF Disconnect
  <2>2. stops' \in Seq([tunnel : Tunnels, from : 0 .. MaxDestroys, step : {"call", "post", "done"}])
    BY <2>1, StopThreadAdds
  <2> QED
    BY <1>5, <2>2 DEF Disconnect, service, SeqInv
<1>6. CASE Destroy
  <2>1. StopThread
    BY <1>6 DEF Destroy
  <2>2. stops' \in Seq([tunnel : Tunnels, from : 0 .. MaxDestroys, step : {"call", "post", "done"}])
    BY <2>1, StopThreadAdds
  <2>3. instance' \in 0 .. MaxDestroys
    BY <1>6, HsVpnAssumption DEF Destroy, SeqInv
  <2> QED
    BY <1>6, <2>2, <2>3 DEF Destroy, SeqInv
<1>7. CASE RunDown
  BY <1>7, PostsTail DEF RunDown, SeqInv
<1>8. CASE RunUp
  BY <1>8, PostsTail DEF RunUp, SeqInv
<1>9. ASSUME NEW t \in Tunnels, TunnelUp(t) \/ TunnelThrows(t) \/ Revoke(t)
      PROVE  SeqInv'
  <2>1. \E k \in {"up", "down"} : Post(k, maker[t])
    BY <1>9 DEF TunnelUp, TunnelThrows, Revoke
  <2>2. maker[t] \in 0 .. MaxDestroys
    BY DEF SeqInv
  <2>3. posts' \in Seq([kind : {"up", "down"}, from : 0 .. MaxDestroys])
    <3>1. 0 \in 0 .. Len(posts)
      BY DEF SeqInv
    <3> QED
      BY <2>1, <2>2, <3>1, PostUp, PostDown
  <2>4. tunnel' \in [Tunnels -> {"none", "starting", "up", "down"}]
    BY <1>9 DEF TunnelUp, TunnelThrows, Revoke, SeqInv
  <2> QED
    BY <1>9, <2>3, <2>4 DEF TunnelUp, TunnelThrows, Revoke, Thread, service, SeqInv
<1>10. ASSUME NEW i \in DOMAIN stops, StopCall(i) \/ StopPost(i)
       PROVE  SeqInv'
  <2>1. stops' \in Seq([tunnel : Tunnels, from : 0 .. MaxDestroys, step : {"call", "post", "done"}])
    BY <1>10, StopMoves DEF StopCall, StopPost
  <2>2. stops[i] \in [tunnel : Tunnels, from : 0 .. MaxDestroys, step : {"call", "post", "done"}]
    BY ElementOf DEF SeqInv
  <2>3. stops[i].from \in 0 .. MaxDestroys /\ 0 \in 0 .. Len(posts)
    BY <2>2 DEF SeqInv
  <2>4. posts' \in Seq([kind : {"up", "down"}, from : 0 .. MaxDestroys])
    <3>1. Post("down", stops[i].from) \/ posts' = posts
      BY <1>10 DEF StopCall, StopPost
    <3> QED
      BY <2>3, <3>1, PostDown DEF SeqInv
  <2>5. tunnel' \in [Tunnels -> {"none", "starting", "up", "down"}]
    BY <1>10 DEF StopCall, StopPost, SeqInv
  <2> QED
    BY <1>10, <2>1, <2>4, <2>5 DEF StopCall, StopPost, Thread, service, SeqInv
<1> QED
  BY <1>1, <1>2, <1>3, <1>4, <1>5, <1>6, <1>7, <1>8, <1>9, <1>10, Cases

\* Every step keeps QueueInv; running an "up" relies on what its own clause
\* promised behind it, and every other step leaves or adds a later "down".
LEMMA QueueStep == SeqInv /\ MadeInv /\ QueueInv /\ [Next]_vars => QueueInv'
<1> SUFFICES ASSUME SeqInv, MadeInv, QueueInv, [Next]_vars PROVE QueueInv'
  OBVIOUS
<1>0. posts \in Seq([kind : {"up", "down"}, from : 0 .. MaxDestroys])
  BY DEF SeqInv
<1>1. CASE UNCHANGED vars
  BY <1>1 DEF vars, QueueInv, SomeUp, DownAfter, Live
<1>2. CASE User
  BY <1>2, UserFrame DEF Elsewhere, service, QueueInv, SomeUp, DownAfter, Live
<1>3. CASE ConnectRefused
  BY <1>3 DEF ConnectRefused, Broadcast, QueueInv, SomeUp, DownAfter, Live
<1>4. CASE Connect
  <2>1. Made + 1 \in Tunnels /\ tunnel[Made + 1] # "up"
    <3>1. Made + 1 \in Tunnels /\ Made + 1 \notin 1 .. Made
      BY <1>4, MadeType, HsVpnAssumption DEF Connect, Tunnels
    <3> QED
      BY <3>1 DEF MadeInv
  <2>2. SomeUp => SomeUp'
    BY <1>4, <2>1 DEF Connect, SomeUp, SeqInv
  <2>3. UNCHANGED <<isRunning, told, posts, stops>>
    BY <1>4 DEF Connect
  <2> QED
    BY <2>2, <2>3 DEF QueueInv, DownAfter, Live
<1>5. CASE Disconnect
  <2>1. StopThread /\ UNCHANGED <<service, tunnel, posts>>
    BY <1>5 DEF Disconnect
  <2>2. Live \subseteq Live'
    BY <2>1, StopThreadAdds
  <2> QED
    BY <2>1, <2>2 DEF service, QueueInv, SomeUp, DownAfter
<1>6. CASE Destroy
  <2>1. StopThread /\ UNCHANGED <<isRunning, told, tunnel, posts>>
    BY <1>6 DEF Destroy
  <2>2. Live \subseteq Live'
    BY <2>1, StopThreadAdds
  <2> QED
    BY <2>1, <2>2 DEF QueueInv, SomeUp, DownAfter
<1>7. CASE RunDown
  <2>1. /\ posts # << >> /\ posts' = Tail(posts) /\ ~isRunning' /\ ~told'
        /\ SomeUp' = SomeUp /\ Live' = Live
    BY <1>7 DEF RunDown, Broadcast, SomeUp, Live
  <2>2. ASSUME NEW i \in DOMAIN posts', posts'[i].kind = "up"
        PROVE  SomeUp' \/ DownAfter(i)' \/ Live' # {}
    <3>1. i + 1 \in DOMAIN posts /\ posts[i + 1].kind = "up"
      BY <2>1, <2>2, PostsTail
    <3>2. SomeUp \/ DownAfter(i + 1) \/ Live # {}
      BY <3>1 DEF QueueInv
    <3>3. ASSUME NEW j \in DOMAIN posts, j > i + 1, posts[j].kind = "down"
          PROVE  DownAfter(i)'
      <4>1. j # 1 /\ j - 1 > i
        BY <1>0, <3>3, <2>1, PostsTail
      <4>2. j - 1 \in DOMAIN posts' /\ posts'[j - 1].kind = "down"
        BY <2>1, <3>3, <4>1, PostsTail
      <4> QED
        BY <4>1, <4>2 DEF DownAfter
    <3> QED
      BY <2>1, <3>2, <3>3 DEF DownAfter
  <2> QED
    BY <2>1, <2>2 DEF QueueInv
<1>8. CASE RunUp
  <2>1. /\ posts # << >> /\ posts' = Tail(posts) /\ Head(posts).kind = "up"
        /\ SomeUp' = SomeUp /\ Live' = Live
    BY <1>8 DEF RunUp, SomeUp, Live
  <2>2. ASSUME NEW i \in {0} \cup DOMAIN posts', DownAfter(i + 1)
        PROVE  DownAfter(i)'
    <3>1. PICK j \in DOMAIN posts : j > i + 1 /\ posts[j].kind = "down"
      BY <2>2 DEF DownAfter
    <3>2. j # 1 /\ j - 1 > i
      <4>1. posts' \in Seq([kind : {"up", "down"}, from : 0 .. MaxDestroys])
        BY <2>1, PostsTail
      <4> QED
        BY <1>0, <3>1, <4>1
    <3> QED
      BY <2>1, <3>1, <3>2, PostsTail DEF DownAfter
  <2>3. SomeUp \/ DownAfter(1) \/ Live # {}
    BY <2>1, PostsTail DEF QueueInv
  <2>4. SomeUp' \/ DownAfter(0)' \/ Live' # {}
    BY <2>1, <2>2, <2>3
  <2>5. ASSUME NEW i \in DOMAIN posts', posts'[i].kind = "up"
        PROVE  SomeUp' \/ DownAfter(i)' \/ Live' # {}
    <3>1. i + 1 \in DOMAIN posts /\ posts[i + 1].kind = "up"
      BY <2>1, <2>5, PostsTail
    <3>2. SomeUp \/ DownAfter(i + 1) \/ Live # {}
      BY <3>1 DEF QueueInv
    <3> QED
      BY <2>1, <2>2, <3>2
  <2> QED
    BY <2>4, <2>5 DEF QueueInv
<1>9. ASSUME NEW t \in Tunnels, TunnelUp(t)
      PROVE  QueueInv'
  BY <1>9 DEF TunnelUp, SeqInv, QueueInv, SomeUp
<1>10. ASSUME NEW from \in 0 .. MaxDestroys, Post("down", from)
       PROVE  QueueInv'
  <2>1. DownAfter(0)'
    BY <1>0, <1>10, PostDown
  <2>2. ASSUME NEW i \in DOMAIN posts', posts'[i].kind = "up"
        PROVE  DownAfter(i)'
    <3>1. 0 \in 0 .. Len(posts)
      BY <1>0
    <3>2. i \in 0 .. Len(posts)
      BY <1>0, <1>10, <2>2, <3>1, PostDown
    <3> QED
      BY <1>10, <3>2, PostDown
  <2> QED
    BY <2>1, <2>2 DEF QueueInv
<1>11. ASSUME NEW t \in Tunnels, TunnelThrows(t) \/ Revoke(t)
       PROVE  QueueInv'
  BY <1>10, <1>11 DEF TunnelThrows, Revoke, SeqInv
<1>12. ASSUME NEW i \in DOMAIN stops, StopCall(i) \/ StopPost(i)
       PROVE  QueueInv'
  <2>1. stops[i].from \in 0 .. MaxDestroys
    <3>1. stops \in Seq([tunnel : Tunnels, from : 0 .. MaxDestroys, step : {"call", "post", "done"}])
      BY DEF SeqInv
    <3>2. stops[i] \in [tunnel : Tunnels, from : 0 .. MaxDestroys, step : {"call", "post", "done"}]
      BY <3>1, ElementOf
    <3> QED
      BY <3>2
  <2>2. CASE Post("down", stops[i].from)
    BY <1>10, <2>1, <2>2
  <2>3. CASE StopCall(i) /\ UNCHANGED <<tunnel, posts>>
    <3>1. i \in Live'
      BY <2>3, StopMoves DEF StopCall, Live
    <3> QED
      BY <2>3, <3>1 DEF StopCall, Thread, service, QueueInv
  <2> QED
    BY <1>12, <2>2, <2>3 DEF StopCall, StopPost
<1> QED
  BY <1>1, <1>2, <1>3, <1>4, <1>5, <1>6, <1>7, <1>8, <1>9, <1>11, <1>12, Cases

(***************************************************************************)
(* HsVpnService.RunningHasTunnel: neither isRunning nor the last broadcast *)
(* says that the VPN runs when none is up and nothing is on its way that   *)
(* would say so, for any number of connects, threads and instances.        *)
(***************************************************************************)
THEOREM RunningHasTunnelCorrect == Spec => []RunningHasTunnel
<1>1. QueueInv => RunningHasTunnel
  BY DEF QueueInv, RunningHasTunnel, DownComing, SomeUp, DownAfter
<1> QED
  BY <1>1, SeqInit, SeqStep, MadeInit, MadeStep, QueueInit, QueueStep, PTL DEF Spec

-----------------------------------------------------------------------------
\* The conjuncts of TypeOK that SeqInv lacks.
RestInv ==
    /\ isRunning \in BOOLEAN /\ told \in BOOLEAN /\ lost \subseteq Tunnels
    /\ allowed \in BOOLEAN /\ asking \in {"none", "connect", "bad"}
    /\ intents \in Seq({"connect", "bad", "disconnect"})
    /\ Len(stops) <= MaxStops /\ sent \in 0 .. MaxIntents
    /\ current # 0 => tunnel[current] # "none"
    /\ \A i \in DOMAIN stops : tunnel[stops[i].tunnel] # "none"

\* Nothing was sent and no tunnel made.
LEMMA RestInit == Init => RestInv
<1> SUFFICES ASSUME Init PROVE RestInv
  OBVIOUS
<1>1. intents \in Seq({"connect", "bad", "disconnect"})
  BY DEF Init
<1>2. Len(stops) <= MaxStops /\ DOMAIN stops = {} /\ sent \in 0 .. MaxIntents
  BY HsVpnAssumption DEF Init
<1>3. /\ isRunning \in BOOLEAN /\ told \in BOOLEAN /\ lost \subseteq Tunnels
      /\ allowed \in BOOLEAN /\ asking \in {"none", "connect", "bad"} /\ current = 0
  BY DEF Init
<1> QED
  BY <1>1, <1>2, <1>3 DEF RestInv

\* The steps of the user, who fills the queue of intents up to the bound.
LEMMA UserTypes ==
    ASSUME RestInv, User
    PROVE  /\ allowed' \in BOOLEAN /\ asking' \in {"none", "connect", "bad"}
           /\ intents' \in Seq({"connect", "bad", "disconnect"}) /\ sent' \in 0 .. MaxIntents
<1> DEFINE Kinds == {"connect", "bad", "disconnect"}
<1>1. \A k \in Kinds : Append(intents, k) \in Seq(Kinds)
  BY DEF RestInv
<1>2. sent < MaxIntents => sent + 1 \in 0 .. MaxIntents
  BY HsVpnAssumption DEF RestInv
<1>3. ASSUME NEW k \in {"connect", "bad"}, StartVpn(k)
      PROVE  /\ allowed' \in BOOLEAN /\ asking' \in {"none", "connect", "bad"}
             /\ intents' \in Seq(Kinds) /\ sent' \in 0 .. MaxIntents
  BY <1>1, <1>2, <1>3 DEF StartVpn, StartService, RestInv
<1>4. CASE PermissionGiven
  BY <1>1, <1>2, <1>4 DEF PermissionGiven, StartService, RestInv
<1>5. CASE StartReceiver \/ StopVpn
  BY <1>1, <1>2, <1>5 DEF StartReceiver, StopVpn, StartService, activity, RestInv
<1> QED
  BY <1>3, <1>4, <1>5 DEF User

\* Every step keeps the rest of the types.
LEMMA RestStep == SeqInv /\ RestInv /\ [Next]_vars => RestInv'
<1> SUFFICES ASSUME SeqInv, RestInv, [Next]_vars PROVE RestInv'
  OBVIOUS
<1>1. CASE UNCHANGED vars
  BY <1>1 DEF vars, RestInv
<1>2. CASE User
  BY <1>2, UserFrame, UserTypes DEF Elsewhere, service, RestInv
<1>i. ASSUME NEW k, Intent(k) PROVE intents' \in Seq({"connect", "bad", "disconnect"})
  BY <1>i DEF Intent, RestInv
<1>3. CASE ConnectRefused
  BY <1>3, <1>i DEF ConnectRefused, Broadcast, activity, RestInv
<1>4. CASE Connect
  <2>1. Made + 1 \in Tunnels
    BY <1>4, MadeType, HsVpnAssumption DEF Connect, Tunnels
  <2>2. \A t \in Tunnels : tunnel[t] # "none" => tunnel'[t] # "none"
    BY <1>4, <2>1 DEF Connect, SeqInv
  <2>3. tunnel'[current'] # "none"
    BY <1>4, <2>1 DEF Connect, SeqInv
  <2>4. \A i \in DOMAIN stops : stops[i].tunnel \in Tunnels
    <3>1. \A i \in DOMAIN stops : stops[i] \in
              [tunnel : Tunnels, from : 0 .. MaxDestroys, step : {"call", "post", "done"}]
      BY ElementOf DEF SeqInv
    <3> QED
      BY <3>1
  <2>5. lost' \subseteq Tunnels
    BY <1>4, <2>1 DEF Connect, Beside, Busy, RestInv
  <2> QED
    BY <1>4, <1>i, <2>2, <2>3, <2>4, <2>5 DEF Connect, activity, RestInv
<1>s. ASSUME StopThread, UNCHANGED tunnel
      PROVE  /\ Len(stops') <= MaxStops /\ lost' \subseteq Tunnels
             /\ \A i \in DOMAIN stops' : tunnel'[stops'[i].tunnel] # "none"
  <2>1. CASE current = 0
    BY <1>s, <2>1 DEF StopThread, RestInv
  <2>2. CASE current # 0
    <3> DEFINE e == [tunnel |-> current, from |-> instance, step |-> "call"]
    <3>1. stops' = Append(stops, e) /\ Len(stops) < MaxStops /\ lost' \subseteq Tunnels
      BY <1>s, <2>2 DEF StopThread, Starting, RestInv
    <3>2. stops \in Seq([tunnel : Tunnels, from : 0 .. MaxDestroys, step : {"call", "post", "done"}])
      BY DEF SeqInv
    <3>3. /\ Len(stops') = Len(stops) + 1 /\ Len(stops) \in Nat
          /\ \A i \in DOMAIN stops' : (i \in DOMAIN stops /\ stops'[i] = stops[i]) \/ stops'[i] = e
      BY <3>1, <3>2
    <3>4. e.tunnel = current
      OBVIOUS
    <3> HIDE DEF e
    <3> QED
      BY <1>s, <2>2, <3>1, <3>3, <3>4, HsVpnAssumption DEF RestInv
  <2> QED
    BY <2>1, <2>2
<1>5. CASE Disconnect
  BY <1>5, <1>i, <1>s DEF Disconnect, service, activity, RestInv
<1>6. CASE Destroy
  BY <1>6, <1>s DEF Destroy, activity, RestInv
<1>7. CASE RunDown
  BY <1>7 DEF RunDown, Broadcast, activity, RestInv
<1>8. CASE RunUp
  BY <1>8 DEF RunUp, Broadcast, activity, RestInv
<1>9. ASSUME NEW t \in Tunnels, TunnelUp(t) \/ TunnelThrows(t) \/ Revoke(t)
      PROVE  RestInv'
  <2>1. \A u \in Tunnels : tunnel[u] # "none" => tunnel'[u] # "none"
    BY <1>9 DEF TunnelUp, TunnelThrows, Revoke, SeqInv
  <2>2. \A i \in DOMAIN stops : stops[i].tunnel \in Tunnels
    <3>1. \A i \in DOMAIN stops : stops[i] \in
              [tunnel : Tunnels, from : 0 .. MaxDestroys, step : {"call", "post", "done"}]
      BY ElementOf DEF SeqInv
    <3> QED
      BY <3>1
  <2>3. UNCHANGED <<stops, isRunning, told, lost, allowed, asking, intents, sent, current>>
    BY <1>9 DEF TunnelUp, TunnelThrows, Revoke, Thread, service, activity
  <2> QED
    BY <2>1, <2>2, <2>3 DEF RestInv, SeqInv
<1>10. ASSUME NEW i \in DOMAIN stops, StopCall(i) \/ StopPost(i)
       PROVE  RestInv'
  <2>0. stops[i] \in [tunnel : Tunnels, from : 0 .. MaxDestroys, step : {"call", "post", "done"}]
    BY ElementOf DEF SeqInv
  <2>1. \A u \in Tunnels : tunnel[u] # "none" => tunnel'[u] # "none"
    BY <1>10, <2>0 DEF StopCall, StopPost, SeqInv
  <2>2. \A j \in DOMAIN stops : stops[j].tunnel \in Tunnels
    <3>1. \A j \in DOMAIN stops : stops[j] \in
              [tunnel : Tunnels, from : 0 .. MaxDestroys, step : {"call", "post", "done"}]
      BY ElementOf DEF SeqInv
    <3> QED
      BY <3>1
  <2>3. PICK s \in {"post", "done"} : stops' = [stops EXCEPT ![i].step = s]
    BY <1>10 DEF StopCall, StopPost
  <2>4. /\ DOMAIN stops' = DOMAIN stops /\ Len(stops') = Len(stops)
        /\ \A j \in DOMAIN stops : stops'[j].tunnel = stops[j].tunnel
    BY <2>0, <2>3 DEF SeqInv
  <2>5. UNCHANGED <<isRunning, told, lost, allowed, asking, intents, sent, current>>
    BY <1>10 DEF StopCall, StopPost, Thread, service, activity
  <2> QED
    BY <2>1, <2>2, <2>4, <2>5 DEF RestInv, SeqInv
<1> QED
  BY <1>1, <1>2, <1>3, <1>4, <1>5, <1>6, <1>7, <1>8, <1>9, <1>10, Cases

(***************************************************************************)
(* HsVpnService.TypeOK: the variables keep their types, the service holds, *)
(* and its threads are about, tunnels that were made.                      *)
(***************************************************************************)
THEOREM TypeCorrect == Spec => []TypeOK
<1>1. SeqInv /\ MadeInv /\ RestInv => TypeOK
  <2> SUFFICES ASSUME SeqInv, MadeInv, RestInv PROVE TypeOK
    OBVIOUS
  <2>1. Made \in Nat /\ \A t \in Tunnels : tunnel[t] # "none" => t \in 1 .. Made
    BY MadeType DEF MadeInv
  <2>2. current \in 0 .. Made
    BY <2>1 DEF SeqInv, RestInv
  <2>3. \A i \in DOMAIN stops : stops[i].tunnel \in 1 .. Made
    <3>1. \A i \in DOMAIN stops : stops[i] \in
              [tunnel : Tunnels, from : 0 .. MaxDestroys, step : {"call", "post", "done"}]
      BY ElementOf DEF SeqInv
    <3> QED
      BY <2>1, <3>1 DEF RestInv
  <2> QED
    BY <2>2, <2>3 DEF SeqInv, RestInv, TypeOK
<1> QED
  BY <1>1, SeqInit, SeqStep, MadeInit, MadeStep, RestInit, RestStep, PTL DEF Spec

-----------------------------------------------------------------------------
(***************************************************************************)
(* UpIsHeld needs that a tunnel that is not lost is the only one, and what *)
(* may wait beside it: nothing while it is being made, no "down" while it  *)
(* is up, and only threads that are about to take it down.                 *)
(***************************************************************************)
Alone(t) ==
    /\ \A s \in Busy : s = t
    /\ tunnel[t] = "starting" => current = t /\ Live = {} /\ posts = << >>
    /\ tunnel[t] = "up" =>
          /\ current \in {0, t} /\ (current = t \/ Live # {})
          /\ isRunning \/ posts # << >> \/ Live # {}
          /\ \A i \in Live : stops[i].tunnel = t /\ stops[i].step = "call"
          /\ \A j \in DOMAIN posts : posts[j].kind = "up"

HeldInv == \A t \in Busy \ lost : Alone(t)

\* A thread, for the tunnel the service holds, is made or the service has none.
LEMMA HeldStop ==
    ASSUME SeqInv, HeldInv, StopThread, UNCHANGED <<tunnel, posts, isRunning>>,
           current' \in {0, current}
    PROVE  HeldInv'
<1> SUFFICES ASSUME NEW t \in Busy, t \notin lost' PROVE Alone(t)'
  BY DEF HeldInv, Busy
<1>1. t \notin lost /\ Busy' = Busy /\ tunnel' = tunnel
  BY StopThreadAdds DEF Busy
<1>2. Alone(t)
  BY <1>1 DEF HeldInv
<1>3. CASE current = 0
  <2>1. stops' = stops /\ Live' = Live /\ current' = current
    BY <1>3, StopThreadAdds DEF Live
  <2> QED
    BY <1>1, <1>2, <2>1 DEF Alone
<1>4. CASE current # 0
  <2>1. /\ Live' # {} /\ ~(t \in Starting /\ t = current)
        /\ \A i \in Live' : \/ i \in Live /\ stops'[i] = stops[i]
                            \/ stops'[i].step = "call" /\ stops'[i].tunnel = current
    BY <1>4, StopThreadAdds
  <2>2. tunnel[t] # "starting"
    BY <1>2, <2>1 DEF Alone, Starting, Busy
  <2>3. tunnel[t] = "up" /\ current = t
    BY <1>2, <1>4, <2>2 DEF Alone, Busy
  <2> QED
    BY <1>1, <1>2, <2>1, <2>3 DEF Alone
<1> QED
  BY <1>3, <1>4

\* With nothing that is being made or up there is nothing to hold.
LEMMA NoneBusy == ASSUME Busy' = {} PROVE HeldInv'
BY DEF HeldInv

\* A step that changes none of what Alone reads keeps it.
LEMMA HeldSame ==
    ASSUME HeldInv, UNCHANGED <<tunnel, current, stops, posts, isRunning, lost>>
    PROVE  HeldInv'
BY DEF HeldInv, Alone, Busy, Live

LEMMA HeldStep == SeqInv /\ MadeInv /\ HeldInv /\ [Next]_vars => HeldInv'
<1> SUFFICES ASSUME SeqInv, MadeInv, HeldInv, [Next]_vars PROVE HeldInv'
  OBVIOUS
<1>1. CASE UNCHANGED vars
  BY <1>1, HeldSame DEF vars
<1>2. CASE User
  BY <1>2, UserFrame, HeldSame DEF Elsewhere, service
<1>3. CASE ConnectRefused
  BY <1>3, HeldSame DEF ConnectRefused
<1>4. CASE Connect
  <2> SUFFICES ASSUME NEW t \in Busy', t \notin lost' PROVE Alone(t)'
    BY DEF HeldInv
  <2>1. /\ ~isRunning /\ UNCHANGED <<posts, stops>> /\ lost' = lost \cup Beside
        /\ current' = Made + 1 /\ tunnel' = [tunnel EXCEPT ![Made + 1] = "starting"]
    BY <1>4 DEF Connect
  <2>2. \A s \in Busy' : s = Made + 1 \/ s \in Busy
    BY <2>1 DEF Busy, SeqInv
  <2>3. Starting = {} /\ Busy \cap lost = {} /\ Live = {} /\ posts = << >>
    BY <2>1, <2>2 DEF Beside
  <2>4. ASSUME NEW s \in Busy PROVE FALSE
    <3>1. Alone(s) /\ tunnel[s] = "up"
      BY <2>3 DEF HeldInv, Starting, Busy
    <3> QED
      BY <2>1, <2>3, <3>1 DEF Alone
  <2>5. t = Made + 1 /\ tunnel'[t] = "starting" /\ Live' = {} /\ posts' = << >>
    BY <2>1, <2>2, <2>3, <2>4 DEF Busy, Live, SeqInv
  <2> QED
    BY <2>1, <2>2, <2>4, <2>5 DEF Alone
<1>5. CASE Disconnect
  BY <1>5, HeldStop DEF Disconnect, service
<1>6. CASE Destroy
  BY <1>6, HeldStop DEF Destroy
<1>7. CASE RunDown
  <2> SUFFICES ASSUME NEW t \in Busy, t \notin lost PROVE FALSE
    BY <1>7 DEF RunDown, HeldInv, Busy
  <2>1. posts # << >> /\ posts[1].kind = "down" /\ 1 \in DOMAIN posts
    BY <1>7, PostsTail DEF RunDown
  <2>2. Alone(t)
    BY DEF HeldInv
  <2> QED
    BY <2>1, <2>2 DEF Alone, Busy
<1>8. CASE RunUp
  <2> SUFFICES ASSUME NEW t \in Busy, t \notin lost PROVE Alone(t)'
    BY <1>8 DEF RunUp, HeldInv, Busy
  <2>1. /\ posts # << >> /\ isRunning' /\ UNCHANGED <<current, tunnel, stops>>
        /\ Live' = Live /\ Busy' = Busy
        /\ \A j \in DOMAIN posts' : j + 1 \in DOMAIN posts /\ posts'[j] = posts[j + 1]
    BY <1>8, PostsTail DEF RunUp, Live, Busy
  <2>2. Alone(t)
    BY DEF HeldInv
  <2> QED
    BY <2>1, <2>2 DEF Alone
<1>9. ASSUME NEW u \in Tunnels, TunnelUp(u)
      PROVE  HeldInv'
  <2> SUFFICES ASSUME NEW t \in Busy', t \notin lost' PROVE Alone(t)'
    BY DEF HeldInv
  <2>1. /\ tunnel[u] = "starting" /\ u \in Busy /\ UNCHANGED <<current, stops, lost>>
        /\ tunnel' = [tunnel EXCEPT ![u] = "up"]
        /\ Post("up", maker[u])
    BY <1>9 DEF TunnelUp, Thread, service, Busy
  <2>2. Busy' = Busy
    BY <2>1 DEF Busy, SeqInv
  <2>3. Alone(t) /\ t = u
    BY <2>1, <2>2 DEF HeldInv, Alone
  <2>4. current = t /\ Live = {} /\ posts = << >> /\ Live' = {} /\ tunnel'[t] = "up"
    BY <2>1, <2>3 DEF Alone, Live, SeqInv
  <2>5. /\ posts' # << >>
        /\ \A j \in DOMAIN posts' : posts'[j].kind = "up"
    <3>1. maker[u] \in 0 .. MaxDestroys
      BY DEF SeqInv
    <3>2. posts' \in Seq([kind : {"up", "down"}, from : 0 .. MaxDestroys])
      BY <2>1, <3>1, PostUp
    <3>3. \A j \in DOMAIN posts' : posts'[j] \in [kind : {"up", "down"}, from : 0 .. MaxDestroys]
      BY <3>2, ElementOf
    <3>4. \A j \in DOMAIN posts' : posts'[j].kind # "down"
      BY <2>1, <2>4, <3>1, PostUp
    <3>5. posts' # << >>
      BY <2>1, <3>1, PostUp
    <3> QED
      BY <3>3, <3>4, <3>5
  <2> QED
    BY <2>1, <2>2, <2>3, <2>4, <2>5 DEF Alone
<1>10. ASSUME NEW u \in Tunnels, TunnelThrows(u) \/ Revoke(u)
       PROVE  HeldInv'
  <2> SUFFICES ASSUME NEW t \in Busy', t \notin lost' PROVE FALSE
    BY DEF HeldInv
  <2>1. u \in Busy /\ tunnel' = [tunnel EXCEPT ![u] = "down"] /\ lost' = lost
    BY <1>10 DEF TunnelThrows, Revoke, Thread, Busy
  <2>2. t \in Busy /\ t # u
    BY <2>1 DEF Busy, SeqInv
  <2>3. Alone(t)
    BY <2>1, <2>2 DEF HeldInv
  <2> QED
    BY <2>1, <2>2, <2>3 DEF Alone
<1>11. ASSUME NEW i \in DOMAIN stops, StopCall(i) \/ StopPost(i)
       PROVE  HeldInv'
  <2> SUFFICES ASSUME NEW t \in Busy', t \notin lost' PROVE FALSE
    BY DEF HeldInv
  <2>1. i \in Live /\ lost' = lost
    BY <1>11 DEF StopCall, StopPost, Thread, Live
  <2>2. stops[i].tunnel \in Tunnels
    <3>1. stops[i] \in [tunnel : Tunnels, from : 0 .. MaxDestroys, step : {"call", "post", "done"}]
      BY ElementOf DEF SeqInv
    <3> QED
      BY <3>1
  <2>3. t \in Busy
    BY <1>11, <2>2 DEF StopCall, StopPost, Busy, SeqInv
  <2>4. Alone(t)
    BY <2>1, <2>3 DEF HeldInv
  <2>5. tunnel[t] = "up" /\ stops[i].tunnel = t /\ stops[i].step = "call"
    BY <2>1, <2>3, <2>4 DEF Alone, Busy
  <2>6. tunnel'[t] = "down"
    BY <1>11, <2>2, <2>5 DEF StopCall, StopPost, SeqInv
  <2> QED
    BY <2>6 DEF Busy
<1> QED
  BY <1>1, <1>2, <1>3, <1>4, <1>5, <1>6, <1>7, <1>8, <1>9, <1>10, <1>11, Cases

(***************************************************************************)
(* HsVpnService.UpIsHeld: a tunnel that is up is the one the service       *)
(* holds, or has a thread that takes it down, unless it was lost itself -- *)
(* for any number of connects, revocations and destroyed instances, and    *)
(* whatever tunnels were lost before it.                                   *)
(***************************************************************************)
THEOREM UpIsHeldCorrect == Spec => []UpIsHeld
<1>1. Init => HeldInv
  BY DEF Init, HeldInv, Busy
<1>2. HeldInv => UpIsHeld
  <2> SUFFICES ASSUME HeldInv, NEW t \in Tunnels, t \notin lost, tunnel[t] = "up", current # t
               PROVE  \E i \in Live : stops[i].tunnel = t
    BY DEF UpIsHeld, Stoppable
  <2>1. Alone(t)
    BY DEF HeldInv, Busy
  <2> QED
    BY <2>1 DEF Alone
<1> QED
  BY <1>1, <1>2, SeqInit, SeqStep, MadeInit, MadeStep, HeldStep, PTL DEF Spec
=============================================================================
