----------------------------- MODULE HsVpnService ---------------------------
(***************************************************************************)
(* The Android service: HsVpnService.kt, with the calls that MainActivity  *)
(* and VpnStartReceiver make to it.  Intents and the Runnables posted to   *)
(* mainHandler run one at a time on the main thread; every setState of the *)
(* WireGuard backend runs in a thread of its own, and answers by posting.  *)
(*                                                                         *)
(* A connect makes a backend and a tunnel, numbered together here, and     *)
(* keeps both until cleanup.  The backend (GoBackend) is external: bringing*)
(* a tunnel up succeeds or throws, bringing it down has an effect only on  *)
(* a tunnel that is up, and both report through onStateChange.  Another    *)
(* VPN application may take the tunnel down at any time.                   *)
(***************************************************************************)
EXTENDS Integers, Sequences, FiniteSets

CONSTANTS MaxConnects,  \* bound: tunnels that are made
          MaxIntents,   \* bound: intents for the service
          MaxStops,     \* bound: disconnects that find a tunnel
          MaxDestroys   \* bound: instances of the service that are destroyed

ASSUME HsVpnAssumption ==
    /\ MaxConnects \in Nat /\ MaxIntents \in Nat
    /\ MaxStops \in Nat /\ MaxDestroys \in Nat

Tunnels == 1 .. MaxConnects

VARIABLES
    isRunning,  \* HsVpnService.isRunning, which outlives an instance
    current,    \* this instance's backend and currentTunnel, or 0
    instance,   \* instances of the service that were destroyed
    tunnel,     \* per tunnel: how far its backend has it
    maker,      \* per tunnel: the instance that made it
    stops,      \* threads of disconnect: their tunnel and step
    posts,      \* Runnables waiting in mainHandler
    intents,    \* intents for onStartCommand, in order
    allowed,    \* VpnService.prepare asks for no permission
    asking,     \* pendingVpnIntent of MainActivity, or "none"
    sent,       \* intents so far
    told,       \* the last VPN_STATUS that was broadcast
    lost        \* history: the tunnels that were being made at a disconnect,
                \* and those that a connect found, or was made, beside others

vars == <<isRunning, current, instance, tunnel, maker, stops, posts, intents,
          allowed, asking, sent, told, lost>>
activity == <<allowed, asking>>
service == <<isRunning, current, instance, told>>

Made == Cardinality({t \in Tunnels : tunnel[t] # "none"})
Starting == {t \in Tunnels : tunnel[t] = "starting"}
Busy == {t \in Tunnels : tunnel[t] \in {"starting", "up"}}
Live == {i \in DOMAIN stops : stops[i].step # "done"}

Init ==
    /\ isRunning = FALSE /\ current = 0 /\ instance = 0 /\ told = FALSE
    /\ tunnel = [t \in Tunnels |-> "none"] /\ maker = [t \in Tunnels |-> 0]
    /\ stops = << >> /\ posts = << >>
    /\ intents = << >> /\ sent = 0 /\ asking = "none" /\ allowed \in BOOLEAN
    /\ lost = {}

-----------------------------------------------------------------------------
(* MainActivity and VpnStartReceiver *)

StartService(kind) ==
    /\ sent < MaxIntents /\ sent' = sent + 1
    /\ intents' = Append(intents, kind)
Elsewhere == UNCHANGED <<service, tunnel, maker, stops, posts, lost>>

\* startVpn, with arguments that make a configuration or not.
StartVpn(kind) ==
    /\ kind \in {"connect", "bad"} /\ Elsewhere /\ UNCHANGED allowed
    /\ IF allowed THEN StartService(kind) /\ UNCHANGED asking
                  ELSE asking' = kind /\ UNCHANGED <<intents, sent>>

\* onActivityResult; a refusal changes nothing and keeps the intent.
PermissionGiven ==
    /\ ~allowed /\ asking # "none" /\ Elsewhere
    /\ StartService(asking) /\ allowed' = TRUE /\ asking' = "none"

\* VpnStartReceiver does nothing without the permission.
StartReceiver == allowed /\ StartService("connect") /\ Elsewhere /\ UNCHANGED activity

\* stopVpn, and the Disconnect button of the notification.
StopVpn == StartService("disconnect") /\ Elsewhere /\ UNCHANGED activity

-----------------------------------------------------------------------------
(* The main thread *)

Intent(kind) == intents # << >> /\ Head(intents) = kind /\ intents' = Tail(intents)

Broadcast(connected) == told' = connected

\* connect while running, or with arguments it cannot use.
ConnectRefused ==
    /\ Intent("connect") \/ Intent("bad")
    /\ isRunning \/ Head(intents) = "bad"
    /\ Broadcast(isRunning)
    /\ UNCHANGED <<isRunning, current, instance, tunnel, maker, stops, posts, activity, sent, lost>>

\* The tunnels that a connect disturbs if one is being made, if one was lost and
\* is up, or if threads or Runnables wait: those that there are, and its own.
Beside ==
    IF Starting = {} /\ Busy \cap lost = {} /\ Live = {} /\ posts = << >> THEN {}
    ELSE Busy \cup {Made + 1}

\* Mutant: connect does not look at isRunning.
ConnectRunning ==
    /\ Intent("connect") /\ Made < MaxConnects
    /\ current' = Made + 1
    /\ tunnel' = [tunnel EXCEPT ![Made + 1] = "starting"]
    /\ maker' = [maker EXCEPT ![Made + 1] = instance]
    /\ lost' = lost \cup Beside
    /\ UNCHANGED <<isRunning, instance, told, stops, posts, activity, sent>>

\* A backend and a tunnel, and a thread that brings it up.
Connect ==
    /\ Intent("connect") /\ ~isRunning /\ Made < MaxConnects
    /\ current' = Made + 1
    /\ tunnel' = [tunnel EXCEPT ![Made + 1] = "starting"]
    /\ maker' = [maker EXCEPT ![Made + 1] = instance]
    /\ lost' = lost \cup Beside
    /\ UNCHANGED <<isRunning, instance, told, stops, posts, activity, sent>>

\* Mutant: disconnect does not ask whether there is a tunnel.
StopThreadAlways ==
    /\ Len(stops) < MaxStops
    /\ stops' = Append(stops, [tunnel |-> current, from |-> instance, step |-> "call"])
    /\ lost' = lost \cup (Starting \cap {current})

\* disconnect: a thread for the tunnel there is, if there is one.
StopThread ==
    IF current = 0 THEN UNCHANGED <<stops, lost>>
    ELSE /\ Len(stops) < MaxStops
         /\ stops' = Append(stops, [tunnel |-> current, from |-> instance, step |-> "call"])
         /\ lost' = lost \cup (Starting \cap {current})

Disconnect ==
    /\ Intent("disconnect") /\ StopThread
    /\ UNCHANGED <<service, tunnel, maker, posts, activity, sent>>

\* onDestroy; the next intent is for a new instance.
Destroy ==
    /\ instance < MaxDestroys /\ current # 0 /\ StopThread
    /\ instance' = instance + 1 /\ current' = 0
    /\ UNCHANGED <<isRunning, told, tunnel, maker, posts, intents, activity, sent>>

\* Mutant: cleanup leaves isRunning.
RunDownStaysRunning ==
    /\ posts # << >> /\ Head(posts).kind = "down" /\ posts' = Tail(posts)
    /\ UNCHANGED isRunning
    /\ current' = IF Head(posts).from = instance THEN 0 ELSE current
    /\ Broadcast(FALSE)
    /\ UNCHANGED <<instance, tunnel, maker, stops, intents, activity, sent, lost>>

\* cleanup() of the instance that posted it, and its broadcast.
RunDown ==
    /\ posts # << >> /\ Head(posts).kind = "down" /\ posts' = Tail(posts)
    /\ isRunning' = FALSE
    /\ current' = IF Head(posts).from = instance THEN 0 ELSE current
    /\ Broadcast(FALSE)
    /\ UNCHANGED <<instance, tunnel, maker, stops, intents, activity, sent, lost>>

RunUp ==
    /\ posts # << >> /\ Head(posts).kind = "up" /\ posts' = Tail(posts)
    /\ isRunning' = TRUE /\ Broadcast(TRUE)
    /\ UNCHANGED <<current, instance, tunnel, maker, stops, intents, activity, sent, lost>>

-----------------------------------------------------------------------------
(* The threads and the backend *)

Post(kind, i) == posts' = Append(posts, [kind |-> kind, from |-> i])
Thread == UNCHANGED <<service, maker, intents, activity, sent, lost>>

TunnelUp(t) ==
    /\ tunnel[t] = "starting" /\ tunnel' = [tunnel EXCEPT ![t] = "up"]
    /\ Post("up", maker[t]) /\ Thread /\ UNCHANGED stops

TunnelThrows(t) ==
    /\ tunnel[t] = "starting" /\ tunnel' = [tunnel EXCEPT ![t] = "down"]
    /\ Post("down", maker[t]) /\ Thread /\ UNCHANGED stops

\* External: the system takes the VPN from this application.
Revoke(t) ==
    /\ tunnel[t] = "up" /\ tunnel' = [tunnel EXCEPT ![t] = "down"]
    /\ Post("down", maker[t]) /\ Thread /\ UNCHANGED stops

\* Mutant: the thread of disconnect only cleans up.
StopCallNothing(i) ==
    /\ stops[i].step = "call" /\ stops' = [stops EXCEPT ![i].step = "post"]
    /\ UNCHANGED <<tunnel, posts>> /\ Thread

\* setState DOWN in the thread of disconnect.
StopCall(i) ==
    /\ stops[i].step = "call" /\ stops' = [stops EXCEPT ![i].step = "post"]
    /\ IF tunnel[stops[i].tunnel] = "up"
       THEN /\ tunnel' = [tunnel EXCEPT ![stops[i].tunnel] = "down"]
            /\ Post("down", stops[i].from)
       ELSE UNCHANGED <<tunnel, posts>>
    /\ Thread

\* Whether or not that threw.
StopPost(i) ==
    /\ stops[i].step = "post" /\ stops' = [stops EXCEPT ![i].step = "done"]
    /\ Post("down", stops[i].from) /\ UNCHANGED tunnel /\ Thread

-----------------------------------------------------------------------------
Main == ConnectRefused \/ Connect \/ Disconnect \/ RunDown \/ RunUp
User == \/ \E kind \in {"connect", "bad"} : StartVpn(kind)
        \/ PermissionGiven \/ StartReceiver \/ StopVpn
SetUp(t) == TunnelUp(t) \/ TunnelThrows(t)

Next ==
    \/ User \/ Main \/ Destroy
    \/ \E t \in Tunnels : SetUp(t) \/ Revoke(t)
    \/ \E i \in DOMAIN stops : StopCall(i) \/ StopPost(i)

\* The main thread runs what is posted and every thread runs to its end.
Fairness ==
    /\ WF_vars(Main)
    /\ \A t \in Tunnels : WF_vars(SetUp(t))
    /\ \A i \in 1 .. MaxStops :
          WF_vars(i \in DOMAIN stops /\ (StopCall(i) \/ StopPost(i)))

Spec == Init /\ [][Next]_vars
FairSpec == Spec /\ Fairness

-----------------------------------------------------------------------------
\* Types; the service holds only a tunnel that was made.
TypeOK ==
    /\ isRunning \in BOOLEAN /\ told \in BOOLEAN /\ lost \subseteq Tunnels
    /\ allowed \in BOOLEAN /\ asking \in {"none", "connect", "bad"}
    /\ current \in 0 .. Made /\ instance \in 0 .. MaxDestroys
    /\ tunnel \in [Tunnels -> {"none", "starting", "up", "down"}]
    /\ posts \in Seq([kind : {"up", "down"}, from : 0 .. MaxDestroys])
    /\ intents \in Seq({"connect", "bad", "disconnect"})
    /\ \A i \in DOMAIN stops : stops[i].tunnel \in 1 .. Made
    /\ Len(stops) <= MaxStops /\ sent \in 0 .. MaxIntents

\* What is still to clear isRunning.
DownComing == (\E i \in DOMAIN posts : posts[i].kind = "down") \/ Live # {}

(***************************************************************************)
(* The service says that it runs, by isRunning or by its last broadcast,   *)
(* only with a tunnel up or what will clear both on its way -- through     *)
(* revocations, threads that end late and an instance that is destroyed.   *)
(***************************************************************************)
RunningHasTunnel ==
    isRunning \/ told => DownComing \/ \E t \in Tunnels : tunnel[t] = "up"

(***************************************************************************)
(* A tunnel that is up can be taken down: the service holds it, or is      *)
(* taking it down -- whatever became of the tunnels before it, unless it   *)
(* was being made at a disconnect (HsVpnService.kt:158), or made or        *)
(* replaced by a connect while others were busy (:73, :168).               *)
(***************************************************************************)
Stoppable(t) ==
    \/ tunnel[t] = "up" => current = t
    \/ \E i \in Live : stops[i].tunnel = t
UpIsHeld == \A t \in Tunnels \ lost : Stoppable(t)

(***************************************************************************)
(* A disconnect that is asked for takes down the tunnel that is up, with   *)
(* the same proviso for that tunnel.                                       *)
(***************************************************************************)
DisconnectTakesDown ==
    \A t \in Tunnels :
        (tunnel[t] = "up" /\ \E i \in DOMAIN intents : intents[i] = "disconnect")
            ~> (t \in lost \/ tunnel[t] = "down")

(***************************************************************************)
(* HsVpnService.kt:230 puts a Disconnect button on the notification of a   *)
(* VPN that is connected: while the service runs there is something that   *)
(* the button can disconnect.                                              *)
(***************************************************************************)
ButtonDisconnects ==
    isRunning /\ posts = << >> => \A t \in Tunnels : Stoppable(t)
=============================================================================
