----------------------------- MODULE FlutterApp ------------------------------
(***************************************************************************)
(* The Flutter application (flutter/lib/main.dart over hs_service.dart)    *)
(* composed with the commands it starts: HsClient, whose processes are the *)
(* children of the application, numbered in the order of their start.      *)
(*                                                                         *)
(* Dart runs one callback at a time; an await is where another may come    *)
(* between.  Connect waits for register to end, then starts up and does    *)
(* not wait for it.  Disconnect waits for down, then sends SIGTERM to the  *)
(* up it started last.  Refresh waits for status, and may run beside all   *)
(* of them, as its button is never disabled; the other two buttons are     *)
(* disabled from the press of one to its end.                              *)
(***************************************************************************)
EXTENDS Integers, Sequences, FiniteSets

CONSTANTS Procs,        \* bound: the processes, 1 .. n
          Nobody,       \* no process; the pid file is missing
          Registered, Commands, Kills,      \* as in HsClient
          Refreshes     \* bound: refreshes that run side by side

ASSUME FlutterAppAssumption ==
    /\ Nobody \notin Procs /\ IsFiniteSet(Procs) /\ Procs \subseteq Nat
    /\ Commands \subseteq {"register", "up", "down", "status", "serve"}
    /\ Kills \in Nat /\ Registered \in BOOLEAN

VARIABLES
    proc, keyFile, config, pid, registered, keys, kills, crashed, keyRace,
    cfgCut, regDone,    \* as in HsClient
    flow,       \* what _connect or _disconnect waits for, or "idle"
    waits,      \* the process it waits for
    child,      \* _wgProcess
    refresh,    \* per refresh: the status it waits for
    connected,  \* _connected, which the screen shows
    lost,       \* history: the children that a later up took the place of
    overlap,    \* history: an up was started while another one was running
    quiet       \* history, per refresh: nothing else has been going on

C == INSTANCE HsClient

commands == <<proc, keyFile, config, pid, registered, keys, kills, crashed,
              keyRace, cfgCut, regDone>>
app == <<flow, waits, child, refresh, connected, lost, overlap, quiet>>
vars == <<commands, app>>

Init ==
    /\ C!Init
    /\ flow = "idle" /\ waits = Nobody /\ child = Nobody /\ connected = FALSE
    /\ refresh = [r \in Refreshes |-> Nobody]
    /\ lost = {} /\ overlap = FALSE /\ quiet = [r \in Refreshes |-> FALSE]

-----------------------------------------------------------------------------
\* The next process that is started.
Fresh(p) == proc[p].step = "unborn" /\ \A q \in Procs : proc[q].step = "unborn" => p <= q
Start(p, cmd) == Fresh(p) /\ C!Run(p, cmd, cmd = "up")
Ended(p) == proc[p].step = "done"
Ups == {p \in Procs : proc[p].cmd = "up" /\ ~C!Dead(p)}

\* The ups that are neither connected nor over.
Unsettled == {p \in Procs : /\ proc[p].cmd # "status"
                            /\ \/ proc[p].step \notin {"unborn", "wait", "done"}
                               \/ proc[p].step = "wait" /\ proc[p].sig}
Still == flow = "idle" /\ Unsettled = {}
Disturb == quiet' = [r \in Refreshes |-> FALSE]

-----------------------------------------------------------------------------
(* Connect *)

\* _connect: register is started, and waited for.
PressConnect(p) ==
    /\ flow = "idle" /\ Start(p, "register")
    /\ flow' = "register" /\ waits' = p
    /\ Disturb /\ UNCHANGED <<child, refresh, connected, lost, overlap>>

\* register has failed, or the up cannot be started: Process.start throws.
ConnectFailed ==
    /\ flow = "register" /\ Ended(waits)
    /\ flow' = "idle" /\ waits' = Nobody
    /\ UNCHANGED <<commands, child, refresh, connected, lost, overlap, quiet>>

\* Mutant: the process that is kept is the one of register.
StartUpKeepsRegister(p) ==
    /\ flow = "register" /\ Ended(waits) /\ proc[waits].out = "registered"
    /\ Start(p, "up") /\ child' = waits
    /\ flow' = "started" /\ waits' = Nobody
    /\ lost' = lost \cup ({child} \ {Nobody}) /\ overlap' = (overlap \/ Ups # {})
    /\ UNCHANGED <<refresh, connected, quiet>>

\* Mutant: the process that was started is not kept.
StartUpForgotten(p) ==
    /\ flow = "register" /\ Ended(waits) /\ proc[waits].out = "registered"
    /\ Start(p, "up") /\ flow' = "started" /\ waits' = Nobody
    /\ overlap' = (overlap \/ Ups # {})
    /\ UNCHANGED <<child, refresh, connected, lost, quiet>>

\* connect(): the child of an earlier connect is overwritten, not stopped.
StartUp(p) ==
    /\ flow = "register" /\ Ended(waits) /\ proc[waits].out = "registered"
    /\ Start(p, "up") /\ child' = p
    /\ flow' = "started" /\ waits' = Nobody
    /\ lost' = lost \cup ({child} \ {Nobody}) /\ overlap' = (overlap \/ Ups # {})
    /\ UNCHANGED <<refresh, connected, quiet>>

\* The screen says connected as soon as up has been started.
ShowConnected ==
    /\ flow = "started" /\ flow' = "idle" /\ connected' = TRUE
    /\ UNCHANGED <<commands, waits, child, refresh, lost, overlap, quiet>>

-----------------------------------------------------------------------------
(* Disconnect *)

PressDisconnect(p) ==
    /\ flow = "idle" /\ Start(p, "down")
    /\ flow' = "down" /\ waits' = p
    /\ Disturb /\ UNCHANGED <<child, refresh, connected, lost, overlap>>

\* SIGTERM for process p, if there is one.
Sigterm(p) ==
    IF p = Nobody \/ Ended(p) \/ proc[p].sig THEN UNCHANGED commands
    ELSE /\ UNCHANGED kills
         /\ IF proc[p].step \in {"writePid", "wait"} THEN C!Term(p) ELSE C!Kill(p)

\* Mutant: down is trusted to end the connection.
DownEndedNoKill ==
    /\ flow = "down" /\ Ended(waits)
    /\ child' = Nobody /\ flow' = "idle" /\ waits' = Nobody /\ connected' = FALSE
    /\ UNCHANGED <<commands, refresh, lost, overlap, quiet>>

\* down has ended, well or not: the child is told to stop and forgotten.
DownEnded ==
    /\ flow = "down" /\ Ended(waits) /\ Sigterm(child)
    /\ child' = Nobody /\ flow' = "idle" /\ waits' = Nobody /\ connected' = FALSE
    /\ UNCHANGED <<refresh, lost, overlap, quiet>>

-----------------------------------------------------------------------------
(* Refresh *)

PressRefresh(r, p) ==
    /\ refresh[r] = Nobody /\ Start(p, "status")
    /\ refresh' = [refresh EXCEPT ![r] = p] /\ quiet' = [quiet EXCEPT ![r] = Still]
    /\ UNCHANGED <<flow, waits, child, connected, lost, overlap>>

\* Whatever went wrong with status is shown as not connected.
RefreshEnded(r) ==
    /\ refresh[r] # Nobody /\ Ended(refresh[r])
    /\ connected' = (proc[refresh[r]].out = "connected")
    /\ refresh' = [refresh EXCEPT ![r] = Nobody] /\ quiet' = [quiet EXCEPT ![r] = FALSE]
    /\ UNCHANGED <<commands, flow, waits, child, lost, overlap>>

-----------------------------------------------------------------------------
App == ConnectFailed \/ (\E p \in Procs : StartUp(p)) \/ ShowConnected \/ DownEnded

\* A child goes on, or is killed.
Child(p) ==
    /\ C!Step(p) \/ C!Strike(p)
    /\ quiet' = [r \in Refreshes |-> quiet[r] /\ proc[p].cmd = "status"]
    /\ UNCHANGED <<flow, waits, child, refresh, connected, lost, overlap>>
ChildLocal(p) ==
    /\ C!Local(p)
    /\ quiet' = [r \in Refreshes |-> quiet[r] /\ proc[p].cmd = "status"]
    /\ UNCHANGED <<flow, waits, child, refresh, connected, lost, overlap>>

Next ==
    \/ App
    \/ \E p \in Procs : PressConnect(p) \/ PressDisconnect(p) \/ Child(p)
    \/ \E r \in Refreshes : RefreshEnded(r) \/ \E p \in Procs : PressRefresh(r, p)

\* Callbacks are run, and so are processes; servers may never answer.
Fairness ==
    /\ WF_vars(App) /\ \A r \in Refreshes : WF_vars(RefreshEnded(r))
    /\ \A p \in Procs : WF_vars(ChildLocal(p))

Spec == Init /\ [][Next]_vars
FairSpec == Spec /\ Fairness

-----------------------------------------------------------------------------
\* The application waits for, and keeps, the commands it means to.
TypeOK ==
    /\ flow \in {"idle", "register", "started", "down"}
    /\ flow \in {"register", "down"} => waits \in Procs /\ proc[waits].cmd = flow
    /\ child # Nobody => child \in Procs /\ proc[child].cmd = "up"
    /\ \A r \in Refreshes : refresh[r] # Nobody => proc[refresh[r]].cmd = "status"
    /\ connected \in BOOLEAN /\ lost \subseteq Procs /\ overlap \in BOOLEAN

(***************************************************************************)
(* An up that runs is one that the application can stop, or has stopped:   *)
(* it is the child or has its signal -- unless it was the child when       *)
(* another connect started its up, which hs_service.dart:75 puts in its    *)
(* place.  That is the only way to lose one, and loses no other.           *)
(***************************************************************************)
NoOrphan == \A p \in Ups \ lost : p = child \/ proc[p].sig

(***************************************************************************)
(* A refresh that runs while nothing else happens shows whether an up is   *)
(* connected, after whatever sequence of connects and disconnects -- as    *)
(* long as no process has died without cleaning up, and no up was started  *)
(* while another one was running.  The up that a disconnect has told to    *)
(* stop is running until it stops, and then takes down the pid file of     *)
(* whichever is connected.                                                 *)
(***************************************************************************)
RefreshTellsTruth ==
    [][\A r \in Refreshes :
          refresh[r] # Nobody /\ refresh'[r] = Nobody /\ quiet[r] =>
            \/ connected' = (C!Connected # {})
            \/ overlap \/ crashed # {}]_vars

(***************************************************************************)
(* Disconnect ends the up that is the child when it is pressed, however    *)
(* far that up has come: waiting for a server, about to write its pid file *)
(* or connected.                                                           *)
(***************************************************************************)
DisconnectEnds == \A p \in Procs : (flow = "down" /\ child = p) ~> C!Dead(p)
=============================================================================
