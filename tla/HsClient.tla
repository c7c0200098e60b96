------------------------------ MODULE HsClient ------------------------------
(***************************************************************************)
(* The commands of hs-client (client/main.go) as processes that share one  *)
(* state directory.  There is no lock on it: a register, an up, a down and *)
(* a status may run side by side, started by hand, by systemd or by the    *)
(* Flutter application, and each may be killed between any two steps.      *)
(*                                                                         *)
(* A file is written by os.WriteFile, which truncates it first: one step   *)
(* empties it, the next fills it.  A key file that is missing, empty or    *)
(* cut short is one that loadKey cannot use; all are written as 0 here.    *)
(* The network map request and the registration are one step each: they    *)
(* fail, or Headscale answers.  The iface file decides nothing and is left *)
(* out, and so are peers and WireGuard beyond the start of its goroutine.  *)
(***************************************************************************)
EXTENDS Integers, Sequences, FiniteSets

CONSTANTS Procs,        \* processes, each of which runs one command
          Nobody,       \* the pid file is missing
          Registered,   \* whether a register ended before these processes
          Commands,     \* bound: the commands that are run
          Kills         \* bound: processes killed or told to stop

\* The key files, in the order in which register and up load them.
KeyFiles == <<"machine_key", "node_key">>

ASSUME HsClientAssumption ==
    /\ Nobody \notin Procs /\ IsFiniteSet(Procs)
    /\ Commands \subseteq {"register", "up", "down", "status", "serve"}
    /\ Kills \in Nat /\ Registered \in BOOLEAN

VARIABLES
    proc,       \* per process: its command, how far it is, what it has read
    keyFile,    \* machine_key and node_key: a key, or 0
    config,     \* the config file
    pid,        \* the process the pid file names, or Nobody
    registered, \* the key pairs Headscale knows
    keys,       \* keys generated so far, which numbers them
    kills,      \* processes killed so far
    crashed,    \* history: processes that ended without cleaning up
    keyRace,    \* history: two processes were generating the same key
    cfgCut,     \* history: a process died between emptying and filling config
    regDone     \* history: some register has run to its end

vars == <<proc, keyFile, config, pid, registered, keys, kills, crashed,
          keyRace, cfgCut, regDone>>
files == <<keyFile, config, pid>>
world == <<registered, keys, kills>>
history == <<crashed, keyRace, cfgCut, regDone>>

-----------------------------------------------------------------------------
NoConfig == [exists |-> FALSE, server |-> FALSE, ip |-> FALSE]
EmptyConfig == [exists |-> TRUE, server |-> FALSE, ip |-> FALSE]

\* sawReg and sawUp: the history a process finds when it starts.
Unborn == [cmd |-> "none", step |-> "unborn", at |-> 1, keys |-> << >>,
           server |-> FALSE, ip |-> FALSE, wg |-> FALSE, sig |-> FALSE,
           out |-> "none", sawReg |-> FALSE, sawUp |-> {}, cfgRace |-> FALSE]

Dead(p) == proc[p].step \in {"unborn", "done"}
Connected == {p \in Procs : proc[p].step = "wait"}

\* Process p moves to another step, changing nothing else it has.
Goto(p, step) == proc' = [proc EXCEPT ![p].step = step]
Exit(p, out) == proc' = [proc EXCEPT ![p].step = "done", ![p].out = out]

Init ==
    /\ proc = [p \in Procs |-> Unborn]
    /\ pid = Nobody /\ kills = 0 /\ crashed = {}
    /\ keyRace = FALSE /\ cfgCut = FALSE /\ regDone = Registered
    /\ IF Registered
       THEN /\ keyFile = <<1, 2>> /\ keys = 2 /\ registered = {<<1, 2>>}
            /\ config = [EmptyConfig EXCEPT !.server = TRUE]
       ELSE /\ keyFile = <<0, 0>> /\ keys = 0 /\ registered = {}
            /\ config = NoConfig

(***************************************************************************)
(* A command is started, up with or without --server.                      *)
(***************************************************************************)
Run(p, cmd, flag) ==
    /\ proc[p].step = "unborn"
    /\ flag => cmd = "up"
    /\ proc' = [proc EXCEPT ![p] = [Unborn EXCEPT
                    !.cmd = cmd, !.server = (flag \/ cmd = "register"),
                    !.sawReg = regDone, !.sawUp = Connected,
                    !.step = IF cmd = "register" THEN "loadKey" ELSE "loadConfig"]]
    /\ UNCHANGED <<files, world, history>>

-----------------------------------------------------------------------------
(* register and up *)

\* loadConfig: up without --server and without SERVER in config gives up.
LoadConfig(p) ==
    /\ proc[p].cmd = "up" /\ proc[p].step = "loadConfig"
    /\ LET racing == config = EmptyConfig /\ \E q \in Procs : proc[q].step = "fillConfig"
       IN  IF proc[p].server \/ config.server
           THEN proc' = [proc EXCEPT ![p].step = "loadKey", ![p].server = TRUE]
           ELSE proc' = [proc EXCEPT ![p].step = "done", ![p].out = "not registered",
                                     ![p].cfgRace = racing]
    /\ UNCHANGED <<files, world, history>>

\* The step after the key that is being loaded.
AfterKey(p) == IF proc[p].at = Len(KeyFiles) THEN "server" ELSE "loadKey"

\* loadKey, and NewKey when there is no usable key.
LoadKey(p) ==
    /\ proc[p].step = "loadKey"
    /\ LET k == keyFile[proc[p].at]
       IN  IF k # 0
           THEN /\ proc' = [proc EXCEPT ![p].step = AfterKey(p), ![p].at = @ + 1,
                                        ![p].keys = Append(@, k)]
                /\ UNCHANGED <<keys, keyRace>>
           ELSE /\ keys' = keys + 1
                /\ proc' = [proc EXCEPT ![p].step = "emptyKey",
                                        ![p].keys = Append(@, keys')]
                /\ keyRace' = (keyRace \/ \E q \in Procs \ {p} :
                                    /\ proc[q].step \in {"emptyKey", "fillKey"}
                                    /\ proc[q].at = proc[p].at)
    /\ UNCHANGED <<files, registered, kills, crashed, cfgCut, regDone>>

\* saveKey, in two steps.
EmptyKey(p) ==
    /\ proc[p].step = "emptyKey" /\ Goto(p, "fillKey")
    /\ keyFile' = [keyFile EXCEPT ![proc[p].at] = 0]
    /\ UNCHANGED <<config, pid, world, history>>

\* Mutant: a key is kept in memory and not saved.
FillKeyNot(p) ==
    /\ proc[p].step = "fillKey"
    /\ proc' = [proc EXCEPT ![p].step = AfterKey(p), ![p].at = @ + 1]
    /\ UNCHANGED <<files, world, history>>

\* Mutant: a new key is remembered when it is made and again when it is saved.
FillKeyAgain(p) ==
    /\ proc[p].step = "fillKey"
    /\ LET k == proc[p].keys[proc[p].at]
       IN  /\ keyFile' = [keyFile EXCEPT ![proc[p].at] = k]
           /\ proc' = [proc EXCEPT ![p].step = AfterKey(p), ![p].at = @ + 1,
                                   ![p].keys = Append(@, k)]
    /\ UNCHANGED <<config, pid, world, history>>

FillKey(p) ==
    /\ proc[p].step = "fillKey"
    /\ proc' = [proc EXCEPT ![p].step = AfterKey(p), ![p].at = @ + 1]
    /\ keyFile' = [keyFile EXCEPT ![proc[p].at] = proc[p].keys[proc[p].at]]
    /\ UNCHANGED <<config, pid, world, history>>

(***************************************************************************)
(* The exchange with Headscale fails, at any point, or is answered.        *)
(* register takes any answer without an error in it for success, whatever  *)
(* its status.  up gets a map if the pair of keys is known, with the own   *)
(* address of the node or without (no Node in the first message, or one    *)
(* that has no addresses).                                                 *)
(***************************************************************************)
AskServer(p) ==
    /\ proc[p].step = "server"
    /\ \/ /\ proc[p].cmd = "register"
          /\ registered' \in {registered, registered \cup {proc[p].keys}}
          /\ Goto(p, "emptyConfig") \/ Exit(p, "failed")
       \/ /\ proc[p].cmd = "up" /\ UNCHANGED registered
          /\ \/ Exit(p, "failed")
             \/ /\ proc[p].keys \in registered
                /\ \E ip \in BOOLEAN :
                      proc' = [proc EXCEPT ![p].step = "emptyConfig", ![p].ip = ip]
    /\ UNCHANGED <<files, keys, kills, history>>

EmptyConfigFile(p) ==
    /\ proc[p].step = "emptyConfig" /\ Goto(p, "fillConfig")
    /\ config' = EmptyConfig
    /\ UNCHANGED <<keyFile, pid, world, history>>

\* Mutant: up writes the node's address only.
FillConfigNoServer(p) ==
    /\ proc[p].step = "fillConfig"
    /\ config' = [exists |-> TRUE, server |-> proc[p].cmd = "register", ip |-> proc[p].ip]
    /\ IF proc[p].cmd = "register" THEN Exit(p, "registered") ELSE Goto(p, "startWG")
    /\ regDone' = (regDone \/ proc[p].cmd = "register")
    /\ UNCHANGED <<keyFile, pid, world, crashed, keyRace, cfgCut>>

\* register writes SERVER, up SERVER and NODE_IP; neither keeps what was there.
FillConfig(p) ==
    /\ proc[p].step = "fillConfig"
    /\ config' = [exists |-> TRUE, server |-> TRUE, ip |-> proc[p].ip]
    /\ IF proc[p].cmd = "register" THEN Exit(p, "registered") ELSE Goto(p, "startWG")
    /\ regDone' = (regDone \/ proc[p].cmd = "register")
    /\ UNCHANGED <<keyFile, pid, world, crashed, keyRace, cfgCut>>

\* go runWireGuard, and signal.Notify: from here a SIGTERM is waited for.
StartWG(p) ==
    /\ proc[p].step = "startWG"
    /\ proc' = [proc EXCEPT ![p].step = "writePid", ![p].wg = TRUE]
    /\ UNCHANGED <<files, world, history>>

\* netip.MustParseAddr panics in the goroutine when there is no address.
WGPanics(p) ==
    /\ proc[p].wg /\ ~proc[p].ip /\ ~Dead(p)
    /\ Exit(p, "panic") /\ crashed' = crashed \cup {p}
    /\ UNCHANGED <<files, world, keyRace, cfgCut, regDone>>

WritePid(p) ==
    /\ proc[p].step = "writePid" /\ Goto(p, "wait")
    /\ pid' = p
    /\ UNCHANGED <<keyFile, config, world, history>>

\* Mutant: up ends on the signal without cmdDown.
LeaveWithoutDown(p) ==
    /\ proc[p].step = "wait" /\ proc[p].sig
    /\ Exit(p, "disconnected")
    /\ UNCHANGED <<files, world, history>>

\* up takes the signal and ends by cmdDown.
Leave(p) ==
    /\ proc[p].step = "wait" /\ proc[p].sig
    /\ Exit(p, "disconnected") /\ pid' = Nobody
    /\ UNCHANGED <<keyFile, config, world, history>>

-----------------------------------------------------------------------------
(* The short commands *)

\* cmdDown removes the pid file and does nothing else.
Down(p) ==
    /\ proc[p].cmd = "down" /\ proc[p].step = "loadConfig"
    /\ proc' = [proc EXCEPT ![p].step = "done", ![p].out = "disconnected",
                            ![p].sawUp = Connected]
    /\ pid' = Nobody
    /\ UNCHANGED <<keyFile, config, world, history>>

\* cmdStatus reads config, then looks for the pid file.
StatusConfig(p) ==
    /\ proc[p].cmd = "status" /\ proc[p].step = "loadConfig"
    /\ IF config.exists
       THEN proc' = [proc EXCEPT ![p].step = "stat", ![p].ip = config.ip]
       ELSE Exit(p, "not connected")
    /\ UNCHANGED <<files, world, history>>

StatusPid(p) ==
    /\ proc[p].step = "stat"
    /\ Exit(p, IF pid = Nobody THEN "not connected" ELSE "connected")
    /\ UNCHANGED <<files, world, history>>

\* tnet is a variable of the process, which in this one nobody has set.
Serve(p) ==
    /\ proc[p].cmd = "serve" /\ proc[p].step = "loadConfig"
    /\ Exit(p, "netstack not running")
    /\ UNCHANGED <<files, world, history>>

-----------------------------------------------------------------------------
\* SIGKILL, a power cut, or SIGTERM before it is waited for.
Kill(p) ==
    /\ ~Dead(p) /\ Exit(p, "killed") /\ crashed' = crashed \cup {p}
    /\ cfgCut' = (cfgCut \/ proc[p].step = "fillConfig")
    /\ UNCHANGED <<files, registered, keys, keyRace, regDone>>

\* SIGTERM once signal.Notify has asked for it.
Term(p) ==
    /\ proc[p].step \in {"writePid", "wait"} /\ ~proc[p].sig
    /\ proc' = [proc EXCEPT ![p].sig = TRUE]
    /\ UNCHANGED <<files, registered, keys, history>>

Strike(p) == kills < Kills /\ kills' = kills + 1 /\ (Kill(p) \/ Term(p))

\* What a process does by itself, but for the servers it waits for.
Local(p) ==
    \/ LoadConfig(p) \/ LoadKey(p) \/ EmptyKey(p) \/ FillKey(p)
    \/ EmptyConfigFile(p) \/ FillConfig(p) \/ StartWG(p) \/ WGPanics(p)
    \/ WritePid(p) \/ Leave(p)
    \/ Down(p) \/ StatusConfig(p) \/ StatusPid(p) \/ Serve(p)
Step(p) == Local(p) \/ AskServer(p)

Next ==
    \E p \in Procs :
        \/ \E cmd \in Commands, flag \in BOOLEAN : Run(p, cmd, flag)
        \/ Step(p) \/ Strike(p)

(***************************************************************************)
(* The operating system runs every process that can run.  A server may     *)
(* never answer: register and the fetch of the server key have no deadline.*)
(***************************************************************************)
Fairness == \A p \in Procs : WF_vars(Local(p))

Spec == Init /\ [][Next]_vars
FairSpec == Spec /\ Fairness

-----------------------------------------------------------------------------
\* Shapes of the state directory and of the processes.
TypeOK ==
    /\ keyFile \in [1 .. Len(KeyFiles) -> Nat]
    /\ config \in [exists : BOOLEAN, server : BOOLEAN, ip : BOOLEAN]
    /\ pid \in Procs \cup {Nobody}
    /\ keys \in Nat /\ kills \in Nat
    /\ crashed \subseteq Procs
    /\ \A k \in registered : k \in Seq(Nat) /\ Len(k) = Len(KeyFiles)
    /\ \A p \in Procs : /\ proc[p].at \in 1 .. (Len(KeyFiles) + 1)
                        /\ Len(proc[p].keys) = proc[p].at -
                              (IF proc[p].step \in {"emptyKey", "fillKey"} THEN 0 ELSE 1)
                           \/ proc[p].step = "done"

(***************************************************************************)
(* What Headscale has registered is the pair of keys in the key files, so  *)
(* the next up is the node that was registered -- whatever was killed when *)
(* -- unless two first runs were generating the same key together.         *)
(***************************************************************************)
RegisteredIsOnDisk ==
    ~keyRace => \A k \in registered, f \in 1 .. Len(KeyFiles) : keyFile[f] = k[f]

(***************************************************************************)
(* up says "not registered" only if no register had ended when it started, *)
(* or config was being rewritten as it read it, or a kill cut it.          *)
(***************************************************************************)
RefusedOnlyUnregistered ==
    \A p \in Procs : proc[p].out = "not registered" =>
        ~proc[p].sawReg \/ proc[p].cfgRace \/ cfgCut

(***************************************************************************)
(* The pid file, which status takes for the connection, names an up that   *)
(* is connected, or one that was killed or panicked.                       *)
(***************************************************************************)
PidNamesUp == pid # Nobody => pid \in Connected \cup crashed

(***************************************************************************)
(* TASK.md:122 says that down disconnects: an up that was connected when a *)
(* down ran comes to its end.                                              *)
(***************************************************************************)
DownDisconnects ==
    \A d, u \in Procs :
        (/\ proc[d].cmd = "down" /\ proc[d].out = "disconnected"
         /\ u \in proc[d].sawUp) ~> Dead(u)
=============================================================================
