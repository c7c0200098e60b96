-------------------------- MODULE FlutterApp_proofs --------------------------
(***************************************************************************)
(* Proofs about FlutterApp and the commands it starts, for any number of   *)
(* processes, refreshes and kills.  Of a command only its name, its step,  *)
(* its signal and its answer matter here; ProcInv has their shape, and     *)
(* Went says what a step of one command may do to all that is shared.      *)
(***************************************************************************)
EXTENDS FlutterApp, TLAPS

Fields == {"cmd", "step", "at", "keys", "server", "ip", "wg", "sig", "out",
           "sawReg", "sawUp", "cfgRace"}
KeySteps == {"loadKey", "emptyKey", "fillKey", "server", "emptyConfig", "fillConfig"}
UpSteps == {"startWG", "writePid", "wait"}

\* The steps of each command; a signal is kept from the pid file on.
ProcInv(r) ==
    /\ DOMAIN r = Fields /\ r = [f \in Fields |-> r[f]]
    /\ r.cmd \in {"none", "register", "up", "down", "status"}
    /\ r.cmd = "none" => r.step = "unborn"
    /\ r.cmd = "register" => r.step \in KeySteps \cup {"done"}
    /\ r.cmd = "up" => r.step \in {"loadConfig", "done"} \cup KeySteps \cup UpSteps
    /\ r.cmd = "down" => r.step \in {"loadConfig", "done"}
    /\ r.cmd = "status" => r.step \in {"loadConfig", "stat", "done"}
    /\ r.sig \in BOOLEAN /\ (r.sig => r.step \in {"writePid", "wait", "done"})

\* The steps behind the first writing or reading of config.
Configured == {"fillConfig", "stat"} \cup UpSteps

ProcsInv ==
    /\ proc = [p \in Procs |-> proc[p]]
    /\ \A p \in Procs : ProcInv(proc[p])
    /\ config.exists \in BOOLEAN /\ pid \in Procs \cup {Nobody} /\ crashed \subseteq Procs
    /\ \A p \in Procs : proc[p].step \in Configured => config.exists

\* A process that is started is one like this.
LEMMA UnbornProc == ProcInv(C!Unborn)
BY DEF ProcInv, C!Unborn, Fields, KeySteps, UpSteps

-----------------------------------------------------------------------------
(* Steps of a command *)

\* What a step of process p leaves as it is.
Went(p) ==
    /\ proc' = [proc EXCEPT ![p] = proc'[p]] /\ proc[p].cmd # "none" /\ proc[p].step # "done"
    /\ ProcInv(proc'[p]) /\ proc'[p].cmd = proc[p].cmd /\ (proc[p].sig => proc'[p].sig)
    /\ config'.exists \in BOOLEAN /\ (config.exists => config'.exists)
    /\ proc'[p].step \in Configured => config'.exists
    /\ proc[p].cmd = "status" =>
        /\ pid' = pid /\ config' = config
        /\ proc'[p].step = "done" =>
            \/ crashed' = crashed \cup {p}
            \/ (proc'[p].out = "connected") = (config.exists /\ pid # Nobody)
    /\ \/ /\ pid' = p /\ proc'[p].step = "wait" /\ crashed' = crashed
       \/ /\ pid' = Nobody /\ proc'[p].step = "done" /\ crashed' = crashed
          /\ proc[p].cmd = "down" \/ proc[p].step = "wait"
       \/ pid' = pid /\ proc'[p].step = "done" /\ crashed' = crashed \cup {p}
       \/ /\ pid' = pid /\ crashed' = crashed
          /\ proc'[p].step = "wait" <=> proc[p].step = "wait"

\* The end of a process.
LEMMA ExitWent ==
    ASSUME ProcsInv, NEW p \in Procs, ~C!Dead(p), NEW out, C!Exit(p, out),
           config'.exists \in BOOLEAN, config.exists => config'.exists,
           proc[p].cmd = "status" => config' = config,
           \/ pid' = pid /\ crashed' = crashed \cup {p}
           \/ /\ pid' = pid /\ crashed' = crashed /\ proc[p].step # "wait"
              /\ proc[p].cmd # "status"
           \/ /\ pid' = Nobody /\ crashed' = crashed
              /\ proc[p].cmd = "down" \/ (proc[p].cmd = "up" /\ proc[p].step = "wait")
    PROVE  Went(p)
<1> DEFINE r == proc[p]
<1>1. ProcInv(r) /\ r.cmd # "none" /\ r.step # "done"
  BY DEF ProcsInv, ProcInv, C!Dead
<1>2. proc' = [proc EXCEPT ![p] = [r EXCEPT !.step = "done", !.out = out]]
  BY DEF C!Exit
<1>3. proc'[p] = [r EXCEPT !.step = "done", !.out = out] /\ proc' = [proc EXCEPT ![p] = proc'[p]]
  BY <1>2 DEF ProcsInv
<1>4. /\ ProcInv(proc'[p]) /\ proc'[p].cmd = r.cmd /\ proc'[p].step = "done"
      /\ proc'[p].sig = r.sig
  BY <1>1, <1>3 DEF ProcInv, Fields
<1> HIDE DEF r
<1> QED
  BY <1>1, <1>3, <1>4 DEF Went, Configured, UpSteps, r

\* A process that goes on, with other things of it changed or not.
LEMMA OnWent ==
    ASSUME ProcsInv, NEW p \in Procs, ~C!Dead(p), NEW r,
           proc' = [proc EXCEPT ![p] = r], DOMAIN r = Fields, r = [f \in Fields |-> r[f]],
           r.cmd = proc[p].cmd, r.sig = proc[p].sig, ProcInv(r),
           config'.exists \in BOOLEAN, config.exists => config'.exists,
           r.step \in Configured => config'.exists,
           r.step # "done",
           proc[p].cmd = "status" => config' = config /\ pid' = pid,
           crashed' = crashed,
           \/ pid' = pid /\ (r.step = "wait" <=> proc[p].step = "wait")
           \/ pid' = p /\ r.step = "wait"
    PROVE  Went(p)
<1>1. proc'[p] = r
  BY DEF ProcsInv
<1>2. proc[p].cmd # "none" /\ proc[p].step # "done"
  BY DEF ProcsInv, ProcInv, C!Dead
<1> QED
  BY <1>1, <1>2 DEF Went

\* Whatever a process does by itself, and whatever the servers answer.
LEMMA StepWent == ASSUME ProcsInv, NEW p \in Procs, C!Step(p) PROVE Went(p)
<1> DEFINE r == proc[p]
<1>0. ProcInv(r) /\ (r.step \in Configured => config.exists) /\ config.exists \in BOOLEAN
  BY DEF ProcsInv
<1>t. \A s : LET n == [r EXCEPT !.step = s]
             IN  /\ DOMAIN n = Fields /\ n = [f \in Fields |-> n[f]] /\ n.step = s
                 /\ n.cmd = r.cmd /\ n.sig = r.sig
  BY <1>0 DEF ProcInv, Fields
<1> USE DEF C!files, C!world, C!history
<1>1. CASE C!LoadConfig(p)
  <2>1. r.cmd = "up" /\ r.step = "loadConfig" /\ ~C!Dead(p)
    BY <1>1 DEF C!LoadConfig, C!Dead
  <2>2. CASE proc[p].server \/ config.server
    <3> DEFINE n == [r EXCEPT !.step = "loadKey", !.server = TRUE]
    <3>1. proc' = [proc EXCEPT ![p] = n]
      BY <1>1, <2>2 DEF C!LoadConfig
    <3>2. /\ DOMAIN n = Fields /\ n = [f \in Fields |-> n[f]] /\ n.step = "loadKey"
          /\ n.cmd = r.cmd /\ n.sig = r.sig
      BY <1>0 DEF ProcInv, Fields
    <3> HIDE DEF n
    <3>3. ProcInv(n) /\ n.step \notin Configured
      BY <1>0, <2>1, <3>2 DEF ProcInv, KeySteps, Configured, UpSteps
    <3> QED
      BY <1>0, <1>1, <2>1, <3>1, <3>2, <3>3, OnWent DEF C!LoadConfig
  <2>3. CASE ~(proc[p].server \/ config.server)
    <3> DEFINE race == config = C!EmptyConfig /\ \E q \in Procs : proc[q].step = "fillConfig"
               n == [r EXCEPT !.step = "done", !.out = "not registered", !.cfgRace = race]
    <3>1. proc' = [proc EXCEPT ![p] = n]
      BY <1>1, <2>3 DEF C!LoadConfig
    <3> HIDE DEF race
    <3>2. /\ DOMAIN n = Fields /\ n = [f \in Fields |-> n[f]] /\ n.step = "done"
          /\ n.cmd = r.cmd /\ n.sig = r.sig
      BY <1>0 DEF ProcInv, Fields
    <3> HIDE DEF n
    <3>3. ProcInv(n)
      BY <1>0, <2>1, <3>2 DEF ProcInv
    <3>4. proc'[p] = n
      BY <3>1 DEF ProcsInv
    <3> QED
      BY <1>0, <1>1, <2>1, <3>1, <3>2, <3>3, <3>4 DEF Went, C!LoadConfig, Configured, UpSteps
  <2> QED
    BY <2>2, <2>3
<1>2. CASE C!LoadKey(p)
  <2>1. r.step = "loadKey" /\ r.cmd \in {"register", "up"} /\ ~C!Dead(p)
    BY <1>0, <1>2 DEF C!LoadKey, C!Dead, ProcInv
  <2>2. PICK n :
          /\ proc' = [proc EXCEPT ![p] = n] /\ n.step \in {"server", "loadKey", "emptyKey"}
          /\ n.cmd = r.cmd /\ n.sig = r.sig
          /\ DOMAIN n = Fields /\ n = [f \in Fields |-> n[f]]
    <3>3. C!AfterKey(p) \in {"server", "loadKey"}
      BY DEF C!AfterKey
    <3>4. CASE keyFile[r.at] # 0
      <4> DEFINE n == [r EXCEPT !.step = C!AfterKey(p), !.at = r.at + 1,
                                !.keys = Append(r.keys, keyFile[r.at])]
      <4>1. proc' = [proc EXCEPT ![p] = n]
        BY <1>2, <3>4 DEF C!LoadKey
      <4>2. /\ DOMAIN n = Fields /\ n = [f \in Fields |-> n[f]] /\ n.step = C!AfterKey(p)
            /\ n.cmd = r.cmd /\ n.sig = r.sig
        BY <1>0 DEF ProcInv, Fields
      <4> HIDE DEF n
      <4> QED
        BY <3>3, <4>1, <4>2
    <3>5. CASE keyFile[r.at] = 0
      <4> DEFINE n == [r EXCEPT !.step = "emptyKey", !.keys = Append(r.keys, keys')]
      <4>1. proc' = [proc EXCEPT ![p] = n]
        BY <1>2, <3>5 DEF C!LoadKey
      <4>2. /\ DOMAIN n = Fields /\ n = [f \in Fields |-> n[f]] /\ n.step = "emptyKey"
            /\ n.cmd = r.cmd /\ n.sig = r.sig
        BY <1>0 DEF ProcInv, Fields
      <4> HIDE DEF n
      <4> QED
        BY <4>1, <4>2
    <3> QED
      BY <3>4, <3>5
  <2>3. ProcInv(n) /\ n.step \notin Configured /\ n.step # "done" /\ n.step # "wait"
    BY <1>0, <2>1, <2>2 DEF ProcInv, KeySteps, Configured, UpSteps
  <2> QED
    BY <1>0, <1>2, <2>1, <2>2, <2>3, OnWent DEF C!LoadKey
<1>3. CASE C!EmptyKey(p)
  <2>1. r.step = "emptyKey" /\ r.cmd \in {"register", "up"} /\ ~C!Dead(p)
    BY <1>0, <1>3 DEF C!EmptyKey, C!Dead, ProcInv, UpSteps
  <2> DEFINE n == [r EXCEPT !.step = "fillKey"]
  <2>2. proc' = [proc EXCEPT ![p] = n]
    BY <1>3 DEF C!EmptyKey, C!Goto
  <2> HIDE DEF n
  <2>3. /\ DOMAIN n = Fields /\ n = [f \in Fields |-> n[f]] /\ n.step = "fillKey"
        /\ n.cmd = r.cmd /\ n.sig = r.sig
    BY <1>t DEF n
  <2>4. ProcInv(n) /\ n.step \notin Configured
    BY <1>0, <2>1, <2>3 DEF ProcInv, KeySteps, Configured, UpSteps
  <2> QED
    BY <1>0, <1>3, <2>1, <2>2, <2>3, <2>4, OnWent DEF C!EmptyKey
<1>4. CASE C!FillKey(p)
  <2>1. r.step = "fillKey" /\ r.cmd \in {"register", "up"} /\ ~C!Dead(p)
    BY <1>0, <1>4 DEF C!FillKey, C!Dead, ProcInv, UpSteps
  <2> DEFINE n == [r EXCEPT !.step = C!AfterKey(p), !.at = r.at + 1]
  <2>2. proc' = [proc EXCEPT ![p] = n]
    BY <1>4 DEF C!FillKey
  <2>3. /\ DOMAIN n = Fields /\ n = [f \in Fields |-> n[f]] /\ n.step = C!AfterKey(p)
        /\ n.cmd = r.cmd /\ n.sig = r.sig
    BY <1>0 DEF ProcInv, Fields
  <2> HIDE DEF n
  <2>4. n.step \in {"server", "loadKey"}
    BY <2>3 DEF C!AfterKey
  <2>5. ProcInv(n) /\ n.step \notin Configured
    BY <1>0, <2>1, <2>3, <2>4 DEF ProcInv, KeySteps, Configured, UpSteps
  <2> QED
    BY <1>0, <1>4, <2>1, <2>2, <2>3, <2>4, <2>5, OnWent DEF C!FillKey
<1>5. CASE C!AskServer(p)
  <2>1. r.step = "server" /\ r.cmd \in {"register", "up"} /\ ~C!Dead(p)
    BY <1>0, <1>5 DEF C!AskServer, C!Dead, ProcInv
  <2>2. config' = config /\ pid' = pid /\ crashed' = crashed
    BY <1>5 DEF C!AskServer
  <2>3. ASSUME C!Exit(p, "failed") PROVE Went(p)
    BY <1>0, <2>1, <2>2, <2>3, ExitWent
  <2>4. ASSUME NEW n, proc' = [proc EXCEPT ![p] = n], n.step = "emptyConfig",
               n.cmd = r.cmd, n.sig = r.sig, DOMAIN n = Fields, n = [f \in Fields |-> n[f]]
        PROVE  Went(p)
    <3>1. ProcInv(n) /\ n.step \notin Configured
      BY <1>0, <2>1, <2>4 DEF ProcInv, KeySteps, Configured, UpSteps
    <3> QED
      BY <1>0, <2>1, <2>2, <2>4, <3>1, OnWent
  <2>5. ASSUME C!Goto(p, "emptyConfig") PROVE Went(p)
    <3> DEFINE n == [r EXCEPT !.step = "emptyConfig"]
    <3>1. proc' = [proc EXCEPT ![p] = n]
      BY <2>5 DEF C!Goto
    <3> HIDE DEF n
    <3>2. /\ DOMAIN n = Fields /\ n = [f \in Fields |-> n[f]] /\ n.step = "emptyConfig"
          /\ n.cmd = r.cmd /\ n.sig = r.sig
      BY <1>t DEF n
    <3> QED
      BY <2>4, <3>1, <3>2
  <2>6. ASSUME NEW ip \in BOOLEAN,
               proc' = [proc EXCEPT ![p].step = "emptyConfig", ![p].ip = ip]
        PROVE  Went(p)
    <3> DEFINE n == [r EXCEPT !.step = "emptyConfig", !.ip = ip]
    <3>1. proc' = [proc EXCEPT ![p] = n]
      BY <2>6
    <3>2. /\ DOMAIN n = Fields /\ n = [f \in Fields |-> n[f]] /\ n.step = "emptyConfig"
          /\ n.cmd = r.cmd /\ n.sig = r.sig
      BY <1>0 DEF ProcInv, Fields
    <3> HIDE DEF n
    <3> QED
      BY <2>4, <3>1, <3>2
  <2> QED
    BY <1>5, <2>3, <2>5, <2>6 DEF C!AskServer
<1>6. CASE C!EmptyConfigFile(p)
  <2>1. r.step = "emptyConfig" /\ r.cmd \in {"register", "up"} /\ ~C!Dead(p)
    BY <1>0, <1>6 DEF C!EmptyConfigFile, C!Dead, ProcInv, UpSteps
  <2>2. config'.exists = TRUE
    BY <1>6 DEF C!EmptyConfigFile, C!EmptyConfig
  <2> DEFINE n == [r EXCEPT !.step = "fillConfig"]
  <2>3. proc' = [proc EXCEPT ![p] = n]
    BY <1>6 DEF C!EmptyConfigFile, C!Goto
  <2> HIDE DEF n
  <2>4. /\ DOMAIN n = Fields /\ n = [f \in Fields |-> n[f]] /\ n.step = "fillConfig"
        /\ n.cmd = r.cmd /\ n.sig = r.sig
    BY <1>t DEF n
  <2>5. ProcInv(n)
    BY <1>0, <2>1, <2>4 DEF ProcInv, KeySteps
  <2> QED
    BY <1>0, <1>6, <2>1, <2>2, <2>3, <2>4, <2>5, OnWent DEF C!EmptyConfigFile
<1>7. CASE C!FillConfig(p)
  <2>1. r.step = "fillConfig" /\ r.cmd \in {"register", "up"} /\ ~C!Dead(p)
    BY <1>0, <1>7 DEF C!FillConfig, C!Dead, ProcInv, UpSteps
  <2>2. config'.exists = TRUE /\ pid' = pid /\ crashed' = crashed
    BY <1>7 DEF C!FillConfig
  <2>3. CASE r.cmd = "register"
    <3>1. C!Exit(p, "registered")
      BY <1>7, <2>3 DEF C!FillConfig
    <3> QED
      BY <2>1, <2>2, <2>3, <3>1, ExitWent
  <2>4. CASE r.cmd = "up"
    <3> DEFINE n == [r EXCEPT !.step = "startWG"]
    <3>1. proc' = [proc EXCEPT ![p] = n]
      BY <1>7, <2>4 DEF C!FillConfig, C!Goto
    <3> HIDE DEF n
    <3>2. /\ DOMAIN n = Fields /\ n = [f \in Fields |-> n[f]] /\ n.step = "startWG"
          /\ n.cmd = r.cmd /\ n.sig = r.sig
      BY <1>t DEF n
    <3>3. ProcInv(n)
      BY <1>0, <2>1, <2>4, <3>2 DEF ProcInv, UpSteps
    <3> QED
      BY <2>1, <2>2, <2>4, <3>1, <3>2, <3>3, OnWent
  <2> QED
    BY <2>1, <2>3, <2>4
<1>8. CASE C!StartWG(p)
  <2>1. r.step = "startWG" /\ r.cmd = "up" /\ ~C!Dead(p)
    BY <1>0, <1>8 DEF C!StartWG, C!Dead, ProcInv, KeySteps
  <2> DEFINE n == [r EXCEPT !.step = "writePid", !.wg = TRUE]
  <2>2. proc' = [proc EXCEPT ![p] = n]
    BY <1>8 DEF C!StartWG
  <2>3. /\ DOMAIN n = Fields /\ n = [f \in Fields |-> n[f]] /\ n.step = "writePid"
        /\ n.cmd = r.cmd /\ n.sig = r.sig
    BY <1>0 DEF ProcInv, Fields
  <2> HIDE DEF n
  <2>4. ProcInv(n) /\ config.exists
    BY <1>0, <2>1, <2>3 DEF ProcInv, UpSteps, Configured
  <2> QED
    BY <1>0, <1>8, <2>1, <2>2, <2>3, <2>4, OnWent DEF C!StartWG
<1>9. CASE C!WGPanics(p)
  BY <1>0, <1>9, ExitWent DEF C!WGPanics
<1>10. CASE C!WritePid(p)
  <2>1. r.step = "writePid" /\ r.cmd = "up" /\ ~C!Dead(p)
    BY <1>0, <1>10 DEF C!WritePid, C!Dead, ProcInv, KeySteps
  <2> DEFINE n == [r EXCEPT !.step = "wait"]
  <2>2. proc' = [proc EXCEPT ![p] = n]
    BY <1>10 DEF C!WritePid, C!Goto
  <2> HIDE DEF n
  <2>3. /\ DOMAIN n = Fields /\ n = [f \in Fields |-> n[f]] /\ n.step = "wait"
        /\ n.cmd = r.cmd /\ n.sig = r.sig
    BY <1>t DEF n
  <2>4. ProcInv(n) /\ config.exists
    BY <1>0, <2>1, <2>3 DEF ProcInv, UpSteps, Configured
  <2> QED
    BY <1>0, <1>10, <2>1, <2>2, <2>3, <2>4, OnWent DEF C!WritePid
<1>11. CASE C!Leave(p)
  <2>1. r.step = "wait" /\ r.cmd = "up" /\ ~C!Dead(p)
    BY <1>0, <1>11 DEF C!Leave, C!Dead, ProcInv, KeySteps
  <2> QED
    BY <1>0, <1>11, <2>1, ExitWent DEF C!Leave
<1>12. CASE C!Down(p)
  <2> DEFINE n == [r EXCEPT !.step = "done", !.out = "disconnected", !.sawUp = C!Connected]
  <2>1. r.cmd = "down" /\ r.step = "loadConfig" /\ proc' = [proc EXCEPT ![p] = n]
    BY <1>12 DEF C!Down
  <2>2. /\ DOMAIN n = Fields /\ n = [f \in Fields |-> n[f]] /\ n.step = "done"
        /\ n.cmd = r.cmd /\ n.sig = r.sig
    BY <1>0 DEF ProcInv, Fields
  <2> HIDE DEF n
  <2>3. ProcInv(n) /\ proc'[p] = n
    BY <1>0, <2>1, <2>2 DEF ProcInv, ProcsInv
  <2> QED
    BY <1>0, <1>12, <2>1, <2>2, <2>3 DEF C!Down, Went, Configured, UpSteps
<1>13. CASE C!StatusConfig(p)
  <2>1. r.cmd = "status" /\ r.step = "loadConfig" /\ ~C!Dead(p)
    BY <1>13 DEF C!StatusConfig, C!Dead
  <2>2. CASE config.exists
    <3> DEFINE n == [r EXCEPT !.step = "stat", !.ip = config.ip]
    <3>1. proc' = [proc EXCEPT ![p] = n]
      BY <1>13, <2>2 DEF C!StatusConfig
    <3>2. /\ DOMAIN n = Fields /\ n = [f \in Fields |-> n[f]] /\ n.step = "stat"
          /\ n.cmd = r.cmd /\ n.sig = r.sig
      BY <1>0 DEF ProcInv, Fields
    <3> HIDE DEF n
    <3>3. ProcInv(n)
      BY <1>0, <2>1, <3>2 DEF ProcInv
    <3> QED
      BY <1>0, <1>13, <2>1, <2>2, <3>1, <3>2, <3>3, OnWent DEF C!StatusConfig
  <2>3. CASE ~config.exists
    <3> DEFINE n == [r EXCEPT !.step = "done", !.out = "not connected"]
    <3>1. proc' = [proc EXCEPT ![p] = n]
      BY <1>13, <2>3 DEF C!StatusConfig, C!Exit
    <3>2. /\ DOMAIN n = Fields /\ n = [f \in Fields |-> n[f]] /\ n.step = "done"
          /\ n.cmd = r.cmd /\ n.sig = r.sig /\ n.out = "not connected"
      BY <1>0 DEF ProcInv, Fields
    <3> HIDE DEF n
    <3>3. ProcInv(n) /\ proc'[p] = n
      BY <1>0, <2>1, <3>1, <3>2 DEF ProcInv, ProcsInv
    <3> QED
      BY <1>0, <1>13, <2>1, <2>3, <3>1, <3>2, <3>3 DEF C!StatusConfig, Went, Configured, UpSteps
  <2> QED
    BY <2>2, <2>3
<1>14. CASE C!StatusPid(p)
  <2>1. r.cmd = "status" /\ r.step = "stat" /\ config.exists
    BY <1>0, <1>14 DEF C!StatusPid, ProcInv, KeySteps, UpSteps, Configured
  <2> DEFINE o == IF pid = Nobody THEN "not connected" ELSE "connected"
             n == [r EXCEPT !.step = "done", !.out = o]
  <2>2. proc' = [proc EXCEPT ![p] = n]
    BY <1>14 DEF C!StatusPid, C!Exit
  <2> HIDE DEF o
  <2>3. /\ DOMAIN n = Fields /\ n = [f \in Fields |-> n[f]] /\ n.step = "done"
        /\ n.cmd = r.cmd /\ n.sig = r.sig /\ n.out = o
    BY <1>0 DEF ProcInv, Fields
  <2>4. (o = "connected") = (pid # Nobody)
    BY DEF o
  <2> HIDE DEF n
  <2>5. ProcInv(n) /\ proc'[p] = n
    BY <1>0, <2>1, <2>2, <2>3 DEF ProcInv, ProcsInv
  <2>6. (proc'[p].out = "connected") = (config.exists /\ pid # Nobody)
    BY <2>1, <2>3, <2>4, <2>5
  <2> QED
    BY <1>0, <1>14, <2>1, <2>2, <2>3, <2>5, <2>6 DEF C!StatusPid, Went, Configured, UpSteps
<1>15. CASE C!Serve(p)
  BY <1>0, <1>15 DEF C!Serve, ProcInv
<1> QED
  BY <1>1, <1>2, <1>3, <1>4, <1>5, <1>6, <1>7, <1>8, <1>9, <1>10, <1>11, <1>12, <1>13, <1>14,
     <1>15 DEF C!Step, C!Local

\* A process that is killed, by whomever.
LEMMA KillWent == ASSUME ProcsInv, NEW p \in Procs, C!Kill(p) PROVE Went(p)
<1>1. config'.exists \in BOOLEAN /\ config' = config
  BY DEF C!Kill, C!files, ProcsInv
<1> QED
  BY <1>1, ExitWent DEF C!Kill, C!files

\* An up that is told to stop.
LEMMA TermWent ==
    ASSUME ProcsInv, NEW p \in Procs, C!Term(p)
    PROVE  Went(p) /\ proc'[p].sig /\ proc'[p].step = proc[p].step
<1> DEFINE r == proc[p]
           n == [r EXCEPT !.sig = TRUE]
<1>0. ProcInv(r) /\ (r.step \in Configured => config.exists) /\ config.exists \in BOOLEAN
  BY DEF ProcsInv
<1>1. proc' = [proc EXCEPT ![p] = n]
  BY DEF C!Term
<1>2. /\ DOMAIN n = Fields /\ n = [f \in Fields |-> n[f]] /\ n.step = r.step
      /\ n.cmd = r.cmd /\ n.sig = TRUE
  BY <1>0 DEF ProcInv, Fields
<1> HIDE DEF n
<1>3. r.step \in {"writePid", "wait"} /\ r.cmd = "up" /\ config.exists
  BY <1>0 DEF C!Term, ProcInv, KeySteps, Configured, UpSteps
<1>4. ProcInv(n) /\ proc'[p] = n
  BY <1>0, <1>1, <1>2, <1>3 DEF ProcInv, ProcsInv
<1> QED
  BY <1>0, <1>1, <1>2, <1>3, <1>4 DEF Went, C!Term, C!files, C!history

\* A command that is started: a process of its own, and nothing else.
Started(p, cmd) ==
    /\ proc' = [proc EXCEPT ![p] = proc'[p]] /\ proc[p].cmd = "none" /\ proc[p].step = "unborn"
    /\ ProcInv(proc'[p]) /\ proc'[p].cmd = cmd /\ ~proc'[p].sig
    /\ proc'[p].step \in {"loadKey", "loadConfig"}
    /\ config' = config /\ pid' = pid /\ crashed' = crashed

\* A process that is started is Started.
LEMMA StartStarts ==
    ASSUME ProcsInv, NEW p \in Procs, NEW cmd \in {"register", "up", "down", "status"},
           Start(p, cmd)
    PROVE  Started(p, cmd)
<1> DEFINE n == [C!Unborn EXCEPT
                    !.cmd = cmd, !.server = ((cmd = "up") \/ cmd = "register"),
                    !.sawReg = regDone, !.sawUp = C!Connected,
                    !.step = IF cmd = "register" THEN "loadKey" ELSE "loadConfig"]
<1>1. proc[p].step = "unborn" /\ proc' = [proc EXCEPT ![p] = n]
  BY DEF Start, C!Run
<1>2. ProcInv(proc[p])
  BY DEF ProcsInv
<1>3. proc[p].cmd = "none"
  BY <1>1, <1>2 DEF ProcInv, KeySteps, UpSteps
<1>4. /\ DOMAIN n = Fields /\ n = [f \in Fields |-> n[f]] /\ n.cmd = cmd /\ n.sig = FALSE
      /\ n.step = IF cmd = "register" THEN "loadKey" ELSE "loadConfig"
  BY DEF C!Unborn, Fields
<1>5. proc'[p] = n
  BY <1>1 DEF ProcsInv
<1> HIDE DEF n
<1>6. ProcInv(n)
  BY <1>4 DEF ProcInv, KeySteps
<1> QED
  BY <1>1, <1>3, <1>4, <1>5, <1>6 DEF Started, Start, C!Run, C!files, C!history

\* The SIGTERM for a process.
LEMMA SigtermStops ==
    ASSUME ProcsInv, NEW p \in Procs \cup {Nobody}, Sigterm(p)
    PROVE  \/ UNCHANGED commands /\ (p = Nobody \/ proc[p].step = "done" \/ proc[p].sig)
           \/ p \in Procs /\ Went(p) /\ (proc'[p].sig \/ proc'[p].step = "done")
<1>1. CASE p = Nobody \/ Ended(p) \/ proc[p].sig
  BY <1>1 DEF Sigterm, Ended
<1>2. CASE ~(p = Nobody \/ Ended(p) \/ proc[p].sig)
  <2>1. p \in Procs /\ (C!Term(p) \/ C!Kill(p))
    BY <1>2 DEF Sigterm
  <2>2. ASSUME C!Kill(p) PROVE proc'[p].step = "done"
    <3>1. ProcInv(proc[p])
      BY <2>1 DEF ProcsInv
    <3>2. [proc[p] EXCEPT !.step = "done", !.out = "killed"].step = "done"
      BY <3>1 DEF ProcInv, Fields
    <3>3. proc' = [proc EXCEPT ![p] = [proc[p] EXCEPT !.step = "done", !.out = "killed"]]
      BY <2>2 DEF C!Kill, C!Exit
    <3> QED
      BY <2>1, <3>2, <3>3 DEF ProcsInv
  <2> QED
    BY <2>1, <2>2, KillWent, TermWent
<1> QED
  BY <1>1, <1>2

\* The other processes.
LEMMA Others ==
    ASSUME ProcsInv, NEW p \in Procs, proc' = [proc EXCEPT ![p] = proc'[p]]
    PROVE  \A q \in Procs : q # p => proc'[q] = proc[q]
BY DEF ProcsInv

\* Commands are what they were started as.
Kept == \A p \in Procs : proc[p].cmd # "none" => proc'[p].cmd = proc[p].cmd

\* A command that Went keeps the invariants of the processes.
LEMMA WentKeeps == ASSUME ProcsInv, NEW p \in Procs, Went(p) PROVE ProcsInv' /\ Kept
<1>1. proc' = [q \in Procs |-> proc'[q]] /\ \A q \in Procs \ {p} : proc'[q] = proc[q]
  BY DEF ProcsInv, Went
<1> QED
  BY <1>1 DEF ProcsInv, Went, Kept

\* So does one that is started,
LEMMA StartedKeeps ==
    ASSUME ProcsInv, NEW p \in Procs, NEW cmd, Started(p, cmd) PROVE ProcsInv' /\ Kept
<1>1. proc' = [q \in Procs |-> proc'[q]] /\ \A q \in Procs \ {p} : proc'[q] = proc[q]
  BY DEF ProcsInv, Started
<1> QED
  BY <1>1 DEF ProcsInv, Started, Kept, Configured, UpSteps

\* and a step of no command.
LEMMA StillKeeps == ASSUME ProcsInv, UNCHANGED commands PROVE ProcsInv' /\ Kept
BY DEF ProcsInv, Kept, commands

-----------------------------------------------------------------------------
(* Steps of the application *)

\* What a step of all that there is can be.
LEMMA Cases ==
    ASSUME [Next]_vars
    PROVE  \/ UNCHANGED vars \/ ConnectFailed \/ ShowConnected \/ DownEnded
           \/ \E p \in Procs : \/ StartUp(p) \/ PressConnect(p) \/ PressDisconnect(p)
                               \/ Child(p)
           \/ \E r \in Refreshes : \/ RefreshEnded(r) \/ \E p \in Procs : PressRefresh(r, p)
BY DEF Next, App

(***************************************************************************)
(* The application waits for a register or a down, which is the only one   *)
(* that runs; and it keeps an up, and per refresh a status.                *)
(***************************************************************************)
AppType ==
    /\ flow \in {"idle", "register", "started", "down"}
    /\ waits \in Procs \cup {Nobody} /\ child \in Procs \cup {Nobody}
    /\ refresh \in [Refreshes -> Procs \cup {Nobody}] /\ quiet \in [Refreshes -> BOOLEAN]
    /\ connected \in BOOLEAN /\ lost \subseteq Procs /\ overlap \in BOOLEAN
WaitInv ==
    /\ flow \in {"register", "down"} => waits \in Procs /\ proc[waits].cmd = flow
    /\ \A p \in Procs : proc[p].cmd \in {"register", "down"} /\ proc[p].step # "done" =>
            flow = proc[p].cmd /\ waits = p
HoldInv ==
    /\ child # Nobody => proc[child].cmd = "up"
    /\ \A r \in Refreshes : refresh[r] # Nobody => proc[refresh[r]].cmd = "status"

AppInv == AppType /\ WaitInv /\ HoldInv

\* What it is to the commands.
LEMMA AllKeep ==
    ASSUME ProcsInv, AppInv, [Next]_vars PROVE ProcsInv' /\ Kept
<1>1. CASE UNCHANGED commands
  BY <1>1, StillKeeps
<1>2. ASSUME NEW p \in Procs, NEW cmd \in {"register", "up", "down", "status"}, Start(p, cmd)
      PROVE  ProcsInv' /\ Kept
  BY <1>2, StartStarts, StartedKeeps
<1>3. ASSUME NEW p \in Procs, Child(p) PROVE ProcsInv' /\ Kept
  BY <1>3, StepWent, KillWent, TermWent, WentKeeps DEF Child, C!Strike
<1>4. CASE DownEnded
  BY <1>1, <1>4, SigtermStops, WentKeeps DEF DownEnded, AppInv, AppType
<1> QED
  BY <1>1, <1>2, <1>3, <1>4, Cases DEF vars, ConnectFailed, ShowConnected, StartUp, PressConnect,
     PressDisconnect, RefreshEnded, PressRefresh

Base == ProcsInv /\ AppInv

\* The processes and the application begin well,
LEMMA BaseInit == Init => Base
<1> SUFFICES ASSUME Init PROVE Base
  OBVIOUS
<1>0. config.exists \in BOOLEAN
  <2>1. [C!EmptyConfig EXCEPT !.server = TRUE].exists = TRUE /\ C!NoConfig.exists = FALSE
    BY DEF C!EmptyConfig, C!NoConfig
  <2> QED
    BY <2>1 DEF Init, C!Init
<1>1. /\ proc = [p \in Procs |-> C!Unborn] /\ pid = Nobody /\ crashed = {}
      /\ config.exists \in BOOLEAN
  BY <1>0 DEF Init, C!Init
<1>2. C!Unborn.step = "unborn" /\ C!Unborn.cmd = "none"
  BY DEF C!Unborn
<1>3. ProcsInv
  BY <1>1, <1>2, UnbornProc DEF ProcsInv, Configured, UpSteps
<1>4. AppInv
  BY <1>1, <1>2 DEF Init, AppInv, AppType, WaitInv, HoldInv
<1> QED
  BY <1>3, <1>4 DEF Base

\* and every step of either keeps both well.
LEMMA BaseStep == Base /\ [Next]_vars => Base'
<1> SUFFICES ASSUME ProcsInv, AppInv, [Next]_vars PROVE AppInv'
  BY AllKeep DEF Base
<1> USE FlutterAppAssumption
<1>i. AppType /\ WaitInv /\ HoldInv
  BY DEF AppInv
<1>k. Kept
  BY AllKeep
<1> USE <1>i
<1>0. CASE UNCHANGED vars
  BY <1>0 DEF AppInv, AppType, WaitInv, HoldInv, vars, commands, app
<1>1. CASE ConnectFailed
  BY <1>1 DEF AppInv, AppType, WaitInv, HoldInv, ConnectFailed, commands, Ended
<1>2. ASSUME NEW p \in Procs, StartUp(p) PROVE AppInv'
  <2>1. Started(p, "up")
    BY <1>2, StartStarts DEF StartUp
  <2>2. \A q \in Procs : q # p => proc'[q] = proc[q]
    BY <2>1, Others DEF Started
  <2>3. proc[p].cmd = "none" /\ proc'[p].cmd = "up"
    BY <2>1 DEF Started
  <2>4. AppType'
    BY <1>2 DEF AppType, StartUp, Disturb
  <2>5. WaitInv'
    BY <1>2, <2>2, <2>3 DEF AppType, WaitInv, StartUp, Ended
  <2>6. HoldInv'
    BY <1>2, <1>k, <2>3 DEF AppType, HoldInv, StartUp, Kept
  <2> QED
    BY <2>4, <2>5, <2>6 DEF AppInv
<1>3. CASE ShowConnected
  BY <1>3 DEF AppInv, AppType, WaitInv, HoldInv, ShowConnected, commands
<1>4. CASE DownEnded
  <2>1. \/ UNCHANGED commands
        \/ child \in Procs /\ Went(child)
    BY <1>4, SigtermStops DEF DownEnded, AppType
  <2>2. \A p \in Procs : proc'[p] = proc[p] \/ p = child
    BY <2>1, Others DEF commands, Went
  <2>3. child \in Procs => proc[child].cmd = "up" /\ proc'[child].cmd = "up"
    BY <1>k DEF HoldInv, Kept
  <2>4. AppType'
    BY <1>4 DEF AppType, DownEnded
  <2>5. WaitInv'
    BY <1>4, <2>2, <2>3 DEF AppType, WaitInv, DownEnded, Ended
  <2>6. HoldInv'
    BY <1>4, <1>k DEF AppType, HoldInv, DownEnded, Kept
  <2> QED
    BY <2>4, <2>5, <2>6 DEF AppInv
<1>5. ASSUME NEW p \in Procs, PressConnect(p) PROVE AppInv'
  <2>1. Started(p, "register")
    BY <1>5, StartStarts DEF PressConnect
  <2>2. \A q \in Procs : q # p => proc'[q] = proc[q]
    BY <2>1, Others DEF Started
  <2>3. proc[p].cmd = "none" /\ proc'[p].cmd = "register"
    BY <2>1 DEF Started
  <2>4. AppType'
    BY <1>5 DEF AppType, PressConnect, Disturb
  <2>5. WaitInv'
    BY <1>5, <2>2, <2>3 DEF AppType, WaitInv, PressConnect, Ended
  <2>6. HoldInv'
    BY <1>5, <1>k, <2>3 DEF AppType, HoldInv, PressConnect, Kept
  <2> QED
    BY <2>4, <2>5, <2>6 DEF AppInv
<1>6. ASSUME NEW p \in Procs, PressDisconnect(p) PROVE AppInv'
  <2>1. Started(p, "down")
    BY <1>6, StartStarts DEF PressDisconnect
  <2>2. \A q \in Procs : q # p => proc'[q] = proc[q]
    BY <2>1, Others DEF Started
  <2>3. proc[p].cmd = "none" /\ proc'[p].cmd = "down"
    BY <2>1 DEF Started
  <2>4. AppType'
    BY <1>6 DEF AppType, PressDisconnect, Disturb
  <2>5. WaitInv'
    BY <1>6, <2>2, <2>3 DEF AppType, WaitInv, PressDisconnect, Ended
  <2>6. HoldInv'
    BY <1>6, <1>k, <2>3 DEF AppType, HoldInv, PressDisconnect, Kept
  <2> QED
    BY <2>4, <2>5, <2>6 DEF AppInv
<1>7. ASSUME NEW p \in Procs, Child(p) PROVE AppInv'
  <2>1. Went(p)
    BY <1>7, StepWent, KillWent, TermWent DEF Child, C!Strike
  <2>2. /\ \A q \in Procs : q # p => proc'[q] = proc[q]
        /\ proc[p].step # "done" /\ proc'[p].cmd = proc[p].cmd
    BY <2>1, Others DEF Went
  <2>4. AppType'
    <3>1. quiet' \in [Refreshes -> BOOLEAN]
      BY <1>7 DEF AppType, Child
    <3> QED
      BY <1>7, <3>1 DEF AppType, Child
  <2>5. WaitInv'
    BY <1>7, <2>2 DEF AppType, WaitInv, Child
  <2>6. HoldInv'
    BY <1>7, <1>k DEF AppType, HoldInv, Child, Kept
  <2> QED
    BY <2>4, <2>5, <2>6 DEF AppInv
<1>8. ASSUME NEW r \in Refreshes, RefreshEnded(r) PROVE AppInv'
  <2>1. AppType'
    BY <1>8 DEF AppType, RefreshEnded
  <2> QED
    BY <1>8, <2>1 DEF AppInv, WaitInv, HoldInv, AppType, RefreshEnded, commands
<1>9. ASSUME NEW r \in Refreshes, NEW p \in Procs, PressRefresh(r, p) PROVE AppInv'
  <2>1. Started(p, "status")
    BY <1>9, StartStarts DEF PressRefresh
  <2>2. \A q \in Procs : q # p => proc'[q] = proc[q]
    BY <2>1, Others DEF Started
  <2>3. proc[p].cmd = "none" /\ proc'[p].cmd = "status"
    BY <2>1 DEF Started
  <2>4. AppType'
    BY <1>9 DEF AppType, PressRefresh, Still
  <2>5. WaitInv'
    BY <1>9, <2>2, <2>3 DEF AppType, WaitInv, PressRefresh, Ended
  <2>6. HoldInv'
    BY <1>9, <1>k, <2>3 DEF AppType, HoldInv, PressRefresh, Kept
  <2> QED
    BY <2>4, <2>5, <2>6 DEF AppInv
<1> QED
  BY <1>0, <1>1, <1>2, <1>3, <1>4, <1>5, <1>6, <1>7, <1>8, <1>9, Cases

(***************************************************************************)
(* The application waits for, and keeps, the commands that it means to.    *)
(***************************************************************************)
THEOREM TypeCorrect == Spec => []TypeOK
<1>1. Base => TypeOK
  BY DEF Base, AppInv, AppType, WaitInv, HoldInv, TypeOK
<1> QED
  BY <1>1, BaseInit, BaseStep, PTL DEF Spec

-----------------------------------------------------------------------------
(* Whose up it is *)

\* An up that runs is the child or is told to stop, but for those that were lost.
Held == \A p \in Ups : p = child \/ proc[p].sig
OrphanInv == \A p \in Ups \ lost : p = child \/ proc[p].sig

\* Without overlap there is one up at most, and it is held.
OneInv == ~overlap => Held /\ \A p, q \in Ups : p = q

\* An up that runs after a step ran before it, and still has its signal.
LEMMA UpsWent ==
    ASSUME ProcsInv, NEW p \in Procs, Went(p)
    PROVE  \A q \in Procs : q \in Ups' => q \in Ups /\ (proc[q].sig => proc'[q].sig)
<1>1. \A q \in Procs : q # p => proc'[q] = proc[q]
  BY Others DEF Went
<1>2. proc'[p].cmd = proc[p].cmd /\ (proc[p].sig => proc'[p].sig)
  BY DEF Went
<1>3. proc[p].cmd = "up" => proc[p].step \notin {"unborn", "done"}
  BY DEF Went, ProcsInv, ProcInv, KeySteps, UpSteps
<1> QED
  BY <1>1, <1>2, <1>3 DEF Ups, C!Dead

\* An up that is started is one more.
LEMMA UpStarted ==
    ASSUME ProcsInv, NEW p \in Procs, Started(p, "up")
    PROVE  \A q \in Procs : q \in Ups' => (q \in Ups /\ proc'[q] = proc[q]) \/ q = p
<1>1. \A q \in Procs : q # p => proc'[q] = proc[q]
  BY Others DEF Started
<1> QED
  BY <1>1 DEF Ups, C!Dead

\* The start of another command makes no up.
LEMMA NoUpStarted ==
    ASSUME ProcsInv, NEW p \in Procs, NEW cmd \in {"register", "down", "status"}, Started(p, cmd)
    PROVE  \A q \in Procs : q \in Ups' => q \in Ups /\ proc'[q] = proc[q]
<1>1. \A q \in Procs : q # p => proc'[q] = proc[q]
  BY Others DEF Started
<1>2. proc'[p].cmd # "up"
  BY DEF Started
<1> QED
  BY <1>1, <1>2 DEF Ups, C!Dead

\* Nor does a step that no command takes part in.
LEMMA UpsStill == ASSUME UNCHANGED commands PROVE Ups' = Ups /\ proc' = proc
BY DEF Ups, C!Dead, commands

\* At first no up runs, so that every one is held.
LEMMA HeldInit == Init => OrphanInv /\ OneInv
<1> SUFFICES ASSUME Init PROVE Ups = {} /\ child = Nobody
  BY DEF OrphanInv, OneInv, Held
<1>1. \A p \in Procs : proc[p].cmd = "none"
  BY DEF Init, C!Init, C!Unborn
<1> QED
  BY <1>1 DEF Init, Ups

\* A step that starts an up makes it the child, and one that lets the child go has
\* stopped it: every other step only ends ups.
LEMMA HeldStep == Base /\ OrphanInv /\ OneInv /\ [Next]_vars => OrphanInv' /\ OneInv'
<1> SUFFICES ASSUME ProcsInv, AppInv, OrphanInv, OneInv, [Next]_vars PROVE OrphanInv' /\ OneInv'
  BY DEF Base
<1> USE FlutterAppAssumption
<1>i. AppType
  BY DEF AppInv
<1>u. Ups \subseteq Procs /\ Ups' \subseteq Procs
  BY DEF Ups
<1>0. CASE UNCHANGED vars
  BY <1>0, UpsStill DEF OrphanInv, OneInv, Held, vars, app
<1>1. CASE ConnectFailed
  BY <1>1, UpsStill DEF OrphanInv, OneInv, Held, ConnectFailed
<1>2. ASSUME NEW p \in Procs, StartUp(p) PROVE OrphanInv' /\ OneInv'
  <2>1. Started(p, "up")
    BY <1>2, StartStarts DEF StartUp
  <2>2. \A q \in Ups' : (q \in Ups /\ proc'[q] = proc[q]) \/ q = p
    BY <1>u, <2>1, UpStarted
  <2>3. /\ child' = p /\ flow' = "started" /\ lost' = lost \cup ({child} \ {Nobody})
        /\ overlap' = (overlap \/ Ups # {})
    BY <1>2 DEF StartUp
  <2>4. Nobody \notin Ups
    BY <1>u
  <2>5. OrphanInv'
    BY <2>2, <2>3, <2>4, <1>u DEF OrphanInv, Held
  <2>6. OneInv'
    BY <2>2, <2>3, <1>i DEF OneInv, Held, AppType
  <2> QED
    BY <2>5, <2>6
<1>3. CASE ShowConnected
  BY <1>3, UpsStill DEF OrphanInv, OneInv, Held, ShowConnected
<1>4. CASE DownEnded
  <2>1. /\ flow' = "idle" /\ lost' = lost /\ overlap' = overlap
    BY <1>4 DEF DownEnded
  <2>2. ASSUME UNCHANGED commands, child = Nobody \/ proc[child].step = "done" \/ proc[child].sig
        PROVE  OrphanInv' /\ OneInv'
    <3>1. \A p \in Ups : p = child => proc[p].sig
      BY <1>u, <2>2 DEF Ups, C!Dead
    <3> QED
      BY <1>u, <2>1, <2>2, <3>1, UpsStill DEF OrphanInv, OneInv, Held
  <2>3. ASSUME child \in Procs, Went(child), proc'[child].sig \/ proc'[child].step = "done"
        PROVE  OrphanInv' /\ OneInv'
    <3>1. \A q \in Ups' : q \in Ups /\ (proc[q].sig => proc'[q].sig)
      BY <1>u, <2>3, UpsWent
    <3>2. child \in Ups' => proc'[child].sig
      BY <2>3 DEF Ups, C!Dead
    <3> QED
      BY <1>u, <2>1, <3>1, <3>2 DEF OrphanInv, OneInv, Held
  <2> QED
    BY <1>4, <2>2, <2>3, SigtermStops, <1>i DEF DownEnded, AppType
<1>5. ASSUME NEW p \in Procs, PressConnect(p) PROVE OrphanInv' /\ OneInv'
  <2>1. Started(p, "register")
    BY <1>5, StartStarts DEF PressConnect
  <2>2. \A q \in Ups' : q \in Ups /\ proc'[q] = proc[q]
    BY <1>u, <2>1, NoUpStarted
  <2> QED
    BY <1>5, <1>u, <2>2 DEF OrphanInv, OneInv, Held, PressConnect
<1>6. ASSUME NEW p \in Procs, PressDisconnect(p) PROVE OrphanInv' /\ OneInv'
  <2>1. Started(p, "down")
    BY <1>6, StartStarts DEF PressDisconnect
  <2>2. \A q \in Ups' : q \in Ups /\ proc'[q] = proc[q]
    BY <1>u, <2>1, NoUpStarted
  <2> QED
    BY <1>6, <1>u, <2>2 DEF OrphanInv, OneInv, Held, PressDisconnect
<1>7. ASSUME NEW p \in Procs, Child(p) PROVE OrphanInv' /\ OneInv'
  <2>1. Went(p)
    BY <1>7, StepWent, KillWent, TermWent DEF Child, C!Strike
  <2>2. \A q \in Ups' : q \in Ups /\ (proc[q].sig => proc'[q].sig)
    BY <1>u, <2>1, UpsWent
  <2> QED
    BY <1>7, <1>u, <2>2 DEF OrphanInv, OneInv, Held, Child
<1>8. ASSUME NEW r \in Refreshes, RefreshEnded(r) PROVE OrphanInv' /\ OneInv'
  BY <1>8, UpsStill DEF OrphanInv, OneInv, Held, RefreshEnded
<1>9. ASSUME NEW r \in Refreshes, NEW p \in Procs, PressRefresh(r, p) PROVE OrphanInv' /\ OneInv'
  <2>1. Started(p, "status")
    BY <1>9, StartStarts DEF PressRefresh
  <2>2. \A q \in Ups' : q \in Ups /\ proc'[q] = proc[q]
    BY <1>u, <2>1, NoUpStarted
  <2> QED
    BY <1>9, <1>u, <2>2 DEF OrphanInv, OneInv, Held, PressRefresh
<1> QED
  BY <1>0, <1>1, <1>2, <1>3, <1>4, <1>5, <1>6, <1>7, <1>8, <1>9, Cases

(***************************************************************************)
(* An up that runs is one that the application can stop or has stopped,    *)
(* unless a later connect put its own in its place.                        *)
(***************************************************************************)
THEOREM NoOrphanCorrect == Spec => []NoOrphan
<1>1. OrphanInv => NoOrphan
  BY DEF OrphanInv, NoOrphan
<1> QED
  BY <1>1, BaseInit, BaseStep, HeldInit, HeldStep, PTL DEF Spec

-----------------------------------------------------------------------------
(* What the pid file and status tell *)

(***************************************************************************)
(* The pid file names an up that is connected, or a process that died; and *)
(* without deaths and overlap whoever is connected is named by it, is told *)
(* to stop, or is about to be.                                             *)
(***************************************************************************)
PidInv ==
    /\ pid # Nobody => pid \in C!Connected \cup crashed
    /\ crashed = {} /\ ~overlap =>
            \A p \in C!Connected : pid = p \/ proc[p].sig \/ flow = "down"

\* Who is connected is an up that runs.
LEMMA ConnectedUps == ASSUME ProcsInv PROVE C!Connected \subseteq Ups
BY DEF ProcsInv, ProcInv, C!Connected, Ups, C!Dead, KeySteps

\* The start of a command changes neither pid file nor connections.
LEMMA ConnectedStarted ==
    ASSUME ProcsInv, NEW p \in Procs, NEW cmd, Started(p, cmd)
    PROVE  C!Connected' = C!Connected /\ \A q \in C!Connected : proc'[q] = proc[q]
<1>1. \A q \in Procs : q # p => proc'[q] = proc[q]
  BY Others DEF Started
<1>2. proc[p].step # "wait" /\ proc'[p].step # "wait"
  BY DEF Started
<1> QED
  BY <1>1, <1>2 DEF C!Connected

\* The first part survives a step of a command.
LEMMA PidWent ==
    ASSUME ProcsInv, NEW p \in Procs, Went(p), pid # Nobody => pid \in C!Connected \cup crashed
    PROVE  pid' # Nobody => pid' \in C!Connected' \cup crashed'
<1>1. \A q \in Procs : q # p => proc'[q] = proc[q]
  BY Others DEF Went
<1>2. CASE pid' = p /\ proc'[p].step = "wait"
  BY <1>2 DEF C!Connected
<1>3. CASE pid' = Nobody
  BY <1>3
<1>4. CASE pid' = pid /\ crashed' = crashed \cup {p}
  BY <1>1, <1>4 DEF C!Connected
<1>5. CASE pid' = pid /\ crashed' = crashed /\ (proc'[p].step = "wait" <=> proc[p].step = "wait")
  BY <1>1, <1>5 DEF C!Connected
<1> QED
  BY <1>2, <1>3, <1>4, <1>5 DEF Went

\* At first there is neither a pid file nor a connection.
LEMMA PidInit == Init => PidInv
BY DEF Init, C!Init, C!Unborn, C!Connected, PidInv

\* The up that writes the file is the only one, and who removes it disconnects.
LEMMA PidStep == Base /\ OneInv /\ OneInv' /\ PidInv /\ [Next]_vars => PidInv'
<1> SUFFICES ASSUME ProcsInv, AppInv, OneInv, OneInv', PidInv, [Next]_vars PROVE PidInv'
  BY DEF Base
<1>i. AppType /\ WaitInv /\ HoldInv /\ ProcsInv'
  BY AllKeep DEF AppInv
<1>c. C!Connected \subseteq Ups /\ C!Connected' \subseteq Ups'
  <2>1. C!Connected' \subseteq Ups'
    BY <1>i DEF ProcsInv, ProcInv, C!Connected, Ups, C!Dead, KeySteps
  <2> QED
    BY <2>1, ConnectedUps
<1>s. ASSUME UNCHANGED commands, overlap' = overlap, flow # "down" \/ flow' = "down" PROVE PidInv'
  BY <1>s DEF PidInv, C!Connected, commands
<1>b. ASSUME NEW p \in Procs, NEW cmd, Started(p, cmd), overlap' = FALSE => overlap = FALSE,
             overlap' \in BOOLEAN, flow # "down" \/ flow' = "down"
      PROVE  PidInv'
  <2>1. C!Connected' = C!Connected /\ \A q \in C!Connected : proc'[q] = proc[q]
    BY <1>b, ConnectedStarted
  <2>2. pid' = pid /\ crashed' = crashed
    BY <1>b DEF Started
  <2> QED
    BY <1>b, <2>1, <2>2 DEF PidInv
<1>0. CASE UNCHANGED vars
  BY <1>0, <1>s DEF vars, app
<1>1. CASE ConnectFailed
  BY <1>1, <1>s DEF ConnectFailed
<1>2. ASSUME NEW p \in Procs, StartUp(p) PROVE PidInv'
  <2>1. Started(p, "up")
    BY <1>2, StartStarts DEF StartUp
  <2> QED
    BY <1>2, <2>1, <1>b, <1>i DEF StartUp, AppType
<1>3. CASE ShowConnected
  BY <1>3, <1>s DEF ShowConnected
<1>4. CASE DownEnded
  <2>1. pid' # Nobody => pid' \in C!Connected' \cup crashed'
    <3>1. CASE UNCHANGED commands
      BY <3>1 DEF PidInv, C!Connected, commands
    <3>2. CASE child \in Procs /\ Went(child)
      BY <3>2, PidWent DEF PidInv
    <3> QED
      BY <1>4, <1>i, <3>1, <3>2, SigtermStops DEF DownEnded, AppType
  <2>2. child' = Nobody /\ Nobody \notin Ups'
    BY <1>4, FlutterAppAssumption DEF DownEnded, Ups
  <2> QED
    BY <1>c, <2>1, <2>2 DEF PidInv, OneInv, Held
<1>5. ASSUME NEW p \in Procs, PressConnect(p) PROVE PidInv'
  <2>1. Started(p, "register")
    BY <1>5, StartStarts DEF PressConnect
  <2> QED
    BY <1>5, <2>1, <1>b, <1>i DEF PressConnect, AppType
<1>6. ASSUME NEW p \in Procs, PressDisconnect(p) PROVE PidInv'
  <2>1. Started(p, "down")
    BY <1>6, StartStarts DEF PressDisconnect
  <2> QED
    BY <1>6, <2>1, <1>b, <1>i DEF PressDisconnect, AppType
<1>7. ASSUME NEW p \in Procs, Child(p) PROVE PidInv'
  <2>1. Went(p) /\ flow' = flow /\ overlap' = overlap
    BY <1>7, StepWent, KillWent, TermWent DEF Child, C!Strike
  <2>2. pid' # Nobody => pid' \in C!Connected' \cup crashed'
    BY <2>1, PidWent DEF PidInv
  <2>3. ASSUME crashed' = {}, ~overlap, NEW q \in C!Connected'
        PROVE  pid' = q \/ proc'[q].sig \/ flow' = "down"
    <3>1. \A x \in Procs : x # p => proc'[x] = proc[x]
      BY <2>1, Others DEF Went
    <3>2. q \in Procs /\ proc'[q].step = "wait" /\ q \in Ups'
      BY <1>c, <2>3 DEF C!Connected
    <3>3. q # p => q \in C!Connected
      BY <3>1, <3>2 DEF C!Connected
    <3>4. CASE pid' = p /\ proc'[p].step = "wait"
      <4>1. p \in Ups'
        BY <1>c, <3>4 DEF C!Connected
      <4> QED
        BY <2>1, <2>3, <3>2, <3>4, <4>1 DEF OneInv
    <3>5. CASE proc'[p].step = "done" /\ proc[p].cmd = "down"
      BY <2>1, <3>5, <1>i DEF WaitInv, Went
    <3>6. CASE proc'[p].step = "done" /\ proc[p].step = "wait"
      <4>1. p \in C!Connected /\ q # p
        BY <3>2, <3>6 DEF C!Connected
      <4> QED
        BY <1>c, <2>3, <3>3, <4>1 DEF OneInv
    <3>7. CASE pid' = pid /\ crashed' = crashed /\ (proc'[p].step = "wait" <=> proc[p].step = "wait")
      <4>1. q \in C!Connected
        BY <3>2, <3>3, <3>7 DEF C!Connected
      <4>2. proc[q].sig => proc'[q].sig
        BY <2>1, <3>1, <3>2 DEF Went
      <4> QED
        BY <2>1, <2>3, <3>7, <4>1, <4>2 DEF PidInv
    <3> QED
      BY <2>1, <2>3, <3>4, <3>5, <3>6, <3>7 DEF Went
  <2> QED
    BY <2>1, <2>2, <2>3 DEF PidInv
<1>8. ASSUME NEW r \in Refreshes, RefreshEnded(r) PROVE PidInv'
  BY <1>8, <1>s DEF RefreshEnded
<1>9. ASSUME NEW r \in Refreshes, NEW p \in Procs, PressRefresh(r, p) PROVE PidInv'
  <2>1. Started(p, "status")
    BY <1>9, StartStarts DEF PressRefresh
  <2> QED
    BY <1>9, <2>1, <1>b, <1>i DEF PressRefresh, AppType
<1> QED
  BY <1>0, <1>1, <1>2, <1>3, <1>4, <1>5, <1>6, <1>7, <1>8, <1>9, Cases

(***************************************************************************)
(* While nothing else happens the application is idle, every up is         *)
(* connected or over, and status, once ended, has said whether there is a  *)
(* config and a pid file.                                                  *)
(***************************************************************************)
Quiet(r) ==
    /\ refresh[r] # Nobody /\ Still
    /\ proc[refresh[r]].step = "done" =>
            (proc[refresh[r]].out = "connected") = (config.exists /\ pid # Nobody)
QuietInv == crashed = {} => \A r \in Refreshes : quiet[r] => Quiet(r)

\* At first there is no refresh.
LEMMA QuietInit == Init => QuietInv
BY DEF Init, QuietInv

\* Where a status is started or goes on, all else stays settled.
LEMMA StillKept ==
    ASSUME ProcsInv, NEW p \in Procs, \A q \in Procs : q # p => proc'[q] = proc[q],
           proc'[p].cmd = "status", flow' = flow, Still
    PROVE  Still'
BY DEF Still, Unsettled

\* What a quiet refresh relies on stays so, or the refresh is not quiet any more.
LEMMA QuietStep == Base /\ QuietInv /\ [Next]_vars => QuietInv'
<1> SUFFICES ASSUME ProcsInv, AppInv, QuietInv, [Next]_vars, crashed' = {},
                    NEW x \in Refreshes, quiet'[x]
             PROVE  Quiet(x)'
  BY DEF Base, QuietInv
<1>i. AppType /\ WaitInv /\ HoldInv
  BY DEF AppInv
<1>c. crashed = {}
  <2>1. crashed \subseteq crashed'
    <3>1. ASSUME NEW p \in Procs, Went(p) PROVE crashed \subseteq crashed'
      BY <3>1 DEF Went
    <3>2. ASSUME NEW p \in Procs, NEW cmd \in {"register", "up", "down", "status"}, Start(p, cmd)
          PROVE  crashed' = crashed
      BY <3>2, StartStarts DEF Started
    <3>3. CASE UNCHANGED commands
      BY <3>3 DEF commands
    <3>4. CASE DownEnded
      BY <1>i, <3>1, <3>3, <3>4, SigtermStops DEF DownEnded, AppType
    <3>5. ASSUME NEW p \in Procs, Child(p) PROVE crashed \subseteq crashed'
      BY <3>1, <3>5, StepWent, KillWent, TermWent DEF Child, C!Strike
    <3> QED
      BY <3>2, <3>3, <3>4, <3>5, Cases DEF vars, ConnectFailed, ShowConnected, StartUp,
         PressConnect, PressDisconnect, RefreshEnded, PressRefresh
  <2> QED
    BY <2>1
<1>q. quiet[x] => Quiet(x)
  BY <1>c DEF QuietInv
<1>0. CASE UNCHANGED vars
  BY <1>0, <1>q DEF Quiet, Still, Unsettled, vars, commands, app
<1>1. CASE ConnectFailed \/ ShowConnected \/ DownEnded \/ \E p \in Procs : StartUp(p)
  BY <1>1, <1>q DEF Quiet, Still, ConnectFailed, ShowConnected, DownEnded, StartUp
<1>2. CASE \E p \in Procs : PressConnect(p) \/ PressDisconnect(p)
  BY <1>2 DEF PressConnect, PressDisconnect, Disturb
<1>3. ASSUME NEW p \in Procs, Child(p) PROVE Quiet(x)'
  <2>1. Went(p) /\ flow' = flow /\ refresh' = refresh
    BY <1>3, StepWent, KillWent, TermWent DEF Child, C!Strike
  <2>2. quiet[x] /\ proc[p].cmd = "status"
    BY <1>3 DEF Child
  <2>3. \A q \in Procs : q # p => proc'[q] = proc[q]
    BY <2>1, Others DEF Went
  <2>4. proc'[p].cmd = "status" /\ pid' = pid /\ config' = config
    BY <2>1, <2>2 DEF Went
  <2>5. Still'
    BY <1>q, <2>1, <2>2, <2>3, <2>4, StillKept DEF Quiet
  <2>6. refresh[x] \in Procs
    BY <1>i, <1>q, <2>2 DEF AppType, Quiet
  <2>7. ASSUME proc'[p].step = "done"
        PROVE  (proc'[p].out = "connected") = (config.exists /\ pid # Nobody)
    BY <2>1, <2>2, <2>7 DEF Went
  <2> QED
    BY <1>q, <2>1, <2>2, <2>3, <2>4, <2>5, <2>6, <2>7 DEF Quiet
<1>4. ASSUME NEW r \in Refreshes, RefreshEnded(r) PROVE Quiet(x)'
  <2>1. x # r /\ quiet[x] /\ refresh'[x] = refresh[x]
    BY <1>4, <1>i DEF RefreshEnded, AppType
  <2> QED
    BY <1>4, <1>q, <2>1 DEF Quiet, Still, Unsettled, RefreshEnded, commands
<1>5. ASSUME NEW r \in Refreshes, NEW p \in Procs, PressRefresh(r, p) PROVE Quiet(x)'
  <2>1. Started(p, "status") /\ flow' = flow
    BY <1>5, StartStarts DEF PressRefresh
  <2>2. \A q \in Procs : q # p => proc'[q] = proc[q]
    BY <2>1, Others DEF Started
  <2>3. /\ proc[p].cmd = "none" /\ proc'[p].cmd = "status" /\ proc'[p].step # "done"
        /\ pid' = pid /\ config' = config
    BY <2>1 DEF Started
  <2>4. CASE x = r
    <3>1. Still /\ refresh'[x] = p
      BY <1>5, <1>i, <2>4 DEF PressRefresh, AppType
    <3>2. Still'
      BY <2>1, <2>2, <2>3, <3>1, StillKept
    <3> QED
      BY <2>3, <3>1, <3>2, FlutterAppAssumption DEF Quiet
  <2>5. CASE x # r
    <3>1. quiet[x] /\ refresh'[x] = refresh[x]
      BY <1>5, <1>i, <2>5 DEF PressRefresh, AppType
    <3>2. refresh[x] \in Procs /\ proc[refresh[x]].cmd = "status"
      BY <1>i, <1>q, <3>1 DEF AppType, HoldInv, Quiet
    <3>3. refresh[x] # p /\ proc'[refresh[x]] = proc[refresh[x]]
      BY <2>2, <2>3, <3>2
    <3>4. Still'
      BY <1>q, <2>1, <2>2, <2>3, <3>1, StillKept DEF Quiet
    <3> QED
      BY <1>q, <2>3, <3>1, <3>3, <3>4 DEF Quiet
  <2> QED
    BY <2>4, <2>5
<1> QED
  BY <1>0, <1>1, <1>2, <1>3, <1>4, <1>5, Cases

\* A refresh that ends shows what status said.
TruthTold ==
    \A r \in Refreshes :
        refresh[r] # Nobody /\ refresh'[r] = Nobody /\ quiet[r] =>
            \/ connected' = (C!Connected # {})
            \/ overlap \/ crashed # {}

\* The refresh shows what status read, and that is who is connected, by PidInv.
LEMMA TruthStep == Base /\ PidInv /\ QuietInv /\ [Next]_vars => [TruthTold]_vars
<1> SUFFICES ASSUME ProcsInv, AppInv, PidInv, QuietInv, Next,
                    NEW r \in Refreshes, refresh[r] # Nobody, refresh'[r] = Nobody, quiet[r],
                    ~overlap, crashed = {}
             PROVE  connected' = (C!Connected # {})
  BY DEF Base, TruthTold
<1>1. AppType
  BY DEF AppInv
<1>2. RefreshEnded(r)
  BY <1>1, FlutterAppAssumption DEF Next, App, AppType, ConnectFailed, ShowConnected, StartUp,
     DownEnded, PressConnect, PressDisconnect, Child, PressRefresh, RefreshEnded
<1>3. Quiet(r)
  BY DEF QuietInv
<1>4. connected' = (config.exists /\ pid # Nobody)
  BY <1>2, <1>3 DEF Quiet, RefreshEnded, Ended
<1>5. ASSUME NEW p \in C!Connected PROVE config.exists /\ pid # Nobody
  <2>1. p \in Procs /\ proc[p].step = "wait" /\ proc[p].cmd # "status"
    BY DEF C!Connected, ProcsInv, ProcInv
  <2>2. config.exists
    BY <2>1 DEF ProcsInv, Configured, UpSteps
  <2>3. flow = "idle" /\ ~proc[p].sig
    BY <1>3, <2>1 DEF Quiet, Still, Unsettled
  <2> QED
    BY <2>1, <2>2, <2>3, FlutterAppAssumption DEF PidInv
<1>6. pid # Nobody => pid \in C!Connected
  BY DEF PidInv
<1> QED
  BY <1>4, <1>5, <1>6

(***************************************************************************)
(* A refresh that runs while nothing else happens shows whether an up is   *)
(* connected, for any number of connects, disconnects and other refreshes, *)
(* unless a process died or ups overlapped.                                *)
(***************************************************************************)
THEOREM RefreshTellsTruthCorrect == Spec => RefreshTellsTruth
<1>1. Spec => []Base /\ []OneInv
  BY BaseInit, BaseStep, HeldInit, HeldStep, PTL DEF Spec
<1>2. Spec => []PidInv
  BY <1>1, PidInit, PidStep, PTL DEF Spec
<1>3. Spec => []QuietInv
  BY <1>1, QuietInit, QuietStep, PTL DEF Spec
<1>4. Spec => [][TruthTold]_vars
  BY <1>1, <1>2, <1>3, TruthStep, PTL DEF Spec
<1> QED
  BY <1>4, PTL DEF TruthTold, RefreshTellsTruth
=============================================================================
