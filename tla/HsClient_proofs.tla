--------------------------- MODULE HsClient_proofs ---------------------------
(***************************************************************************)
(* Proofs about HsClient, for every set of processes, of commands and every*)
(* number of kills.                                                        *)
(***************************************************************************)
EXTENDS HsClient, TLAPS

Cmds == {"none", "register", "up", "down", "status", "serve"}
Making == {"emptyKey", "fillKey"}
Asking == {"server", "emptyConfig", "fillConfig", "startWG", "writePid", "wait"}
Steps == {"unborn", "loadConfig", "loadKey", "stat", "done"} \cup Making \cup Asking

Outs == {"none", "not registered", "failed", "registered", "panic", "killed",
         "disconnected", "not connected", "connected", "netstack not running"}

\* Processes as records.
ProcType ==
    [cmd : Cmds, step : Steps, at : 1 .. 3, keys : Seq(Nat), server : BOOLEAN,
     ip : BOOLEAN, wg : BOOLEAN, sig : BOOLEAN, out : Outs,
     sawReg : BOOLEAN, sawUp : SUBSET Procs, cfgRace : BOOLEAN]

\* How many keys a process has, by the step it is at.
Shape(r) ==
    /\ r.step \in Making => r.at \in {1, 2} /\ Len(r.keys) = r.at
    /\ r.step = "loadKey" => r.at \in {1, 2}
    /\ r.step \notin Making \cup {"done"} => Len(r.keys) = r.at - 1
    /\ r.step \in Asking => r.at = 3
    /\ r.step \in {"unborn", "loadConfig", "stat"} => r.at = 1

FileType ==
    /\ keyFile \in [1 .. 2 -> Nat]
    /\ config \in [exists : BOOLEAN, server : BOOLEAN, ip : BOOLEAN]
    /\ pid \in Procs \cup {Nobody}
WorldType ==
    /\ registered \subseteq {k \in Seq(Nat) : Len(k) = 2}
    /\ keys \in Nat /\ kills \in Nat
HistoryType ==
    /\ crashed \subseteq Procs
    /\ keyRace \in BOOLEAN /\ cfgCut \in BOOLEAN /\ regDone \in BOOLEAN
ProcsType ==
    /\ proc \in [Procs -> ProcType]
    /\ \A p \in Procs : Shape(proc[p])

TypeInv == ProcsType /\ FileType /\ WorldType /\ HistoryType

\* There are two key files.
LEMMA FilesLength == Len(KeyFiles) = 2
BY DEF KeyFiles

\* A process that has not started has the right type and shape.
LEMMA UnbornType == Unborn \in ProcType /\ Shape(Unborn)
<1>1. << >> \in Seq(Nat) /\ Len(<< >>) = 0
  OBVIOUS
<1>2. "none" \in Cmds /\ "none" \in Outs /\ "unborn" \in Steps /\ 1 \in 1 .. 3 /\ {} \in SUBSET Procs
  BY DEF Cmds, Outs, Steps
<1>4. Unborn \in ProcType
  BY <1>1, <1>2 DEF Unborn, ProcType
<1>3. Shape(Unborn)
  BY <1>1 DEF Unborn, Shape, Making, Asking
<1> QED
  BY <1>3, <1>4

\* The types hold when no process has started.
LEMMA TypeInit == Init => TypeInv
<1> SUFFICES ASSUME Init PROVE TypeInv
  OBVIOUS
<1>1. ProcsType
  BY UnbornType DEF Init, ProcsType
<1>2. FileType
  <2>1. NoConfig \in [exists : BOOLEAN, server : BOOLEAN, ip : BOOLEAN]
    BY DEF NoConfig
  <2>2. [EmptyConfig EXCEPT !.server = TRUE] \in [exists : BOOLEAN, server : BOOLEAN, ip : BOOLEAN]
    BY DEF EmptyConfig
  <2>3. keyFile \in [1 .. 2 -> Nat]
    <3>1. <<1, 2>> \in [1 .. 2 -> Nat] /\ <<0, 0>> \in [1 .. 2 -> Nat]
      OBVIOUS
    <3> QED
      BY <3>1 DEF Init
  <2> QED
    BY <2>1, <2>2, <2>3 DEF Init, FileType
<1>3. WorldType
  <2>1. {<<1, 2>>} \subseteq {k \in Seq(Nat) : Len(k) = 2}
    OBVIOUS
  <2>2. registered = {<<1, 2>>} \/ registered = {}
    BY DEF Init
  <2>3. keys \in Nat /\ kills \in Nat
    BY DEF Init
  <2> QED
    BY <2>1, <2>2, <2>3 DEF WorldType
<1>4. HistoryType
  BY HsClientAssumption DEF Init, HistoryType
<1> QED
  BY <1>1, <1>2, <1>3, <1>4 DEF TypeInv

(***************************************************************************)
(* A step that gives one process a record of the right type and shape      *)
(* keeps the types of all.                                                 *)
(***************************************************************************)
LEMMA OneProc ==
    ASSUME ProcsType, NEW p \in Procs, NEW r \in ProcType, Shape(r),
           proc' = [proc EXCEPT ![p] = r]
    PROVE  ProcsType'
BY DEF ProcsType

\* So does a step that moves one process on.
LEMMA GotoType ==
    ASSUME ProcsType, NEW p \in Procs, NEW s \in Steps, Goto(p, s),
           Shape([proc[p] EXCEPT !.step = s])
    PROVE  ProcsType'
<1>1. proc[p] \in ProcType
  BY DEF ProcsType
<1>2. [proc[p] EXCEPT !.step = s] \in ProcType
  BY <1>1 DEF ProcType
<1> QED
  BY <1>2, OneProc DEF Goto

\* So does the end of a process, whatever it has.
LEMMA ExitType ==
    ASSUME ProcsType, NEW p \in Procs, NEW o \in Outs, Exit(p, o)
    PROVE  ProcsType'
<1> DEFINE r == [proc[p] EXCEPT !.step = "done", !.out = o]
<1>1. proc[p] \in ProcType /\ "done" \in Steps
  BY DEF ProcsType, Steps
<1>2. r \in ProcType /\ r.step = "done"
  BY <1>1 DEF ProcType
<1>3. Shape(r)
  BY <1>2 DEF Shape, Making, Asking
<1> QED
  BY <1>2, <1>3, OneProc DEF Exit

\* A process that has all its keys may go on to any of the steps that need them.
LEMMA AskingType ==
    ASSUME ProcsType, NEW p \in Procs, proc[p].step \in Asking, NEW s \in Asking,
           Goto(p, s)
    PROVE  ProcsType'
<1>1. proc[p] \in ProcType /\ Shape(proc[p]) /\ s \in Steps
  BY DEF ProcsType, Steps
<1>2. Shape([proc[p] EXCEPT !.step = s])
  BY <1>1 DEF Shape, ProcType, Asking, Making
<1> QED
  BY <1>1, <1>2, GotoType

\* The cases of a step, for the proofs below.
LEMMA Cases ==
    ASSUME Next
    PROVE  \E p \in Procs :
        \/ \E cmd \in Commands, flag \in BOOLEAN : Run(p, cmd, flag)
        \/ LoadConfig(p) \/ LoadKey(p) \/ EmptyKey(p) \/ FillKey(p) \/ AskServer(p)
        \/ EmptyConfigFile(p) \/ FillConfig(p) \/ StartWG(p) \/ WGPanics(p)
        \/ WritePid(p) \/ Leave(p) \/ Down(p) \/ StatusConfig(p) \/ StatusPid(p)
        \/ Serve(p) \/ (kills' = kills + 1 /\ Kill(p)) \/ (kills' = kills + 1 /\ Term(p))
BY DEF Next, Step, Local, Strike

\* Every step keeps the types: one case per step of a process.
LEMMA TypeStep == TypeInv /\ [Next]_vars => TypeInv'
<1> SUFFICES ASSUME TypeInv, [Next]_vars PROVE TypeInv'
  OBVIOUS
<1> USE DEF TypeInv
<1>1. CASE UNCHANGED vars
  BY <1>1 DEF vars, ProcsType, FileType, WorldType, HistoryType
<1>2. CASE Next
  <2> PICK p \in Procs :
        \/ \E cmd \in Commands, flag \in BOOLEAN : Run(p, cmd, flag)
        \/ LoadConfig(p) \/ LoadKey(p) \/ EmptyKey(p) \/ FillKey(p) \/ AskServer(p)
        \/ EmptyConfigFile(p) \/ FillConfig(p) \/ StartWG(p) \/ WGPanics(p)
        \/ WritePid(p) \/ Leave(p) \/ Down(p) \/ StatusConfig(p) \/ StatusPid(p)
        \/ Serve(p) \/ (kills' = kills + 1 /\ Kill(p)) \/ (kills' = kills + 1 /\ Term(p))
    BY <1>2, Cases
  <2> DEFINE r == proc[p]
  <2>r. r \in ProcType /\ Shape(r)
    BY DEF ProcsType
  <2>o. Outs = {"none", "not registered", "failed", "registered", "panic", "killed",
                "disconnected", "not connected", "connected", "netstack not running"}
    BY DEF Outs
  <2>1. ASSUME NEW cmd \in Commands, NEW flag \in BOOLEAN, Run(p, cmd, flag)
        PROVE  TypeInv'
    <3> DEFINE s == IF cmd = "register" THEN "loadKey" ELSE "loadConfig"
               new == [Unborn EXCEPT !.cmd = cmd, !.server = (flag \/ cmd = "register"),
                          !.sawReg = regDone, !.sawUp = Connected, !.step = s]
    <3>1. /\ cmd \in Cmds /\ s \in Steps /\ Connected \in SUBSET Procs
          /\ regDone \in BOOLEAN /\ (flag \/ cmd = "register") \in BOOLEAN
      BY HsClientAssumption DEF Cmds, Steps, Connected, HistoryType
    <3>2. new \in ProcType
      BY <3>1, UnbornType DEF ProcType
    <3>3. Shape(new)
      BY <3>2 DEF Shape, Making, Asking, Unborn
    <3>4. ProcsType'
      BY <2>1, <3>2, <3>3, OneProc DEF Run
    <3> QED
      BY <2>1, <3>4 DEF Run, files, world, history, FileType, WorldType, HistoryType
  <2>2. CASE LoadConfig(p)
    <3> DEFINE race == config = EmptyConfig /\ \E q \in Procs : proc[q].step = "fillConfig"
               go == [r EXCEPT !.step = "loadKey", !.server = TRUE]
               stop == [r EXCEPT !.step = "done", !.out = "not registered", !.cfgRace = race]
    <3>1. "loadKey" \in Steps /\ "done" \in Steps /\ "not registered" \in Outs /\ race \in BOOLEAN
      BY <2>o DEF Steps
    <3>2. go \in ProcType /\ stop \in ProcType
      BY <2>r, <3>1 DEF ProcType
    <3>3. Shape(go) /\ Shape(stop)
      BY <2>r, <2>2 DEF Shape, Making, Asking, LoadConfig, ProcType
    <3>4. proc' = [proc EXCEPT ![p] = go] \/ proc' = [proc EXCEPT ![p] = stop]
      BY <2>2 DEF LoadConfig
    <3>5. ProcsType'
      BY <3>2, <3>3, <3>4, OneProc
    <3> QED
      BY <2>2, <3>5 DEF LoadConfig, files, world, history, FileType, WorldType, HistoryType
  <2>3. CASE LoadKey(p)
    <3> DEFINE old == [r EXCEPT !.step = AfterKey(p), !.at = @ + 1,
                                !.keys = Append(@, keyFile[r.at])]
               new == [r EXCEPT !.step = "emptyKey", !.keys = Append(@, keys')]
    <3>1. r.at \in {1, 2} /\ Len(r.keys) = r.at - 1 /\ r.keys \in Seq(Nat)
      BY <2>r, <2>3 DEF Shape, Making, Asking, LoadKey, ProcType
    <3>2. keyFile[r.at] \in Nat /\ keys + 1 \in Nat
      BY <3>1 DEF FileType, WorldType
    <3>3. \A k \in Nat : Append(r.keys, k) \in Seq(Nat) /\ Len(Append(r.keys, k)) = r.at
      BY <3>1
    <3>4. AfterKey(p) = IF r.at = 2 THEN "server" ELSE "loadKey"
      BY FilesLength DEF AfterKey
    <3>5. "server" \in Steps /\ "loadKey" \in Steps /\ "emptyKey" \in Steps
      BY DEF Steps, Making, Asking
    <3>6. ASSUME keyFile[r.at] # 0 PROVE ProcsType'
      <4>0. /\ AfterKey(p) \in Steps /\ r.at + 1 \in 1 .. 3
            /\ Append(r.keys, keyFile[r.at]) \in Seq(Nat)
        BY <3>1, <3>2, <3>3, <3>4, <3>5
      <4>1. old \in ProcType
        BY <2>r, <4>0 DEF ProcType
      <4>2. Shape(old)
        BY <2>r, <3>1, <3>2, <3>3, <3>4 DEF Shape, Making, Asking, ProcType
      <4>3. proc' = [proc EXCEPT ![p] = old]
        BY <2>3, <3>6 DEF LoadKey
      <4> HIDE DEF old
      <4> QED
        BY <4>1, <4>2, <4>3, OneProc
    <3>7. ASSUME keyFile[r.at] = 0 PROVE ProcsType'
      <4>1. keys' = keys + 1
        BY <2>3, <3>7 DEF LoadKey
      <4>2. new \in ProcType
        BY <2>r, <3>1, <3>2, <3>3, <3>5, <4>1 DEF ProcType
      <4>3. Shape(new)
        BY <2>r, <3>1, <3>2, <3>3, <4>1 DEF Shape, Making, Asking, ProcType
      <4>4. proc' = [proc EXCEPT ![p] = new]
        BY <2>3, <3>7 DEF LoadKey
      <4> HIDE DEF new
      <4> QED
        BY <4>2, <4>3, <4>4, OneProc
    <3>8. keys' \in Nat /\ keyRace' \in BOOLEAN
      BY <2>3, <3>2 DEF LoadKey, WorldType, HistoryType
    <3> QED
      BY <2>3, <3>6, <3>7, <3>8 DEF LoadKey, files, FileType, WorldType, HistoryType
  <2>4. CASE EmptyKey(p)
    <3>1. Shape([r EXCEPT !.step = "fillKey"]) /\ "fillKey" \in Steps /\ r.at \in {1, 2}
      BY <2>r, <2>4 DEF Shape, Making, Asking, EmptyKey, ProcType, Steps
    <3>2. ProcsType'
      BY <2>4, <3>1, GotoType DEF EmptyKey
    <3>3. keyFile' \in [1 .. 2 -> Nat]
      BY <2>4, <3>1 DEF EmptyKey, FileType
    <3> QED
      BY <2>4, <3>2, <3>3 DEF EmptyKey, world, history, FileType, WorldType, HistoryType
  <2>5. CASE FillKey(p)
    <3> DEFINE new == [r EXCEPT !.step = AfterKey(p), !.at = @ + 1]
    <3>1. r.at \in {1, 2} /\ Len(r.keys) = r.at /\ r.keys \in Seq(Nat)
      BY <2>r, <2>5 DEF Shape, Making, Asking, FillKey, ProcType
    <3>2. r.keys[r.at] \in Nat
      BY <3>1
    <3>3. AfterKey(p) = IF r.at = 2 THEN "server" ELSE "loadKey"
      BY FilesLength DEF AfterKey
    <3>4. "server" \in Steps /\ "loadKey" \in Steps
      BY DEF Steps, Making, Asking
    <3>a. AfterKey(p) \in Steps /\ r.at + 1 \in 1 .. 3
      BY <3>1, <3>3, <3>4
    <3>5. new \in ProcType
      BY <2>r, <3>a DEF ProcType
    <3>6. Shape(new)
      BY <2>r, <3>1, <3>3 DEF Shape, Making, Asking, ProcType
    <3>7. ProcsType'
      BY <2>5, <3>5, <3>6, OneProc DEF FillKey
    <3>8. keyFile' \in [1 .. 2 -> Nat]
      BY <2>5, <3>1, <3>2 DEF FillKey, FileType
    <3> QED
      BY <2>5, <3>7, <3>8 DEF FillKey, world, history, FileType, WorldType, HistoryType
  <2>6. CASE AskServer(p)
    <3>0. r.step = "server" /\ r.keys \in Seq(Nat)
      BY <2>r, <2>6 DEF AskServer, ProcType
    <3>b. r.at = 3
      BY <2>r, <3>0 DEF Shape, Asking
    <3>c. Len(r.keys) = r.at - 1
      BY <2>r, <3>0 DEF Shape, Making
    <3>1. r.at = 3 /\ Len(r.keys) = 2 /\ r.keys \in Seq(Nat)
      BY <3>0, <3>b, <3>c
    <3>2. registered' \subseteq {k \in Seq(Nat) : Len(k) = 2}
      BY <2>6, <3>1 DEF AskServer, WorldType
    <3>3. "server" \in Asking /\ "emptyConfig" \in Asking /\ "emptyConfig" \in Steps /\ "failed" \in Outs
      BY <2>o DEF Asking, Steps
    <3>4. ASSUME NEW ip \in BOOLEAN,
                 proc' = [proc EXCEPT ![p].step = "emptyConfig", ![p].ip = ip]
          PROVE  ProcsType'
      <4> DEFINE new == [r EXCEPT !.step = "emptyConfig", !.ip = ip]
      <4>1. new \in ProcType
        BY <2>r, <3>3 DEF ProcType
      <4>2. new.step = "emptyConfig" /\ new.at = 3 /\ new.keys = r.keys
        BY <2>r, <3>1 DEF ProcType
      <4>4. proc' = [proc EXCEPT ![p] = new]
        BY <3>4
      <4> HIDE DEF new
      <4>3. Shape(new)
        BY <3>1, <4>2 DEF Shape, Making, Asking
      <4> QED
        BY <4>1, <4>3, <4>4, OneProc
    <3>5. ASSUME Goto(p, "emptyConfig") PROVE ProcsType'
      BY <2>6, <3>3, <3>5, AskingType DEF AskServer
    <3>6. ASSUME Exit(p, "failed") PROVE ProcsType'
      BY <3>3, <3>6, ExitType
    <3>7. ProcsType'
      BY <2>6, <3>4, <3>5, <3>6 DEF AskServer
    <3> QED
      BY <2>6, <3>2, <3>7 DEF AskServer, files, history, FileType, WorldType, HistoryType
  <2>7. CASE EmptyConfigFile(p)
    <3>1. ProcsType'
      BY <2>7, AskingType DEF EmptyConfigFile, Asking
    <3>2. config' \in [exists : BOOLEAN, server : BOOLEAN, ip : BOOLEAN]
      BY <2>7 DEF EmptyConfigFile, EmptyConfig
    <3> QED
      BY <2>7, <3>1, <3>2 DEF EmptyConfigFile, world, history, FileType, WorldType, HistoryType
  <2>8. CASE FillConfig(p)
    <3>1. ProcsType'
      BY <2>8, <2>o, AskingType, ExitType DEF FillConfig, Asking
    <3>2. config' \in [exists : BOOLEAN, server : BOOLEAN, ip : BOOLEAN]
      BY <2>8, <2>r DEF FillConfig, ProcType
    <3>3. regDone' \in BOOLEAN
      BY <2>8 DEF FillConfig, HistoryType
    <3> QED
      BY <2>8, <3>1, <3>2, <3>3 DEF FillConfig, world, FileType, WorldType, HistoryType
  <2>9. CASE StartWG(p)
    <3> DEFINE new == [r EXCEPT !.step = "writePid", !.wg = TRUE]
    <3>1. new \in ProcType /\ Shape(new)
      BY <2>r, <2>9 DEF Shape, Making, Asking, StartWG, ProcType, Steps
    <3>2. ProcsType'
      BY <2>9, <3>1, OneProc DEF StartWG
    <3> QED
      BY <2>9, <3>2 DEF StartWG, files, world, history, FileType, WorldType, HistoryType
  <2>10. CASE WGPanics(p)
    <3>1. ProcsType'
      BY <2>10, <2>o, ExitType DEF WGPanics
    <3> QED
      BY <2>10, <3>1 DEF WGPanics, files, world, FileType, WorldType, HistoryType
  <2>11. CASE WritePid(p)
    <3>1. ProcsType'
      BY <2>11, AskingType DEF WritePid, Asking
    <3> QED
      BY <2>11, <3>1 DEF WritePid, world, history, FileType, WorldType, HistoryType
  <2>12. CASE Leave(p)
    <3>1. ProcsType'
      BY <2>12, <2>o, ExitType DEF Leave
    <3> QED
      BY <2>12, <3>1 DEF Leave, world, history, FileType, WorldType, HistoryType
  <2>13. CASE Down(p)
    <3> DEFINE new == [r EXCEPT !.step = "done", !.out = "disconnected", !.sawUp = Connected]
    <3>1. Connected \in SUBSET Procs /\ "done" \in Steps /\ "disconnected" \in Outs
      BY <2>o DEF Connected, Steps
    <3>2. new \in ProcType
      BY <2>r, <3>1 DEF ProcType
    <3>3. Shape(new)
      BY <2>r DEF Shape, Making, Asking, ProcType
    <3>4. ProcsType'
      BY <2>13, <3>2, <3>3, OneProc DEF Down
    <3> QED
      BY <2>13, <3>4 DEF Down, world, history, FileType, WorldType, HistoryType
  <2>14. CASE StatusConfig(p)
    <3> DEFINE new == [r EXCEPT !.step = "stat", !.ip = config.ip]
    <3>1. config.ip \in BOOLEAN /\ "stat" \in Steps
      BY DEF FileType, Steps
    <3>2. new \in ProcType
      BY <2>r, <3>1 DEF ProcType
    <3>3. Shape(new)
      BY <2>r, <2>14 DEF Shape, Making, Asking, ProcType, StatusConfig
    <3>5. "not connected" \in Outs
      BY <2>o
    <3>6. proc' = [proc EXCEPT ![p] = new] \/ Exit(p, "not connected")
      BY <2>14 DEF StatusConfig
    <3> HIDE DEF new
    <3>4. ProcsType'
      BY <3>2, <3>3, <3>5, <3>6, OneProc, ExitType
    <3> QED
      BY <2>14, <3>4 DEF StatusConfig, files, world, history, FileType, WorldType, HistoryType
  <2>15. CASE StatusPid(p)
    <3>1. ProcsType'
      BY <2>15, <2>o, ExitType DEF StatusPid
    <3> QED
      BY <2>15, <3>1 DEF StatusPid, files, world, history, FileType, WorldType, HistoryType
  <2>16. CASE Serve(p)
    <3>1. ProcsType'
      BY <2>16, <2>o, ExitType DEF Serve
    <3> QED
      BY <2>16, <3>1 DEF Serve, files, world, history, FileType, WorldType, HistoryType
  <2>17. CASE kills' = kills + 1 /\ Kill(p)
    <3>1. ProcsType'
      BY <2>17, <2>o, ExitType DEF Kill
    <3>2. cfgCut' \in BOOLEAN /\ crashed' \subseteq Procs /\ kills' \in Nat
      BY <2>17 DEF Kill, HistoryType, WorldType
    <3> QED
      BY <2>17, <3>1, <3>2 DEF Kill, files, FileType, WorldType, HistoryType
  <2>18. CASE kills' = kills + 1 /\ Term(p)
    <3> DEFINE new == [r EXCEPT !.sig = TRUE]
    <3>1. new \in ProcType /\ Shape(new)
      BY <2>r DEF Shape, Making, Asking, ProcType
    <3>2. ProcsType'
      BY <2>18, <3>1, OneProc DEF Term
    <3> QED
      BY <2>18, <3>2 DEF Term, files, history, FileType, WorldType, HistoryType
  <2> QED
    BY <2>1, <2>2, <2>3, <2>4, <2>5, <2>6, <2>7, <2>8, <2>9, <2>10, <2>11, <2>12,
       <2>13, <2>14, <2>15, <2>16, <2>17, <2>18
<1> QED
  BY <1>1, <1>2

-----------------------------------------------------------------------------
(***************************************************************************)
(* HsClient.TypeOK: the state directory and the processes keep their       *)
(* shapes, with as many keys in a process as it has come to.               *)
(***************************************************************************)
THEOREM TypeCorrect == Spec => []TypeOK
<1>1. TypeInv => TypeOK
  <2> SUFFICES ASSUME TypeInv PROVE TypeOK
    OBVIOUS
  <2>1. ASSUME NEW p \in Procs
        PROVE  /\ proc[p].at \in 1 .. 3
               /\ \/ Len(proc[p].keys) = proc[p].at -
                        (IF proc[p].step \in {"emptyKey", "fillKey"} THEN 0 ELSE 1)
                  \/ proc[p].step = "done"
    <3>1. proc[p] \in ProcType /\ Shape(proc[p])
      BY DEF TypeInv, ProcsType
    <3>2. proc[p].at \in 1 .. 3
      BY <3>1 DEF ProcType
    <3>3. proc[p].step \in Making => Len(proc[p].keys) = proc[p].at
      BY <3>1 DEF Shape
    <3>4. proc[p].step \notin Making \cup {"done"} => Len(proc[p].keys) = proc[p].at - 1
      BY <3>1 DEF Shape
    <3> QED
      BY <3>2, <3>3, <3>4 DEF Making
  <2> QED
    BY <2>1, FilesLength DEF TypeInv, FileType, WorldType, HistoryType, TypeOK
<1> QED
  BY <1>1, TypeInit, TypeStep, PTL DEF Spec

-----------------------------------------------------------------------------
(***************************************************************************)
(* The pid file keeps naming an up that is connected or has crashed if the *)
(* one process that moves stays connected, crashes, or takes the file with *)
(* it.                                                                     *)
(***************************************************************************)
LEMMA PidKept ==
    ASSUME PidNamesUp, ProcsType, NEW p \in Procs, crashed \subseteq crashed',
           pid' \in {pid, Nobody}, NEW r, proc' = [proc EXCEPT ![p] = r],
           proc[p].step = "wait" =>
               r.step = "wait" \/ p \in crashed' \/ pid' = Nobody
    PROVE  PidNamesUp'
<1> SUFFICES ASSUME pid' # Nobody PROVE pid' \in Connected' \cup crashed'
  BY DEF PidNamesUp
<1>1. pid' = pid /\ pid \in Connected \cup crashed
  BY DEF PidNamesUp
<1>2. ASSUME pid \in Connected, pid = p PROVE pid' \in Connected' \cup crashed'
  BY <1>1, <1>2 DEF Connected, ProcsType
<1>3. ASSUME pid \in Connected, pid # p PROVE pid' \in Connected' \cup crashed'
  BY <1>1, <1>3 DEF Connected, ProcsType
<1> QED
  BY <1>1, <1>2, <1>3

\* A process that ends is not connected.
LEMMA ExitEnds ==
    ASSUME ProcsType, NEW p \in Procs, NEW out, Exit(p, out)
    PROVE  \E r : proc' = [proc EXCEPT ![p] = r] /\ r.step # "wait"
<1> DEFINE r == [proc[p] EXCEPT !.step = "done", !.out = out]
<1>1. r.step = "done"
  BY DEF ProcsType, ProcType
<1>2. proc' = [proc EXCEPT ![p] = r]
  BY DEF Exit
<1> HIDE DEF r
<1> QED
  BY <1>1, <1>2

\* Every step keeps PidNamesUp: only WritePid names a process, one that connects.
LEMMA PidStep == TypeInv /\ PidNamesUp /\ [Next]_vars => PidNamesUp'
<1> SUFFICES ASSUME TypeInv, PidNamesUp, [Next]_vars PROVE PidNamesUp'
  OBVIOUS
<1> USE DEF TypeInv
<1>1. CASE UNCHANGED vars
  BY <1>1 DEF vars, PidNamesUp, Connected
<1>2. CASE Next
  <2> PICK p \in Procs :
        \/ \E cmd \in Commands, flag \in BOOLEAN : Run(p, cmd, flag)
        \/ LoadConfig(p) \/ LoadKey(p) \/ EmptyKey(p) \/ FillKey(p) \/ AskServer(p)
        \/ EmptyConfigFile(p) \/ FillConfig(p) \/ StartWG(p) \/ WGPanics(p)
        \/ WritePid(p) \/ Leave(p) \/ Down(p) \/ StatusConfig(p) \/ StatusPid(p)
        \/ Serve(p) \/ (kills' = kills + 1 /\ Kill(p)) \/ (kills' = kills + 1 /\ Term(p))
    BY <1>2, Cases
  <2>1. ASSUME NEW cmd \in Commands, NEW flag \in BOOLEAN, Run(p, cmd, flag)
        PROVE  PidNamesUp'
    BY <2>1, PidKept DEF Run, files, history
  <2>2. CASE LoadConfig(p)
    <3>1. PICK r : proc' = [proc EXCEPT ![p] = r]
      BY <2>2 DEF LoadConfig
    <3> QED
      BY <2>2, <3>1, PidKept DEF LoadConfig, files, history
  <2>3. CASE LoadKey(p)
    <3>1. PICK r : proc' = [proc EXCEPT ![p] = r]
      BY <2>3 DEF LoadKey
    <3> QED
      BY <2>3, <3>1, PidKept DEF LoadKey, files
  <2>4. CASE EmptyKey(p)
    BY <2>4, PidKept DEF EmptyKey, Goto, history
  <2>5. CASE FillKey(p)
    BY <2>5, PidKept DEF FillKey, history
  <2>6. CASE AskServer(p)
    <3>1. PICK r : proc' = [proc EXCEPT ![p] = r]
      BY <2>6 DEF AskServer, Goto, Exit
    <3> QED
      BY <2>6, <3>1, PidKept DEF AskServer, files, history
  <2>7. CASE EmptyConfigFile(p)
    BY <2>7, PidKept DEF EmptyConfigFile, Goto, history
  <2>8. CASE FillConfig(p)
    <3>1. PICK r : proc' = [proc EXCEPT ![p] = r]
      BY <2>8 DEF FillConfig, Goto, Exit
    <3> QED
      BY <2>8, <3>1, PidKept DEF FillConfig
  <2>9. CASE StartWG(p)
    <3>1. PICK r : proc' = [proc EXCEPT ![p] = r]
      BY <2>9 DEF StartWG
    <3>2. crashed' = crashed /\ pid' = pid /\ proc[p].step # "wait"
      BY <2>9 DEF StartWG, files, history
    <3> QED
      BY <3>1, <3>2, PidKept
  <2>10. CASE WGPanics(p)
    <3>1. PICK r : proc' = [proc EXCEPT ![p] = r] /\ r.step # "wait"
      BY <2>10, ExitEnds DEF WGPanics
    <3>2. /\ crashed \subseteq crashed' /\ pid' \in {pid, Nobody}
          /\ proc[p].step = "wait" => p \in crashed' \/ pid' = Nobody
      BY <2>10 DEF WGPanics, Exit, files
    <3> QED
      BY <3>1, <3>2, PidKept
  <2>11. CASE WritePid(p)
    BY <2>11 DEF WritePid, Goto, PidNamesUp, Connected, ProcsType
  <2>12. CASE Leave(p)
    <3>1. PICK r : proc' = [proc EXCEPT ![p] = r] /\ r.step # "wait"
      BY <2>12, ExitEnds DEF Leave
    <3>2. /\ crashed \subseteq crashed' /\ pid' \in {pid, Nobody}
          /\ proc[p].step = "wait" => p \in crashed' \/ pid' = Nobody
      BY <2>12 DEF Leave, Exit, history
    <3> QED
      BY <3>1, <3>2, PidKept
  <2>13. CASE Down(p)
    <3>1. PICK r : proc' = [proc EXCEPT ![p] = r]
      BY <2>13 DEF Down
    <3>2. crashed' = crashed /\ pid' = Nobody
      BY <2>13 DEF Down, history
    <3> QED
      BY <3>1, <3>2, PidKept
  <2>14. CASE StatusConfig(p)
    <3>1. PICK r : proc' = [proc EXCEPT ![p] = r]
      BY <2>14 DEF StatusConfig, Exit
    <3> QED
      BY <2>14, <3>1, PidKept DEF StatusConfig, files, history
  <2>15. CASE StatusPid(p)
    <3>1. PICK r : proc' = [proc EXCEPT ![p] = r]
      BY <2>15 DEF StatusPid, Exit
    <3>2. crashed' = crashed /\ pid' = pid /\ proc[p].step = "stat"
      BY <2>15 DEF StatusPid, files, history
    <3> QED
      BY <3>1, <3>2, PidKept
  <2>16. CASE Serve(p)
    BY <2>16, PidKept DEF Serve, Exit, files, history
  <2>17. CASE kills' = kills + 1 /\ Kill(p)
    <3>1. PICK r : proc' = [proc EXCEPT ![p] = r] /\ r.step # "wait"
      BY <2>17, ExitEnds DEF Kill
    <3>2. /\ crashed \subseteq crashed' /\ pid' \in {pid, Nobody}
          /\ proc[p].step = "wait" => p \in crashed' \/ pid' = Nobody
      BY <2>17 DEF Kill, Exit, files
    <3> QED
      BY <3>1, <3>2, PidKept
  <2>18. CASE kills' = kills + 1 /\ Term(p)
    <3> DEFINE r == [proc[p] EXCEPT !.sig = TRUE]
    <3>1. proc' = [proc EXCEPT ![p] = r] /\ r.step = proc[p].step
      BY <2>18 DEF Term, ProcsType, ProcType
    <3> HIDE DEF r
    <3> QED
      BY <2>18, <3>1, PidKept DEF Term, files, history
  <2> QED
    BY <2>1, <2>2, <2>3, <2>4, <2>5, <2>6, <2>7, <2>8, <2>9, <2>10, <2>11, <2>12,
       <2>13, <2>14, <2>15, <2>16, <2>17, <2>18
<1> QED
  BY <1>1, <1>2

(***************************************************************************)
(* HsClient.PidNamesUp: what status takes for the connection is an up that *)
(* is connected, or one that ended without cleaning up.                    *)
(***************************************************************************)
THEOREM PidNamesUpCorrect == Spec => []PidNamesUp
<1>1. Init => PidNamesUp
  BY DEF Init, PidNamesUp
<1> QED
  BY <1>1, TypeInit, TypeStep, PidStep, PTL DEF Spec

-----------------------------------------------------------------------------
(***************************************************************************)
(* RegisteredIsOnDisk needs to know who is making a key: at most one       *)
(* process, unless there was a race, and only while the file has none.  So *)
(* a key that a process has gone on with, or that Headscale knows, is one  *)
(* that nobody replaces.                                                   *)
(***************************************************************************)
Makes(p, f) == proc[p].step \in Making /\ proc[p].at = f
Has(p, f) == proc[p].step \notin {"unborn", "done"} /\ f < proc[p].at

KeyInv(f) ==
    /\ \A p, q \in Procs : Makes(p, f) /\ Makes(q, f) => p = q
    /\ \A p \in Procs : Makes(p, f) => keyFile[f] = 0 /\ proc[p].keys[f] # 0
    /\ \A p \in Procs : Has(p, f) => keyFile[f] # 0 /\ proc[p].keys[f] = keyFile[f]
    /\ \A k \in registered : keyFile[f] # 0 /\ k[f] = keyFile[f]

DiskInv == ~keyRace => \A f \in {1, 2} : KeyInv(f)

\* A process that neither makes nor loads a key disturbs nothing of this.
LEMMA DiskKept ==
    ASSUME ProcsType, DiskInv, keyFile' = keyFile, registered' = registered,
           keyRace' = keyRace, NEW p \in Procs, NEW r, proc' = [proc EXCEPT ![p] = r],
           r.step \notin Making,
           \/ r.step = "done" \/ r.at = 1
           \/ /\ r.at = proc[p].at /\ r.keys = proc[p].keys
              /\ proc[p].step \notin {"unborn", "done"}
    PROVE  DiskInv'
<1> SUFFICES ASSUME ~keyRace, NEW f \in {1, 2}, KeyInv(f) PROVE KeyInv(f)'
  BY DEF DiskInv
<1>1. \A q \in Procs : q # p => proc'[q] = proc[q]
  BY DEF ProcsType
<1>2. proc'[p] = r
  BY DEF ProcsType
<1>3. \A q \in Procs : Makes(q, f)' => q # p /\ Makes(q, f)
  BY <1>1, <1>2 DEF Makes
<1>4. \A q \in Procs : Has(q, f)' => Has(q, f) /\ proc'[q].keys = proc[q].keys
  <2> SUFFICES ASSUME NEW q \in Procs, Has(q, f)'
               PROVE  Has(q, f) /\ proc'[q].keys = proc[q].keys
    OBVIOUS
  <2>1. CASE q # p
    BY <2>1, <1>1 DEF Has
  <2>2. CASE q = p
    BY <2>2, <1>2 DEF Has
  <2> QED
    BY <2>1, <2>2
<1> QED
  BY <1>1, <1>3, <1>4 DEF KeyInv

\* At the start nobody makes a key, and what is registered is on disk.
LEMMA DiskInit == Init => DiskInv
<1> SUFFICES ASSUME Init, NEW f \in {1, 2} PROVE KeyInv(f)
  BY DEF DiskInv
<1>1. \A p \in Procs : ~Makes(p, f) /\ ~Has(p, f)
  BY DEF Init, Unborn, Makes, Has, Making
<1>2. ASSUME NEW k \in registered PROVE keyFile[f] # 0 /\ k[f] = keyFile[f]
  <2>1. keyFile = <<1, 2>> /\ k = <<1, 2>>
    BY <1>2 DEF Init
  <2> QED
    BY <2>1
<1> QED
  BY <1>1, <1>2 DEF KeyInv

\* Every step keeps DiskInv; LoadKey, EmptyKey, FillKey and AskServer are those that touch it.
LEMMA DiskStep == TypeInv /\ DiskInv /\ [Next]_vars => DiskInv'
<1> SUFFICES ASSUME TypeInv, DiskInv, [Next]_vars PROVE DiskInv'
  OBVIOUS
<1> USE DEF TypeInv
<1>1. CASE UNCHANGED vars
  BY <1>1 DEF vars, DiskInv, KeyInv, Makes, Has
<1>2. CASE Next
  <2> PICK p \in Procs :
        \/ \E cmd \in Commands, flag \in BOOLEAN : Run(p, cmd, flag)
        \/ LoadConfig(p) \/ LoadKey(p) \/ EmptyKey(p) \/ FillKey(p) \/ AskServer(p)
        \/ EmptyConfigFile(p) \/ FillConfig(p) \/ StartWG(p) \/ WGPanics(p)
        \/ WritePid(p) \/ Leave(p) \/ Down(p) \/ StatusConfig(p) \/ StatusPid(p)
        \/ Serve(p) \/ (kills' = kills + 1 /\ Kill(p)) \/ (kills' = kills + 1 /\ Term(p))
    BY <1>2, Cases
  <2> DEFINE r == proc[p]
  <2>r. r \in ProcType /\ Shape(r)
    BY DEF ProcsType
  <2>1. ASSUME NEW cmd \in Commands, NEW flag \in BOOLEAN, Run(p, cmd, flag)
        PROVE  DiskInv'
    <3> DEFINE new == [Unborn EXCEPT !.cmd = cmd, !.server = (flag \/ cmd = "register"),
                          !.sawReg = regDone, !.sawUp = Connected,
                          !.step = IF cmd = "register" THEN "loadKey" ELSE "loadConfig"]
    <3>1. proc' = [proc EXCEPT ![p] = new] /\ new.at = 1 /\ new.step \notin Making
      BY <2>1 DEF Run, Unborn, Making
    <3> HIDE DEF new
    <3> QED
      BY <2>1, <3>1, DiskKept DEF Run, files, world, history
  <2>2. CASE LoadConfig(p)
    <3>1. PICK s : /\ proc' = [proc EXCEPT ![p] = s] /\ s.at = r.at /\ s.keys = r.keys
                   /\ s.step \in {"loadKey", "done"}
      <4> DEFINE race == config = EmptyConfig /\ \E q \in Procs : proc[q].step = "fillConfig"
                 go == [r EXCEPT !.step = "loadKey", !.server = TRUE]
                 stop == [r EXCEPT !.step = "done", !.out = "not registered", !.cfgRace = race]
      <4>1. /\ go.at = r.at /\ go.keys = r.keys /\ go.step = "loadKey"
            /\ stop.at = r.at /\ stop.keys = r.keys /\ stop.step = "done"
        BY <2>r DEF ProcType
      <4>2. proc' = [proc EXCEPT ![p] = go] \/ proc' = [proc EXCEPT ![p] = stop]
        BY <2>2 DEF LoadConfig
      <4> HIDE DEF go, stop
      <4> QED
        BY <4>1, <4>2
    <3> QED
      BY <2>2, <3>1, DiskKept DEF LoadConfig, files, world, history, Making
  <2>3. CASE LoadKey(p)
    <3> SUFFICES ASSUME ~keyRace', NEW f \in {1, 2} PROVE KeyInv(f)'
      BY DEF DiskInv
    <3>0. ~keyRace
      BY <2>3 DEF LoadKey
    <3>1. KeyInv(f) /\ keyFile' = keyFile /\ registered' = registered
      BY <2>3, <3>0 DEF DiskInv, LoadKey, files
    <3>2. r.at \in {1, 2} /\ Len(r.keys) = r.at - 1 /\ r.keys \in Seq(Nat) /\ r.step = "loadKey"
      BY <2>r, <2>3 DEF Shape, Making, Asking, LoadKey, ProcType
    <3>3. \A q \in Procs : q # p => proc'[q] = proc[q]
      BY <2>3 DEF LoadKey, ProcsType
    <3>4. \A k \in Nat : /\ \A i \in 1 .. Len(r.keys) : Append(r.keys, k)[i] = r.keys[i]
                         /\ Append(r.keys, k)[r.at] = k
      BY <3>2
    <3>5. CASE keyFile[r.at] # 0
      <4>1. /\ proc'[p].step \in {"server", "loadKey"} /\ proc'[p].at = r.at + 1
            /\ proc'[p].keys = Append(r.keys, keyFile[r.at])
        BY <2>3, <3>5, <2>r DEF LoadKey, AfterKey, ProcsType, ProcType
      <4>2. ~Makes(p, f)' /\ (\A q \in Procs : q # p => Makes(q, f)' = Makes(q, f))
        BY <4>1, <3>3 DEF Makes, Making
      <4>3. ASSUME Has(p, f)' PROVE keyFile[f] # 0 /\ proc'[p].keys[f] = keyFile[f]
        <5>1. keyFile[r.at] \in Nat
          BY <3>2 DEF FileType
        <5>2. CASE f = r.at
          BY <5>1, <5>2, <3>4, <3>5, <4>1
        <5>3. CASE f # r.at
          <6>1. f < r.at
            BY <5>3, <4>3, <4>1, <3>2 DEF Has
          <6>2. Has(p, f)
            BY <6>1, <3>2 DEF Has
          <6> QED
            BY <6>1, <6>2, <5>1, <3>1, <3>2, <3>4, <4>1 DEF KeyInv
        <5> QED
          BY <5>2, <5>3
      <4>4. \A q \in Procs : q # p => Has(q, f)' = Has(q, f)
        BY <3>3 DEF Has
      <4> QED
        BY <3>1, <3>3, <4>2, <4>3, <4>4 DEF KeyInv
    <3>6. CASE keyFile[r.at] = 0
      <4>1. /\ proc'[p].step = "emptyKey" /\ proc'[p].at = r.at
            /\ proc'[p].keys = Append(r.keys, keys + 1)
        BY <2>3, <3>6, <2>r DEF LoadKey, ProcsType, ProcType
      <4>2. \A q \in Procs \ {p} : ~(proc[q].step \in Making /\ proc[q].at = r.at)
        BY <2>3, <3>6 DEF LoadKey, Making
      <4>3. \A q \in Procs : q # p => (Makes(q, f)' = Makes(q, f)) /\ (Has(q, f)' = Has(q, f))
        BY <3>3 DEF Makes, Has
      <4>4. keys \in Nat /\ proc'[p].keys[r.at] = keys + 1
        <5>1. keys \in Nat /\ keys + 1 \in Nat
          BY DEF WorldType
        <5> QED
          BY <5>1, <4>1, <3>4
      <4>5. ASSUME Has(p, f)' PROVE Has(p, f) /\ proc'[p].keys[f] = proc[p].keys[f]
        <5>1. f < r.at /\ Has(p, f)
          BY <4>5, <4>1, <3>2 DEF Has
        <5> QED
          <6>1. r.keys \in Seq(Nat) /\ f \in 1 .. Len(r.keys)
            BY <5>1, <3>2
          <6>2. Append(r.keys, keys + 1)[f] = r.keys[f]
            BY <6>1, <4>4, <3>4
          <6> QED
            BY <5>1, <6>2, <4>1
      <4>6. Makes(p, f)' => f = r.at /\ \A q \in Procs : q # p => ~Makes(q, f)
        BY <4>1, <4>2 DEF Makes
      <4>7. \A q1, q2 \in Procs : Makes(q1, f)' /\ Makes(q2, f)' => q1 = q2
        BY <3>1, <4>3, <4>6 DEF KeyInv
      <4>8. \A q \in Procs : Makes(q, f)' => keyFile[f] = 0 /\ proc'[q].keys[f] # 0
        BY <3>1, <3>3, <3>6, <4>3, <4>4, <4>6 DEF KeyInv
      <4>9. \A q \in Procs : Has(q, f)' => keyFile[f] # 0 /\ proc'[q].keys[f] = keyFile[f]
        BY <3>1, <3>3, <4>3, <4>5 DEF KeyInv
      <4> QED
        BY <3>1, <4>7, <4>8, <4>9 DEF KeyInv
    <3> QED
      BY <3>5, <3>6
  <2>4. CASE EmptyKey(p)
    <3> SUFFICES ASSUME ~keyRace', NEW f \in {1, 2} PROVE KeyInv(f)'
      BY DEF DiskInv
    <3>0. ~keyRace /\ KeyInv(f) /\ KeyInv(r.at) /\ registered' = registered
      <4>1. r.at \in {1, 2} /\ ~keyRace
        BY <2>r, <2>4 DEF Shape, Making, EmptyKey, history
      <4> QED
        BY <4>1, <2>4 DEF DiskInv, EmptyKey, world
    <3>1. r.step = "emptyKey" /\ r.at \in {1, 2} /\ Makes(p, r.at)
      BY <2>r, <2>4 DEF Shape, Making, EmptyKey, Makes
    <3>2. keyFile' = keyFile
      BY <2>4, <3>0, <3>1 DEF EmptyKey, KeyInv, FileType
    <3>3. proc' = [proc EXCEPT ![p] = [r EXCEPT !.step = "fillKey"]]
      BY <2>4 DEF EmptyKey, Goto
    <3>4. \A q \in Procs : /\ proc'[q].at = proc[q].at /\ proc'[q].keys = proc[q].keys
                           /\ (Makes(q, f)' = Makes(q, f)) /\ (Has(q, f)' = Has(q, f))
      <4> SUFFICES ASSUME NEW q \in Procs
                   PROVE  /\ proc'[q].at = proc[q].at /\ proc'[q].keys = proc[q].keys
                          /\ (Makes(q, f)' = Makes(q, f)) /\ (Has(q, f)' = Has(q, f))
        OBVIOUS
      <4>1. CASE q # p
        BY <4>1, <3>3 DEF ProcsType, Makes, Has
      <4>2. CASE q = p
        <5>1. /\ proc'[p].at = r.at /\ proc'[p].keys = r.keys /\ proc'[p].step = "fillKey"
          BY <3>3, <2>r DEF ProcsType, ProcType
        <5> QED
          BY <5>1, <4>2, <3>1 DEF Makes, Has, Making
      <4> QED
        BY <4>1, <4>2
    <3> QED
      BY <3>0, <3>2, <3>4 DEF KeyInv
  <2>5. CASE FillKey(p)
    <3> SUFFICES ASSUME ~keyRace', NEW f \in {1, 2} PROVE KeyInv(f)'
      BY DEF DiskInv
    <3>1. r.at \in {1, 2} /\ Len(r.keys) = r.at /\ r.keys \in Seq(Nat) /\ r.step = "fillKey"
      BY <2>r, <2>5 DEF Shape, Making, Asking, FillKey, ProcType
    <3>0. KeyInv(f) /\ registered' = registered
      BY <2>5 DEF DiskInv, FillKey, world, history
    <3>2. \A q \in Procs : q # p => proc'[q] = proc[q]
      BY <2>5 DEF FillKey, ProcsType
    <3>3. /\ proc'[p].step \in {"server", "loadKey"} /\ proc'[p].at = r.at + 1
          /\ proc'[p].keys = r.keys
      BY <2>5, <2>r DEF FillKey, AfterKey, ProcsType, ProcType
    <3>4. ~Makes(p, f)' /\ \A q \in Procs : q # p => (Makes(q, f)' = Makes(q, f))
                                                   /\ (Has(q, f)' = Has(q, f))
      BY <3>2, <3>3 DEF Makes, Has, Making
    <3>5. CASE f = r.at
      <4>1. Makes(p, f) /\ keyFile'[f] = r.keys[f]
        BY <2>5, <3>1, <3>5 DEF Makes, Making, FillKey, FileType
      <4>2. keyFile[f] = 0 /\ r.keys[f] # 0 /\ \A q \in Procs : q # p => ~Makes(q, f)
        BY <4>1, <3>0 DEF KeyInv
      <4>3. \A q \in Procs : ~Has(q, f)
        BY <4>2, <3>0 DEF KeyInv
      <4>4. registered = {}
        BY <4>2, <3>0 DEF KeyInv
      <4>5. \A q \in Procs : Has(q, f)' => q = p
        BY <3>4, <4>3
      <4> QED
        BY <3>0, <3>3, <3>4, <4>1, <4>2, <4>4, <4>5 DEF KeyInv
    <3>6. CASE f # r.at
      <4>1. keyFile'[f] = keyFile[f]
        BY <2>5, <3>1, <3>6 DEF FillKey, FileType
      <4>2. Has(p, f)' => Has(p, f)
        BY <3>1, <3>3, <3>6 DEF Has
      <4> QED
        BY <3>0, <3>2, <3>3, <3>4, <4>1, <4>2 DEF KeyInv
    <3> QED
      BY <3>5, <3>6
  <2>6. CASE AskServer(p)
    <3> SUFFICES ASSUME ~keyRace', NEW f \in {1, 2} PROVE KeyInv(f)'
      BY DEF DiskInv
    <3>0. KeyInv(f) /\ keyFile' = keyFile
      BY <2>6 DEF DiskInv, AskServer, files, history
    <3>1. r.step = "server"
      BY <2>6 DEF AskServer
    <3>2. r.at = 3
      BY <2>r, <3>1 DEF Shape, Asking
    <3>3. Has(p, f)
      BY <3>1, <3>2 DEF Has
    <3>4. \A k \in registered' : k \in registered \/ k = r.keys
      BY <2>6 DEF AskServer
    <3>5. \A k \in registered' : keyFile[f] # 0 /\ k[f] = keyFile[f]
      BY <3>0, <3>3, <3>4 DEF KeyInv
    <3>6. PICK s : /\ proc' = [proc EXCEPT ![p] = s] /\ s.at = r.at /\ s.keys = r.keys
                   /\ s.step \in {"emptyConfig", "done"}
      <4> DEFINE go == [r EXCEPT !.step = "emptyConfig"]
                 stop == [r EXCEPT !.step = "done", !.out = "failed"]
                 goip(ip) == [r EXCEPT !.step = "emptyConfig", !.ip = ip]
      <4>1. /\ go.at = r.at /\ go.keys = r.keys /\ go.step = "emptyConfig"
            /\ stop.at = r.at /\ stop.keys = r.keys /\ stop.step = "done"
        BY <2>r DEF ProcType
      <4>2. \A ip : goip(ip).at = r.at /\ goip(ip).keys = r.keys /\ goip(ip).step = "emptyConfig"
        BY <2>r DEF ProcType
      <4>3. \/ proc' = [proc EXCEPT ![p] = go] \/ proc' = [proc EXCEPT ![p] = stop]
            \/ \E ip \in BOOLEAN : proc' = [proc EXCEPT ![p] = goip(ip)]
        BY <2>6 DEF AskServer, Goto, Exit
      <4> HIDE DEF go, stop, goip
      <4> QED
        BY <4>1, <4>2, <4>3
    <3>7. \A q \in Procs : q # p => proc'[q] = proc[q]
      BY <3>6 DEF ProcsType
    <3>8. proc'[p] = s
      BY <3>6 DEF ProcsType
    <3>9. \A q \in Procs : /\ Makes(q, f)' => q # p /\ Makes(q, f)
                           /\ Has(q, f)' => Has(q, f) /\ proc'[q].keys = proc[q].keys
      BY <3>1, <3>6, <3>7, <3>8 DEF Makes, Has, Making
    <3> QED
      BY <3>0, <3>5, <3>7, <3>9 DEF KeyInv
  <2>e. ASSUME NEW o \in Outs, Exit(p, o), keyFile' = keyFile, registered' = registered,
               keyRace' = keyRace
        PROVE  DiskInv'
    <3> DEFINE new == [r EXCEPT !.step = "done", !.out = o]
    <3>1. proc' = [proc EXCEPT ![p] = new] /\ new.step = "done" /\ "done" \notin Making
      BY <2>e, <2>r DEF Exit, ProcType, Making
    <3> HIDE DEF new
    <3> QED
      BY <2>e, <3>1, DiskKept
  <2>g. ASSUME NEW s \in Asking, Goto(p, s), keyFile' = keyFile, registered' = registered,
               keyRace' = keyRace, r.step \notin {"unborn", "done"}
        PROVE  DiskInv'
    <3> DEFINE new == [r EXCEPT !.step = s]
    <3>1. /\ proc' = [proc EXCEPT ![p] = new] /\ new.step \notin Making
          /\ new.at = r.at /\ new.keys = r.keys
      BY <2>g, <2>r DEF Goto, ProcType, Making, Asking
    <3> HIDE DEF new
    <3> QED
      BY <2>g, <3>1, DiskKept
  <2>o. {"panic", "killed", "registered", "disconnected", "not connected", "connected",
         "netstack not running"} \subseteq Outs
    BY DEF Outs
  <2>s. {"fillConfig", "startWG", "wait"} \subseteq Asking
    BY DEF Asking
  <2>7. CASE EmptyConfigFile(p)
    BY <2>7, <2>g, <2>s DEF EmptyConfigFile, world, history
  <2>8. CASE FillConfig(p)
    BY <2>8, <2>g, <2>e, <2>o, <2>s DEF FillConfig, world
  <2>9. CASE StartWG(p)
    <3> DEFINE new == [r EXCEPT !.step = "writePid", !.wg = TRUE]
    <3>1. /\ proc' = [proc EXCEPT ![p] = new] /\ new.step \notin Making
          /\ new.at = r.at /\ new.keys = r.keys /\ r.step \notin {"unborn", "done"}
      BY <2>9, <2>r DEF StartWG, ProcType, Making
    <3> HIDE DEF new
    <3> QED
      BY <2>9, <3>1, DiskKept DEF StartWG, files, world, history
  <2>10. CASE WGPanics(p)
    BY <2>10, <2>e, <2>o DEF WGPanics, files, world
  <2>11. CASE WritePid(p)
    BY <2>11, <2>g, <2>s DEF WritePid, world, history
  <2>12. CASE Leave(p)
    BY <2>12, <2>e, <2>o DEF Leave, world, history
  <2>13. CASE Down(p)
    <3> DEFINE new == [r EXCEPT !.step = "done", !.out = "disconnected", !.sawUp = Connected]
    <3>1. proc' = [proc EXCEPT ![p] = new] /\ new.step = "done" /\ "done" \notin Making
      BY <2>13, <2>r DEF Down, ProcType, Making
    <3>2. keyFile' = keyFile /\ registered' = registered /\ keyRace' = keyRace
      BY <2>13 DEF Down, world, history
    <3> HIDE DEF new
    <3> QED
      BY <3>1, <3>2, DiskKept
  <2>14. CASE StatusConfig(p)
    <3> DEFINE new == [r EXCEPT !.step = "stat", !.ip = config.ip]
    <3>1. /\ new.step \notin Making /\ new.at = r.at /\ new.keys = r.keys
          /\ r.step \notin {"unborn", "done"}
      BY <2>14, <2>r DEF StatusConfig, ProcType, Making
    <3>2. /\ proc' = [proc EXCEPT ![p] = new] \/ Exit(p, "not connected")
          /\ keyFile' = keyFile /\ registered' = registered /\ keyRace' = keyRace
      BY <2>14 DEF StatusConfig, files, world, history
    <3> HIDE DEF new
    <3> QED
      BY <2>e, <2>o, <3>1, <3>2, DiskKept
  <2>15. CASE StatusPid(p)
    BY <2>15, <2>e, <2>o DEF StatusPid, files, world, history
  <2>16. CASE Serve(p)
    BY <2>16, <2>e, <2>o DEF Serve, files, world, history
  <2>17. CASE kills' = kills + 1 /\ Kill(p)
    BY <2>17, <2>e, <2>o DEF Kill, files
  <2>18. CASE kills' = kills + 1 /\ Term(p)
    <3> DEFINE new == [r EXCEPT !.sig = TRUE]
    <3>1. /\ proc' = [proc EXCEPT ![p] = new] /\ new.step = r.step /\ r.step \notin Making
          /\ new.at = r.at /\ new.keys = r.keys /\ r.step \notin {"unborn", "done"}
      BY <2>18, <2>r DEF Term, ProcType, Making
    <3> HIDE DEF new
    <3> QED
      BY <2>18, <3>1, DiskKept DEF Term, files, history
  <2> QED
    BY <2>1, <2>2, <2>3, <2>4, <2>5, <2>6, <2>7, <2>8, <2>9, <2>10, <2>11, <2>12,
       <2>13, <2>14, <2>15, <2>16, <2>17, <2>18
<1> QED
  BY <1>1, <1>2

(***************************************************************************)
(* HsClient.RegisteredIsOnDisk: whatever is killed between whichever two   *)
(* steps, Headscale knows no pair of keys but the one in the key files,    *)
(* unless two processes were making the same key at once.                  *)
(***************************************************************************)
THEOREM RegisteredIsOnDiskCorrect == Spec => []RegisteredIsOnDisk
<1>1. DiskInv => RegisteredIsOnDisk
  BY FilesLength DEF DiskInv, KeyInv, RegisteredIsOnDisk
<1> QED
  BY <1>1, DiskInit, DiskStep, TypeInit, TypeStep, PTL DEF Spec

-----------------------------------------------------------------------------
(***************************************************************************)
(* RefusedOnlyUnregistered needs to know why config may have no server     *)
(* although a register has ended: some process has emptied it and will     *)
(* fill it, or died in between.                                            *)
(***************************************************************************)
Rewriting == config = EmptyConfig /\ \E q \in Procs : proc[q].step = "fillConfig"

ConfigInv ==
    /\ regDone => config.server \/ cfgCut \/ Rewriting
    /\ \A p \in Procs : proc[p].sawReg => regDone
    /\ \A p \in Procs : proc[p].wg => proc[p].step \in {"writePid", "wait", "done"}
    /\ \A p \in Procs : proc[p].out = "not registered" =>
           ~proc[p].sawReg \/ proc[p].cfgRace \/ cfgCut

\* A step that leaves config alone, and is not a refusal or a start.
LEMMA ConfigKept ==
    ASSUME ProcsType, ConfigInv, config' = config, regDone' = regDone, cfgCut => cfgCut',
           NEW p \in Procs, NEW r, proc' = [proc EXCEPT ![p] = r],
           r.sawReg = proc[p].sawReg, r.cfgRace = proc[p].cfgRace,
           r.out \in {proc[p].out} \cup (Outs \ {"not registered"}),
           r.wg => r.step \in {"writePid", "wait", "done"},
           proc[p].step = "fillConfig" => r.step = "fillConfig" \/ cfgCut'
    PROVE  ConfigInv'
<1>1. \A q \in Procs : q # p => proc'[q] = proc[q]
  BY DEF ProcsType
<1>2. proc'[p] = r
  BY DEF ProcsType
<1>3. Rewriting => cfgCut' \/ Rewriting'
  BY <1>1, <1>2 DEF Rewriting, EmptyConfig
<1>4. \A q \in Procs : proc'[q].sawReg = proc[q].sawReg /\ proc'[q].cfgRace = proc[q].cfgRace
  BY <1>1, <1>2
<1>5. \A q \in Procs : proc'[q].out = "not registered" => proc[q].out = "not registered"
  BY <1>1, <1>2
<1>6. \A q \in Procs : proc'[q].wg => proc'[q].step \in {"writePid", "wait", "done"}
  BY <1>1, <1>2 DEF ConfigInv
<1> QED
  BY <1>3, <1>4, <1>5, <1>6 DEF ConfigInv

\* At the start a register has ended only if config has its server.
LEMMA ConfigInit == Init => ConfigInv
<1> SUFFICES ASSUME Init PROVE ConfigInv
  OBVIOUS
<1>1. regDone => config.server
  BY DEF Init, EmptyConfig
<1>2. \A p \in Procs : ~proc[p].sawReg /\ ~proc[p].wg /\ proc[p].out = "none"
  BY DEF Init, Unborn
<1> QED
  BY <1>1, <1>2 DEF ConfigInv

\* Every step keeps ConfigInv; LoadConfig, the config file and a kill are those that touch it.
LEMMA ConfigStep == TypeInv /\ ConfigInv /\ [Next]_vars => ConfigInv'
<1> SUFFICES ASSUME TypeInv, ConfigInv, [Next]_vars PROVE ConfigInv'
  OBVIOUS
<1> USE DEF TypeInv
<1>1. CASE UNCHANGED vars
  BY <1>1 DEF vars, ConfigInv, Rewriting, EmptyConfig
<1>2. CASE Next
  <2> PICK p \in Procs :
        \/ \E cmd \in Commands, flag \in BOOLEAN : Run(p, cmd, flag)
        \/ LoadConfig(p) \/ LoadKey(p) \/ EmptyKey(p) \/ FillKey(p) \/ AskServer(p)
        \/ EmptyConfigFile(p) \/ FillConfig(p) \/ StartWG(p) \/ WGPanics(p)
        \/ WritePid(p) \/ Leave(p) \/ Down(p) \/ StatusConfig(p) \/ StatusPid(p)
        \/ Serve(p) \/ (kills' = kills + 1 /\ Kill(p)) \/ (kills' = kills + 1 /\ Term(p))
    BY <1>2, Cases
  <2> DEFINE r == proc[p]
  <2>r. r \in ProcType
    BY DEF ProcsType
  <2>w. r.wg => r.step \in {"writePid", "wait", "done"}
    BY DEF ConfigInv
  <2>e. ASSUME NEW o \in Outs \ {"not registered"}, Exit(p, o), config' = config,
               regDone' = regDone, cfgCut => cfgCut',
               r.step = "fillConfig" => cfgCut'
        PROVE  ConfigInv'
    <3> DEFINE new == [r EXCEPT !.step = "done", !.out = o]
    <3>1. /\ proc' = [proc EXCEPT ![p] = new] /\ new.step = "done" /\ new.out = o
          /\ new.sawReg = r.sawReg /\ new.cfgRace = r.cfgRace
      BY <2>e, <2>r DEF Exit, ProcType
    <3> HIDE DEF new
    <3> QED
      BY <2>e, <3>1, ConfigKept
  <2>g. ASSUME NEW s, NEW new,
               proc' = [proc EXCEPT ![p] = new], new.step = s, new.out = r.out,
               new.sawReg = r.sawReg, new.cfgRace = r.cfgRace,
               new.wg => new.step \in {"writePid", "wait", "done"},
               config' = config, regDone' = regDone, cfgCut' = cfgCut,
               r.step # "fillConfig" \/ s = "fillConfig"
        PROVE  ConfigInv'
    BY <2>g, ConfigKept
  <2>o. {"panic", "killed", "failed", "registered", "disconnected", "not connected", "connected",
         "netstack not running"} \subseteq Outs \ {"not registered"}
    BY DEF Outs
  <2>1. ASSUME NEW cmd \in Commands, NEW flag \in BOOLEAN, Run(p, cmd, flag)
        PROVE  ConfigInv'
    <3> DEFINE new == [Unborn EXCEPT !.cmd = cmd, !.server = (flag \/ cmd = "register"),
                          !.sawReg = regDone, !.sawUp = Connected,
                          !.step = IF cmd = "register" THEN "loadKey" ELSE "loadConfig"]
    <3>1. /\ new.sawReg = regDone /\ new.wg = FALSE /\ new.out = "none"
      BY DEF Unborn
    <3>2. proc' = [proc EXCEPT ![p] = new] /\ r.step = "unborn"
      BY <2>1 DEF Run
    <3>3. config' = config /\ regDone' = regDone /\ cfgCut' = cfgCut
      BY <2>1 DEF Run, files, history
    <3> HIDE DEF new
    <3>4. proc'[p] = new /\ \A q \in Procs : q # p => proc'[q] = proc[q]
      BY <3>2 DEF ProcsType
    <3>5. Rewriting => Rewriting'
      BY <3>2, <3>3, <3>4 DEF Rewriting, EmptyConfig
    <3> QED
      BY <3>1, <3>3, <3>4, <3>5 DEF ConfigInv
  <2>2. CASE LoadConfig(p)
    <3> DEFINE race == config = EmptyConfig /\ \E q \in Procs : proc[q].step = "fillConfig"
               go == [r EXCEPT !.step = "loadKey", !.server = TRUE]
               stop == [r EXCEPT !.step = "done", !.out = "not registered", !.cfgRace = race]
    <3>1. config' = config /\ regDone' = regDone /\ cfgCut' = cfgCut /\ r.step = "loadConfig"
      BY <2>2 DEF LoadConfig, files, history
    <3>2. /\ go.out = r.out /\ go.sawReg = r.sawReg /\ go.cfgRace = r.cfgRace
          /\ go.wg = r.wg /\ go.step = "loadKey"
      BY <2>r DEF ProcType
    <3>3. CASE proc' = [proc EXCEPT ![p] = go]
      <4> HIDE DEF go
      <4> QED
        BY <2>g, <2>w, <3>1, <3>2, <3>3
    <3>4. CASE ~config.server /\ proc' = [proc EXCEPT ![p] = stop]
      <4>1. /\ stop.step = "done" /\ stop.sawReg = r.sawReg
            /\ stop.cfgRace = Rewriting
        BY <2>r DEF ProcType, Rewriting
      <4> HIDE DEF stop
      <4>2. proc'[p] = stop /\ \A q \in Procs : q # p => proc'[q] = proc[q]
        BY <3>4 DEF ProcsType
      <4>3. Rewriting => Rewriting'
        BY <3>1, <4>2 DEF Rewriting, EmptyConfig
      <4>4. stop.sawReg => stop.cfgRace \/ cfgCut
        BY <3>4, <4>1 DEF ConfigInv
      <4> QED
        BY <3>1, <4>1, <4>2, <4>3, <4>4 DEF ConfigInv
    <3> QED
      BY <2>2, <3>3, <3>4 DEF LoadConfig
  <2>3. CASE LoadKey(p)
    <3> DEFINE old == [r EXCEPT !.step = AfterKey(p), !.at = @ + 1,
                                !.keys = Append(@, keyFile[r.at])]
               new == [r EXCEPT !.step = "emptyKey", !.keys = Append(@, keys')]
    <3>1. /\ old.out = r.out /\ old.sawReg = r.sawReg /\ old.cfgRace = r.cfgRace /\ old.wg = r.wg
          /\ new.out = r.out /\ new.sawReg = r.sawReg /\ new.cfgRace = r.cfgRace /\ new.wg = r.wg
      BY <2>r DEF ProcType
    <3>2. proc' = [proc EXCEPT ![p] = old] \/ proc' = [proc EXCEPT ![p] = new]
      BY <2>3 DEF LoadKey
    <3>3. /\ config' = config /\ regDone' = regDone /\ cfgCut' = cfgCut
          /\ r.step = "loadKey" /\ ~r.wg
      BY <2>3, <2>w DEF LoadKey, files
    <3> HIDE DEF old, new
    <3> QED
      BY <2>g, <3>1, <3>2, <3>3
  <2>4. CASE EmptyKey(p)
    <3> DEFINE new == [r EXCEPT !.step = "fillKey"]
    <3>1. new.out = r.out /\ new.sawReg = r.sawReg /\ new.cfgRace = r.cfgRace /\ new.wg = r.wg
      BY <2>r DEF ProcType
    <3>2. /\ proc' = [proc EXCEPT ![p] = new] /\ r.step = "emptyKey" /\ ~r.wg
          /\ config' = config /\ regDone' = regDone /\ cfgCut' = cfgCut
      BY <2>4, <2>w DEF EmptyKey, Goto, history
    <3> HIDE DEF new
    <3> QED
      BY <2>g, <3>1, <3>2
  <2>5. CASE FillKey(p)
    <3> DEFINE new == [r EXCEPT !.step = AfterKey(p), !.at = @ + 1]
    <3>1. new.out = r.out /\ new.sawReg = r.sawReg /\ new.cfgRace = r.cfgRace /\ new.wg = r.wg
      BY <2>r DEF ProcType
    <3>2. /\ proc' = [proc EXCEPT ![p] = new] /\ r.step = "fillKey" /\ ~r.wg
          /\ config' = config /\ regDone' = regDone /\ cfgCut' = cfgCut
      BY <2>5, <2>w DEF FillKey, history
    <3> HIDE DEF new
    <3> QED
      BY <2>g, <3>1, <3>2
  <2>6. CASE AskServer(p)
    <3> DEFINE go == [r EXCEPT !.step = "emptyConfig"]
               goip(ip) == [r EXCEPT !.step = "emptyConfig", !.ip = ip]
    <3>1. go.out = r.out /\ go.sawReg = r.sawReg /\ go.cfgRace = r.cfgRace /\ go.wg = r.wg
      BY <2>r DEF ProcType
    <3>2. \A ip : /\ goip(ip).out = r.out /\ goip(ip).sawReg = r.sawReg
                  /\ goip(ip).cfgRace = r.cfgRace /\ goip(ip).wg = r.wg
      BY <2>r DEF ProcType
    <3>3. \/ proc' = [proc EXCEPT ![p] = go] \/ Exit(p, "failed")
          \/ \E ip \in BOOLEAN : proc' = [proc EXCEPT ![p] = goip(ip)]
      BY <2>6 DEF AskServer, Goto
    <3>4. /\ config' = config /\ regDone' = regDone /\ cfgCut' = cfgCut
          /\ r.step = "server" /\ ~r.wg
      BY <2>6, <2>w DEF AskServer, files, history
    <3> HIDE DEF go, goip
    <3> QED
      BY <2>g, <2>e, <2>o, <3>1, <3>2, <3>3, <3>4
  <2>7. CASE EmptyConfigFile(p)
    <3>1. /\ proc'[p].step = "fillConfig" /\ proc'[p].sawReg = r.sawReg
          /\ proc'[p].cfgRace = r.cfgRace /\ proc'[p].wg = r.wg /\ proc'[p].out = r.out
      BY <2>7, <2>r DEF EmptyConfigFile, Goto, ProcsType, ProcType
    <3>2. \A q \in Procs : q # p => proc'[q] = proc[q]
      BY <2>7 DEF EmptyConfigFile, Goto, ProcsType
    <3>3. /\ Rewriting' /\ regDone' = regDone /\ cfgCut' = cfgCut /\ ~r.wg
      BY <2>7, <2>w, <3>1 DEF EmptyConfigFile, history, Rewriting, EmptyConfig
    <3> QED
      BY <3>1, <3>2, <3>3 DEF ConfigInv
  <2>8. CASE FillConfig(p)
    <3>1. /\ proc'[p].step \in {"done", "startWG"} /\ proc'[p].sawReg = r.sawReg
          /\ proc'[p].cfgRace = r.cfgRace /\ proc'[p].wg = r.wg
          /\ proc'[p].out \in {r.out, "registered"}
      BY <2>8, <2>r DEF FillConfig, Goto, Exit, ProcsType, ProcType
    <3>2. \A q \in Procs : q # p => proc'[q] = proc[q]
      BY <2>8 DEF FillConfig, Goto, Exit, ProcsType
    <3>3. config'.server /\ (regDone => regDone') /\ cfgCut' = cfgCut /\ ~r.wg
      BY <2>8, <2>w DEF FillConfig
    <3> QED
      BY <3>1, <3>2, <3>3 DEF ConfigInv
  <2>9. CASE StartWG(p)
    <3> DEFINE new == [r EXCEPT !.step = "writePid", !.wg = TRUE]
    <3>1. /\ new.out = r.out /\ new.sawReg = r.sawReg /\ new.cfgRace = r.cfgRace
          /\ new.step = "writePid"
      BY <2>r DEF ProcType
    <3>2. /\ proc' = [proc EXCEPT ![p] = new] /\ r.step = "startWG"
          /\ config' = config /\ regDone' = regDone /\ cfgCut' = cfgCut
      BY <2>9 DEF StartWG, files, history
    <3> HIDE DEF new
    <3> QED
      BY <2>g, <3>1, <3>2
  <2>10. CASE WGPanics(p)
    BY <2>10, <2>e, <2>o, <2>w DEF WGPanics, files
  <2>11. CASE WritePid(p)
    <3> DEFINE new == [r EXCEPT !.step = "wait"]
    <3>1. /\ new.out = r.out /\ new.sawReg = r.sawReg /\ new.cfgRace = r.cfgRace
          /\ new.step = "wait"
      BY <2>r DEF ProcType
    <3>2. /\ proc' = [proc EXCEPT ![p] = new] /\ r.step = "writePid"
          /\ config' = config /\ regDone' = regDone /\ cfgCut' = cfgCut
      BY <2>11 DEF WritePid, Goto, history
    <3> HIDE DEF new
    <3> QED
      BY <2>g, <3>1, <3>2
  <2>12. CASE Leave(p)
    BY <2>12, <2>e, <2>o DEF Leave, history
  <2>13. CASE Down(p)
    <3> DEFINE new == [r EXCEPT !.step = "done", !.out = "disconnected", !.sawUp = Connected]
    <3>1. /\ new.out = "disconnected" /\ new.sawReg = r.sawReg /\ new.cfgRace = r.cfgRace
          /\ new.step = "done"
      BY <2>r DEF ProcType
    <3>2. proc' = [proc EXCEPT ![p] = new] /\ r.step = "loadConfig"
      BY <2>13 DEF Down
    <3>3. config' = config /\ regDone' = regDone /\ cfgCut' = cfgCut
      BY <2>13 DEF Down, history
    <3> HIDE DEF new
    <3> QED
      BY <2>o, <3>1, <3>2, <3>3, ConfigKept
  <2>14. CASE StatusConfig(p)
    <3> DEFINE new == [r EXCEPT !.step = "stat", !.ip = config.ip]
    <3>1. /\ new.out = r.out /\ new.sawReg = r.sawReg /\ new.cfgRace = r.cfgRace
          /\ new.step = "stat" /\ new.wg = r.wg
      BY <2>r DEF ProcType
    <3>2. /\ proc' = [proc EXCEPT ![p] = new] \/ Exit(p, "not connected")
          /\ r.step = "loadConfig" /\ ~r.wg
          /\ config' = config /\ regDone' = regDone /\ cfgCut' = cfgCut
      BY <2>14, <2>w DEF StatusConfig, files, history
    <3> HIDE DEF new
    <3> QED
      BY <2>e, <2>g, <2>o, <3>1, <3>2
  <2>15. CASE StatusPid(p)
    BY <2>15, <2>e, <2>o DEF StatusPid, files, history
  <2>16. CASE Serve(p)
    BY <2>16, <2>e, <2>o DEF Serve, files, history
  <2>17. CASE kills' = kills + 1 /\ Kill(p)
    BY <2>17, <2>e, <2>o DEF Kill, files
  <2>18. CASE kills' = kills + 1 /\ Term(p)
    <3> DEFINE new == [r EXCEPT !.sig = TRUE]
    <3>1. /\ new.out = r.out /\ new.sawReg = r.sawReg /\ new.cfgRace = r.cfgRace
          /\ new.step = r.step /\ new.wg = r.wg
      BY <2>r DEF ProcType
    <3>2. /\ proc' = [proc EXCEPT ![p] = new] /\ r.step # "fillConfig"
          /\ config' = config /\ regDone' = regDone /\ cfgCut' = cfgCut
      BY <2>18 DEF Term, files, history
    <3> HIDE DEF new
    <3> QED
      BY <2>g, <2>w, <3>1, <3>2
  <2> QED
    BY <2>1, <2>2, <2>3, <2>4, <2>5, <2>6, <2>7, <2>8, <2>9, <2>10, <2>11, <2>12,
       <2>13, <2>14, <2>15, <2>16, <2>17, <2>18
<1> QED
  BY <1>1, <1>2

(***************************************************************************)
(* HsClient.RefusedOnlyUnregistered: after a register has ended, up says   *)
(* "not registered" only if it read config while that was being rewritten, *)
(* or a process died rewriting it.                                         *)
(***************************************************************************)
THEOREM RefusedCorrect == Spec => []RefusedOnlyUnregistered
<1>1. ConfigInv => RefusedOnlyUnregistered
  BY DEF ConfigInv, RefusedOnlyUnregistered
<1> QED
  BY <1>1, ConfigInit, ConfigStep, TypeInit, TypeStep, PTL DEF Spec
=============================================================================
