--------------------------- MODULE ContextProofs ---------------------------
(***************************************************************************)
(* What the processes of a domain do around their contexts: they open the  *)
(* registry (RegistryOpen), sweep, start and exit (Lifecycle), and ring    *)
(* and wait on their doorbells (Doorbell).  The three modules share no     *)
(* variable; their theorems stand side by side here.                       *)
(*                                                                         *)
(* Sweeps, starts, exits and deaths, for any number of processes and PIDs: *)
(* a process that leaves in good order leaves no file, a sweep removes     *)
(* every file whose PID was free all along, and no sweep and no new name   *)
(* takes a file from a living process unless two names are made from the   *)
(* same PID, counter and time.                                             *)
(***************************************************************************)
EXTENDS Lifecycle, RegistryOpen, Doorbell, TLAPS

(* Where a process is decides what it has: names and open files come after  *)
(* the sweep, a name to unlink only during it.                              *)
PhaseInv ==
  \A i \in Procs :
    /\ pc[i] # "none" => pid[i] \in Pids
    /\ pc[i] \in {"none", "sweep", "unlink", "bind"} => ctr[i] = 0
    /\ pc[i] \notin {"copy", "up"} => open[i] = {}
    /\ pc[i] # "unlink" => target[i] = {}
    /\ pc[i] \notin {"sweep", "unlink"} => todo[i] = {}
    /\ pc[i] \notin {"sweep", "unlink", "bind"} => doomed[i] = {}

(* A file belongs to a process that has it open or that was killed.         *)
OwnerInv ==
  \A f \in files :
    \/ pc[f.owner] = "dead"
    \/ pc[f.owner] \in {"copy", "up"} /\ [name |-> f.name, nth |-> f.nth] \in open[f.owner]

(* The names doomed since a sweep began belong to no living process, and    *)
(* those still in the directory are ahead of the sweep.                     *)
DoomedInv ==
  \A i \in Procs : \A n \in doomed[i] :
    /\ ~PidAlive(n.pid)
    /\ n \in Listed => n \in todo[i] \cup target[i]

IInv == TypeOK /\ PhaseInv /\ OwnerInv /\ DoomedInv

(* Before the first process starts there is no file.                        *)
LEMMA InitIInv == Init => IInv
  <1> SUFFICES ASSUME Init PROVE IInv
    OBVIOUS
  <1> USE LifecycleAssumption
  <1>0. stamps \subseteq Pids \X (0 .. CtrMod - 1) \X Times /\ clash \in BOOLEAN
    BY DEF Init
  <1>1. TypeOK
    <2> HIDE LifecycleAssumption
    <2>1. /\ pid \in [Procs -> Pids \cup {NoPid}] /\ ctr \in [Procs -> 0 .. MaxNames]
          /\ files = {}
      BY LifecycleAssumption DEF Init
    <2> QED BY <1>0, <2>1 DEF Init, TypeOK
  <1>2. PhaseInv /\ OwnerInv /\ DoomedInv
    BY DEF Init, PhaseInv, OwnerInv, DoomedInv
  <1> QED BY <1>1, <1>2 DEF IInv

(* The name a process makes is a name, of its own PID.                      *)
LEMMA NameType ==
  ASSUME IInv, NEW i \in Procs, pc[i] # "none", NEW t \in Times
  PROVE  /\ NameOf(i, t) \in Names /\ NameOf(i, t).pid = pid[i] /\ ctr[i] \in Nat
         /\ Stamp(i, t) \in Pids \X (0 .. CtrMod - 1) \X Times
  <1>1. pid[i] \in Pids /\ ctr[i] \in 0 .. MaxNames
    BY DEF IInv, TypeOK, PhaseInv
  <1>2. ctr[i] % CtrMod \in 0 .. CtrMod - 1
    BY <1>1, LifecycleAssumption
  <1> QED BY <1>1, <1>2, LifecycleAssumption DEF NameOf, Names, Stamp

(* Types are kept.                                                          *)
LEMMA NextType == ASSUME IInv, [Next]_vars PROVE TypeOK'
  <1> USE LifecycleAssumption DEF IInv, TypeOK, At, history
  <1>1. ASSUME NEW i \in Procs, NEW p \in Pids, Start(i, p) PROVE TypeOK'
    <2>1. Listed \subseteq Names
      BY DEF Listed
    <2>2. doomed' \in [Procs -> SUBSET Names]
      BY <1>1, <2>1 DEF Start
    <2> QED BY <1>1, <2>1, <2>2 DEF Start
  <1>2. ASSUME NEW i \in Procs, SweepStat(i) PROVE TypeOK'
    BY <1>2 DEF SweepStat
  <1>3. ASSUME NEW i \in Procs, SweepUnlink(i) PROVE TypeOK'
    BY <1>3 DEF SweepUnlink, Without
  <1>4. ASSUME NEW i \in Procs, SweepDone(i) PROVE TypeOK'
    BY <1>4 DEF SweepDone
  <1>5. ASSUME NEW i \in Procs, pc[i] \in {"bind", "up"}, ctr[i] < MaxNames, MakeFile(i)
        PROVE  /\ ctr' \in [Procs -> 0 .. MaxNames]
               /\ open' \in [Procs -> SUBSET [name : Names, nth : 0 .. MaxNames - 1]]
               /\ files' \subseteq [name : Names, owner : Procs, nth : 0 .. MaxNames - 1]
               /\ stamps' \subseteq Pids \X (0 .. CtrMod - 1) \X Times /\ clash' \in BOOLEAN
    <2>0. PICK t \in Times : MakeFileAt(i, t)
      BY <1>5 DEF MakeFile
    <2>1. NameOf(i, t) \in Names /\ ctr[i] \in 0 .. MaxNames - 1
      BY <1>5, NameType
    <2>2. Stamp(i, t) \in Pids \X (0 .. CtrMod - 1) \X Times
      BY <1>5, NameType
    <2>3. stamps' \subseteq Pids \X (0 .. CtrMod - 1) \X Times
      BY <2>0, <2>2 DEF MakeFileAt
    <2>4. clash' \in BOOLEAN
      BY <2>0 DEF MakeFileAt
    <2> QED BY <1>5, <2>0, <2>1, <2>3, <2>4 DEF MakeFileAt, Without
  <1>6. ASSUME NEW i \in Procs, BindDoorbell(i) PROVE TypeOK'
    <2>1. CASE At(i, "bind", "copy") /\ MakeFile(i)
      <3>1. ctr[i] < MaxNames
        BY <2>1 DEF PhaseInv
      <3> QED BY <1>5, <1>6, <2>1, <3>1 DEF BindDoorbell
    <2>2. CASE At(i, "bind", "failed") /\ UNCHANGED <<files, open, ctr, history>>
      BY <1>6, <2>2 DEF BindDoorbell
    <2> QED BY <1>6, <2>1, <2>2 DEF BindDoorbell
  <1>7. ASSUME NEW i \in Procs, CopyOptions(i) PROVE TypeOK'
    BY <1>7 DEF CopyOptions
  <1>8. ASSUME NEW i \in Procs, CopyFails(i) PROVE TypeOK'
    BY <1>8 DEF CopyFails, Without
  <1>9. ASSUME NEW i \in Procs, OpenEndpoint(i) PROVE TypeOK'
    BY <1>5, <1>9 DEF OpenEndpoint
  <1>10. ASSUME NEW i \in Procs, CloseEndpoint(i) PROVE TypeOK'
    BY <1>10 DEF CloseEndpoint, Without
  <1>11. ASSUME NEW i \in Procs, Fini(i) PROVE TypeOK'
    BY <1>11 DEF Fini, Without
  <1>12. ASSUME NEW i \in Procs, Die(i) PROVE TypeOK'
    BY <1>12 DEF Die
  <1>13. CASE UNCHANGED vars
    BY <1>13 DEF vars
  <1> QED BY <1>1, <1>2, <1>3, <1>4, <1>6, <1>7, <1>8, <1>9, <1>10, <1>11, <1>12, <1>13 DEF Next

(* Each phase keeps what it promises about names, open files and sweeps.    *)
LEMMA NextPhase == ASSUME IInv, [Next]_vars PROVE PhaseInv'
  <1> USE DEF IInv, TypeOK, PhaseInv, At
  <1>1. ASSUME NEW i \in Procs, NEW p \in Pids, Start(i, p) PROVE PhaseInv'
    BY <1>1 DEF Start
  <1>2. ASSUME NEW i \in Procs, SweepStat(i) PROVE PhaseInv'
    BY <1>2 DEF SweepStat
  <1>3. ASSUME NEW i \in Procs, SweepUnlink(i) PROVE PhaseInv'
    BY <1>3 DEF SweepUnlink
  <1>4. ASSUME NEW i \in Procs, SweepDone(i) PROVE PhaseInv'
    BY <1>4 DEF SweepDone
  <1>5. ASSUME NEW i \in Procs, BindDoorbell(i) PROVE PhaseInv'
    BY <1>5 DEF BindDoorbell, MakeFile, MakeFileAt
  <1>6. ASSUME NEW i \in Procs, CopyOptions(i) PROVE PhaseInv'
    BY <1>6 DEF CopyOptions
  <1>7. ASSUME NEW i \in Procs, CopyFails(i) PROVE PhaseInv'
    BY <1>7 DEF CopyFails
  <1>8. ASSUME NEW i \in Procs, OpenEndpoint(i) PROVE PhaseInv'
    BY <1>8 DEF OpenEndpoint, MakeFile, MakeFileAt
  <1>9. ASSUME NEW i \in Procs, CloseEndpoint(i) PROVE PhaseInv'
    BY <1>9 DEF CloseEndpoint
  <1>10. ASSUME NEW i \in Procs, Fini(i) PROVE PhaseInv'
    BY <1>10 DEF Fini
  <1>11. ASSUME NEW i \in Procs, Die(i) PROVE PhaseInv'
    BY <1>11 DEF Die, Alive
  <1>12. CASE UNCHANGED vars
    BY <1>12 DEF vars
  <1> QED BY <1>1, <1>2, <1>3, <1>4, <1>5, <1>6, <1>7, <1>8, <1>9, <1>10, <1>11, <1>12 DEF Next

(* Files come with an open socket or segment, and go before it is closed    *)
(* unless the process is killed.                                            *)
LEMMA NextOwner == ASSUME IInv, [Next]_vars PROVE OwnerInv'
  <1> DEFINE Held(f) == [name |-> f.name, nth |-> f.nth]
  <1> USE DEF IInv, TypeOK, PhaseInv, At
  <1>0. \A f \in files : f.owner \in Procs
    OBVIOUS
  <1>1. ASSUME NEW i \in Procs, NEW p \in Pids, Start(i, p) PROVE OwnerInv'
    BY <1>0, <1>1 DEF Start, OwnerInv
  <1>2. ASSUME NEW i \in Procs, SweepStat(i) PROVE OwnerInv'
    BY <1>0, <1>2 DEF SweepStat, OwnerInv
  <1>3. ASSUME NEW i \in Procs, SweepUnlink(i) PROVE OwnerInv'
    BY <1>0, <1>3 DEF SweepUnlink, Without, OwnerInv
  <1>4. ASSUME NEW i \in Procs, SweepDone(i) PROVE OwnerInv'
    BY <1>0, <1>4 DEF SweepDone, OwnerInv
  <1>5. ASSUME NEW i \in Procs, MakeFile(i), pc[i] # "dead",
               pc'[i] \in {"copy", "up"}, \A j \in Procs \ {i} : pc'[j] = pc[j]
        PROVE  OwnerInv'
    <2>0. PICK t \in Times : MakeFileAt(i, t)
      BY <1>5 DEF MakeFile
    <2> SUFFICES ASSUME NEW f \in files'
                 PROVE  \/ pc'[f.owner] = "dead"
                        \/ pc'[f.owner] \in {"copy", "up"} /\ Held(f) \in open'[f.owner]
      BY DEF OwnerInv
    <2>1. CASE f \in files
      <3>1. open[f.owner] \subseteq open'[f.owner] /\ f.owner \in Procs
        BY <1>0, <1>5, <2>0, <2>1 DEF MakeFileAt
      <3>2. \/ pc[f.owner] = "dead"
            \/ pc[f.owner] \in {"copy", "up"} /\ Held(f) \in open[f.owner]
        BY <2>1 DEF OwnerInv
      <3>3. CASE f.owner = i
        BY <1>5, <3>1, <3>2, <3>3
      <3> QED BY <1>5, <3>1, <3>2, <3>3
    <2>2. CASE f = [name |-> NameOf(i, t), owner |-> i, nth |-> ctr[i]]
      BY <1>5, <2>0, <2>2 DEF MakeFileAt
    <2> QED BY <2>0, <2>1, <2>2 DEF MakeFileAt, Without
  <1>6. ASSUME NEW i \in Procs, BindDoorbell(i) PROVE OwnerInv'
    <2>1. CASE At(i, "bind", "copy") /\ MakeFile(i)
      BY <1>5, <2>1
    <2>2. CASE At(i, "bind", "failed") /\ UNCHANGED <<files, open, ctr, history>>
      BY <1>0, <2>2 DEF OwnerInv
    <2> QED BY <1>6, <2>1, <2>2 DEF BindDoorbell
  <1>7. ASSUME NEW i \in Procs, CopyOptions(i) PROVE OwnerInv'
    BY <1>0, <1>7 DEF CopyOptions, OwnerInv
  <1>8. ASSUME NEW i \in Procs, files' = Without(OpenNames(i)),
               open' = [open EXCEPT ![i] = {}], pc[i] \in {"copy", "up"},
               \A j \in Procs \ {i} : pc'[j] = pc[j]
        PROVE  OwnerInv'
    <2>1. \A f \in files' : f \in files /\ f.owner # i
      <3> SUFFICES ASSUME NEW f \in files', f.owner = i PROVE FALSE
        BY <1>8 DEF Without
      <3>1. Held(f) \in open[i] /\ Held(f).name = f.name
        BY <1>8 DEF Without, OwnerInv
      <3>2. f.name \in OpenNames(i)
        BY <3>1 DEF OpenNames
      <3> QED BY <1>8, <3>2 DEF Without
    <2>2. ASSUME NEW f \in files'
          PROVE  f \in files /\ pc'[f.owner] = pc[f.owner] /\ open'[f.owner] = open[f.owner]
      <3>1. f \in files /\ f.owner # i /\ f.owner \in Procs
        BY <1>0, <2>1, <2>2
      <3> QED BY <1>0, <1>8, <3>1
    <2> QED BY <2>2 DEF OwnerInv
  <1>9. ASSUME NEW i \in Procs, CopyFails(i) PROVE OwnerInv'
    BY <1>8, <1>9 DEF CopyFails
  <1>10. ASSUME NEW i \in Procs, OpenEndpoint(i) PROVE OwnerInv'
    BY <1>5, <1>10 DEF OpenEndpoint
  <1>11. ASSUME NEW i \in Procs, CloseEndpoint(i) PROVE OwnerInv'
    <2>1. PICK o \in open[i] : open' = [open EXCEPT ![i] = @ \ {o}] /\ files' = Without({o.name})
      BY <1>11 DEF CloseEndpoint
    <2>2. \A f \in files' : f \in files /\ Held(f) # o
      BY <2>1 DEF Without
    <2> QED BY <1>0, <1>11, <2>1, <2>2 DEF CloseEndpoint, OwnerInv
  <1>12. ASSUME NEW i \in Procs, Fini(i) PROVE OwnerInv'
    BY <1>8, <1>12 DEF Fini
  <1>13. ASSUME NEW i \in Procs, Die(i) PROVE OwnerInv'
    BY <1>0, <1>13 DEF Die, Alive, OwnerInv
  <1>14. CASE UNCHANGED vars
    BY <1>14 DEF vars, OwnerInv
  <1> QED BY <1>1, <1>2, <1>3, <1>4, <1>6, <1>7, <1>9, <1>10, <1>11, <1>12, <1>13, <1>14
         DEF Next

(* The new file of a living process has no doomed name.                     *)
LEMMA MakeFileDoomed ==
  ASSUME IInv, NEW i \in Procs, pc[i] \in {"bind", "up"}, MakeFile(i),
         NEW j \in Procs, NEW n \in doomed[j], n \in Listed'
  PROVE  n \in Listed
  <1>0. PICK t \in Times : MakeFileAt(i, t)
    BY DEF MakeFile
  <1>1. NameOf(i, t).pid = pid[i] /\ PidAlive(pid[i])
    BY NameType DEF PidAlive, Alive
  <1>2. n # NameOf(i, t)
    BY <1>1 DEF IInv, DoomedInv
  <1> QED BY <1>0, <1>2 DEF MakeFileAt, Without, Listed

(* A sweep never leaves a doomed name behind it.                            *)
LEMMA NextDoomed == ASSUME IInv, [Next]_vars PROVE DoomedInv'
  <1> USE DEF IInv, TypeOK, PhaseInv, DoomedInv, At, PidAlive, Alive
  <1>1. ASSUME NEW i \in Procs, NEW p \in Pids, Start(i, p) PROVE DoomedInv'
    BY <1>1 DEF Start, Listed
  <1>2. ASSUME NEW i \in Procs, SweepStat(i) PROVE DoomedInv'
    BY <1>2 DEF SweepStat, Listed
  <1>3. ASSUME NEW i \in Procs, SweepUnlink(i) PROVE DoomedInv'
    BY <1>3 DEF SweepUnlink, Without, Listed
  <1>4. ASSUME NEW i \in Procs, SweepDone(i) PROVE DoomedInv'
    BY <1>4 DEF SweepDone, Listed
  <1>5. ASSUME NEW i \in Procs, BindDoorbell(i) PROVE DoomedInv'
    BY <1>5, MakeFileDoomed DEF BindDoorbell, Listed
  <1>6. ASSUME NEW i \in Procs, CopyOptions(i) PROVE DoomedInv'
    BY <1>6 DEF CopyOptions, Listed
  <1>7. ASSUME NEW i \in Procs, CopyFails(i) PROVE DoomedInv'
    BY <1>7 DEF CopyFails, Without, Listed
  <1>8. ASSUME NEW i \in Procs, OpenEndpoint(i) PROVE DoomedInv'
    BY <1>8, MakeFileDoomed DEF OpenEndpoint
  <1>9. ASSUME NEW i \in Procs, CloseEndpoint(i) PROVE DoomedInv'
    BY <1>9 DEF CloseEndpoint, Without, Listed
  <1>10. ASSUME NEW i \in Procs, Fini(i) PROVE DoomedInv'
    BY <1>10 DEF Fini, Without, Listed
  <1>11. ASSUME NEW i \in Procs, Die(i) PROVE DoomedInv'
    BY <1>11 DEF Die, Listed
  <1>12. CASE UNCHANGED vars
    BY <1>12 DEF vars, Listed
  <1> QED BY <1>1, <1>2, <1>3, <1>4, <1>5, <1>6, <1>7, <1>8, <1>9, <1>10, <1>11, <1>12 DEF Next

(* IInv holds always.                                                       *)
LEMMA Inductive == Spec => []IInv
  <1>1. IInv /\ [Next]_vars => IInv'
    BY NextType, NextPhase, NextOwner, NextDoomed DEF IInv
  <1> QED BY InitIInv, <1>1, PTL DEF Spec

(* Names keep their width and every process its phase, whatever dies when.  *)
THEOREM TypeCorrect == Spec => []TypeOK
  <1>1. IInv => TypeOK
    BY DEF IInv
  <1> QED BY Inductive, <1>1, PTL

(* A process that ran rmw_context_fini, or whose rmw_init failed at any of  *)
(* its steps, has no file left in the directories (rmw_init.cpp).           *)
THEOREM ExitsClean == Spec => []CleanExit
  <1>1. IInv => CleanExit
    BY DEF IInv, OwnerInv, CleanExit
  <1> QED BY Inductive, <1>1, PTL

(* At the end of a sweep no file is left whose PID was free since the sweep *)
(* began, whatever other processes did meanwhile.                           *)
THEOREM SweepsComplete == Spec => []SweepComplete
  <1>1. IInv => SweepComplete
    BY DEF IInv, PhaseInv, DoomedInv, SweepComplete
  <1> QED BY Inductive, <1>1, PTL
-----------------------------------------------------------------------------
(* The files of the living.  Every name in use, listed by a sweep or about  *)
(* to be unlinked was made at some time; unless two names are made from the *)
(* same PID, counter and time, a new name is none of them.                  *)

StampOf(n) == <<n.pid, n.ctr, n.time>>

UsedInv ==
  /\ \A f \in files : StampOf(f.name) \in stamps
  /\ \A i \in Procs : \A o \in open[i] : StampOf(o.name) \in stamps /\ o.name.pid = pid[i]
  /\ \A i \in Procs : \A n \in todo[i] \cup target[i] : StampOf(n) \in stamps

(* No two sockets or segments have the same name; none has the name that a  *)
(* sweep is about to unlink; each has its file.                             *)
OpenApart ==
  \A i, j \in Procs : \A o \in open[i], x \in open[j] : o.name = x.name => i = j /\ o = x
OpenSpared == \A i, k \in Procs : \A o \in open[i] : o.name \notin target[k]
FileOf(i, o) == [name |-> o.name, owner |-> i, nth |-> o.nth]
OpenLinked == \A i \in Procs : \A o \in open[i] : FileOf(i, o) \in files

LiveInv == UsedInv /\ (clash \/ (OpenApart /\ OpenSpared /\ OpenLinked))

(* A name is made from its stamp ...                                        *)
LEMMA StampOfName == ASSUME NEW i, NEW t PROVE StampOf(NameOf(i, t)) = Stamp(i, t)
  BY DEF StampOf, NameOf, Stamp

(* ... and, without a clash, is none of the names made before.              *)
LEMMA NewName ==
  ASSUME NEW i \in Procs, NEW t \in Times, MakeFileAt(i, t), ~clash', NEW n, StampOf(n) \in stamps
  PROVE  n # NameOf(i, t)
  <1>1. Stamp(i, t) \notin stamps
    BY DEF MakeFileAt
  <1> QED BY <1>1, StampOfName

(* Every step keeps the record of the names made.                           *)
LEMMA NextUsed == ASSUME IInv, UsedInv, [Next]_vars PROVE UsedInv'
  <1> USE DEF UsedInv, At
  <1>0. /\ \A i \in Procs : pc[i] = "none" => open[i] = {}
        /\ DOMAIN pid = Procs /\ DOMAIN open = Procs /\ DOMAIN todo = Procs /\ DOMAIN target = Procs
    BY DEF IInv, TypeOK, PhaseInv
  <1>1. ASSUME NEW i \in Procs, NEW p \in Pids, Start(i, p) PROVE UsedInv'
    <2>1. \A j \in Procs : todo'[j] = IF j = i THEN Listed ELSE todo[j]
      BY <1>0, <1>1 DEF Start
    <2>2. \A n \in Listed : StampOf(n) \in stamps
      BY DEF Listed
    <2>3. \A j \in Procs : open[j] # {} => pid'[j] = pid[j]
      BY <1>0, <1>1 DEF Start
    <2> QED BY <1>1, <2>1, <2>2, <2>3 DEF Start, history
  <1>2. ASSUME NEW i \in Procs, MakeFile(i), pc[i] # "none", UNCHANGED <<pid, todo, target>>
        PROVE  UsedInv'
    <2>1. PICK t \in Times : MakeFileAt(i, t)
      BY <1>2 DEF MakeFile
    <2>2. stamps \subseteq stamps' /\ StampOf(NameOf(i, t)) \in stamps' /\ NameOf(i, t).pid = pid[i]
      BY <2>1, StampOfName DEF MakeFileAt, NameOf
    <2>3. \A f \in files' : f \in files \/ f = [name |-> NameOf(i, t), owner |-> i, nth |-> ctr[i]]
      BY <2>1 DEF MakeFileAt, Without
    <2>4. \A j \in Procs : \A o \in open'[j] :
            o \in open[j] \/ (j = i /\ o = [name |-> NameOf(i, t), nth |-> ctr[i]])
      BY <1>0, <2>1 DEF MakeFileAt
    <2> QED BY <1>2, <2>2, <2>3, <2>4
  <1>3. ASSUME files' \subseteq files, \A j \in Procs : open'[j] \subseteq open[j],
               \A j \in Procs : todo'[j] \cup target'[j] \subseteq todo[j] \cup target[j],
               UNCHANGED <<pid, stamps>>
        PROVE  UsedInv'
    BY <1>3
  <1>4. ASSUME NEW i \in Procs, SweepStat(i) PROVE UsedInv'
    <2>1. \A j \in Procs : todo'[j] \cup target'[j] \subseteq todo[j] \cup target[j]
      BY <1>0, <1>4 DEF SweepStat
    <2> QED BY <1>3, <1>4, <2>1 DEF SweepStat, history
  <1>5. ASSUME NEW i \in Procs, SweepUnlink(i) \/ SweepDone(i) \/ CopyOptions(i) PROVE UsedInv'
    BY <1>0, <1>3, <1>5 DEF SweepUnlink, SweepDone, CopyOptions, Without, history
  <1>6. ASSUME NEW i \in Procs, BindDoorbell(i) PROVE UsedInv'
    BY <1>2, <1>3, <1>6 DEF BindDoorbell, history
  <1>7. ASSUME NEW i \in Procs, OpenEndpoint(i) PROVE UsedInv'
    BY <1>2, <1>7 DEF OpenEndpoint
  <1>8. ASSUME NEW i \in Procs, CopyFails(i) \/ CloseEndpoint(i) \/ Fini(i) \/ Die(i) PROVE UsedInv'
    BY <1>0, <1>3, <1>8 DEF CopyFails, CloseEndpoint, Fini, Die, Without, history
  <1>9. CASE UNCHANGED vars
    BY <1>9 DEF vars, history
  <1> QED BY <1>1, <1>4, <1>5, <1>6, <1>7, <1>8, <1>9 DEF Next

(* A clash is not forgotten.                                                *)
LEMMA ClashStays == ASSUME clash, [Next]_vars PROVE clash'
  <1>1. ASSUME NEW i \in Procs, MakeFile(i) PROVE clash'
    BY <1>1 DEF MakeFile, MakeFileAt
  <1>2. CASE UNCHANGED vars
    BY <1>2 DEF vars, history
  <1>3. CASE Next
    BY <1>1, <1>3 DEF Next, history, Start, SweepStat, SweepUnlink, SweepDone, BindDoorbell,
       CopyOptions, CopyFails, OpenEndpoint, CloseEndpoint, Fini, Die
  <1> QED BY <1>2, <1>3

(* No step without a clash takes a file from a living process, or its name. *)
LEMMA NextLive ==
  ASSUME IInv, UsedInv, OpenApart, OpenSpared, OpenLinked, [Next]_vars, ~clash'
  PROVE  OpenApart' /\ OpenSpared' /\ OpenLinked'
  <1> DEFINE Goal == OpenApart' /\ OpenSpared' /\ OpenLinked'
  <1> USE DEF At
  <1>0. DOMAIN open = Procs /\ DOMAIN target = Procs
    BY DEF IInv, TypeOK
  <1>1. ASSUME NEW N, Without(N) \subseteq files', \A j \in Procs : open'[j] \subseteq open[j],
               \A j \in Procs : \A o \in open'[j] : o.name \notin N,
               \A k \in Procs : target'[k] \subseteq target[k]
        PROVE  Goal
    <2>1. OpenApart' /\ OpenSpared'
      BY <1>1 DEF OpenApart, OpenSpared
    <2>2. ASSUME NEW j \in Procs, NEW o \in open'[j] PROVE FileOf(j, o) \in files'
      <3>1. FileOf(j, o) \in files /\ FileOf(j, o).name = o.name
        BY <1>1 DEF OpenLinked, FileOf
      <3> QED BY <1>1, <3>1 DEF Without
    <2> QED BY <2>1, <2>2 DEF OpenLinked, FileOf
  <1>2. ASSUME UNCHANGED <<open, files>>, \A k \in Procs : target'[k] \subseteq target[k] PROVE Goal
    BY <1>2 DEF OpenApart, OpenSpared, OpenLinked, FileOf
  <1>3. ASSUME NEW i \in Procs, MakeFile(i), pc[i] # "none", UNCHANGED target PROVE Goal
    <2>1. PICK t \in Times : MakeFileAt(i, t)
      BY <1>3 DEF MakeFile
    <2> DEFINE new == [name |-> NameOf(i, t), nth |-> ctr[i]]
    <2>2. /\ \A j \in Procs : \A o \in open[j] : o.name # NameOf(i, t)
          /\ \A k \in Procs : NameOf(i, t) \notin target[k]
      BY <2>1, NewName DEF UsedInv
    <2>3. \A j \in Procs : \A o \in open'[j] : o \in open[j] \/ (j = i /\ o = new)
      BY <1>0, <2>1 DEF MakeFileAt
    <2>4. OpenApart'
      BY <2>2, <2>3 DEF OpenApart
    <2>5. OpenSpared'
      BY <1>3, <2>2, <2>3 DEF OpenSpared
    <2>6. ASSUME NEW j \in Procs, NEW o \in open'[j] PROVE FileOf(j, o) \in files'
      <3>1. CASE o \in open[j]
        <4>1. FileOf(j, o) \in files /\ FileOf(j, o).name = o.name
          BY <3>1 DEF OpenLinked, FileOf
        <4> QED BY <2>1, <2>2, <3>1, <4>1 DEF MakeFileAt, Without
      <3>2. CASE j = i /\ o = new
        BY <2>1, <3>2 DEF MakeFileAt, FileOf
      <3> QED BY <2>3, <3>1, <3>2
    <2> QED BY <2>4, <2>5, <2>6 DEF OpenLinked, FileOf
  <1>4. ASSUME NEW i \in Procs, NEW p \in Pids, Start(i, p) PROVE Goal
    BY <1>2, <1>4 DEF Start
  <1>5. ASSUME NEW i \in Procs, SweepStat(i) PROVE Goal
    <2>1. CASE UNCHANGED target
      BY <1>2, <1>5, <2>1 DEF SweepStat
    <2>2. CASE \E n \in todo[i] : ~PidAlive(n.pid) /\ target' = [target EXCEPT ![i] = {n}]
      <3>1. PICK n \in todo[i] : ~PidAlive(n.pid) /\ target' = [target EXCEPT ![i] = {n}]
        BY <2>2
      <3>2. ASSUME NEW j \in Procs, NEW o \in open[j] PROVE o.name # n
        <4>1. o.name.pid = pid[j] /\ Alive(j)
          BY <3>2 DEF UsedInv, IInv, PhaseInv, Alive
        <4> QED BY <3>1, <4>1 DEF PidAlive
      <3> QED BY <1>0, <1>5, <3>1, <3>2 DEF SweepStat, OpenApart, OpenSpared, OpenLinked, FileOf
    <2> QED BY <1>5, <2>1, <2>2 DEF SweepStat
  <1>6. ASSUME NEW i \in Procs, SweepUnlink(i) PROVE Goal
    BY <1>0, <1>1, <1>6 DEF SweepUnlink, OpenSpared
  <1>7. ASSUME NEW i \in Procs, BindDoorbell(i) PROVE Goal
    BY <1>2, <1>3, <1>7 DEF BindDoorbell
  <1>8. ASSUME NEW i \in Procs, OpenEndpoint(i) PROVE Goal
    BY <1>3, <1>8 DEF OpenEndpoint
  <1>9. ASSUME NEW i \in Procs, CloseEndpoint(i) PROVE Goal
    <2>1. PICK x \in open[i] : open' = [open EXCEPT ![i] = @ \ {x}] /\ files' = Without({x.name})
      BY <1>9 DEF CloseEndpoint
    <2>2. \A j \in Procs : \A o \in open'[j] : o \in open[j] /\ o.name # x.name
      BY <1>0, <2>1 DEF OpenApart
    <2> QED BY <1>1, <1>9, <2>1, <2>2 DEF CloseEndpoint
  <1>10. ASSUME NEW i \in Procs, files' = Without(OpenNames(i)), open' = [open EXCEPT ![i] = {}],
                UNCHANGED target
         PROVE  Goal
    <2>1. \A j \in Procs : \A o \in open'[j] : o \in open[j] /\ o.name \notin OpenNames(i)
      BY <1>0, <1>10 DEF OpenNames, OpenApart
    <2> QED BY <1>1, <1>10, <2>1
  <1>11. ASSUME NEW i \in Procs, CopyFails(i) \/ Fini(i) PROVE Goal
    BY <1>10, <1>11 DEF CopyFails, Fini
  <1>12. ASSUME NEW i \in Procs, Die(i) PROVE Goal
    BY <1>0, <1>12 DEF Die, OpenApart, OpenSpared, OpenLinked, FileOf
  <1>13. ASSUME NEW i \in Procs, SweepDone(i) \/ CopyOptions(i) PROVE Goal
    BY <1>2, <1>13 DEF SweepDone, CopyOptions
  <1>14. CASE UNCHANGED vars
    BY <1>2, <1>14 DEF vars
  <1> QED BY <1>4, <1>5, <1>6, <1>7, <1>8, <1>9, <1>11, <1>12, <1>13, <1>14 DEF Next

(* The files of a living process stay reachable under their names, whoever  *)
(* sweeps and whichever PIDs are given out again, unless two names are made *)
(* from the same PID, counter and time (transport.cpp, make_socket_path;    *)
(* rmw_init.cpp, the orphan sweeps).                                        *)
THEOREM LivingKeepTheirFiles == Spec => []LiveFilesStay
  <1>1. Init => LiveInv
    BY DEF Init, LiveInv, UsedInv, OpenApart, OpenSpared, OpenLinked
  <1>2. IInv /\ LiveInv /\ [Next]_vars => LiveInv'
    <2> SUFFICES ASSUME IInv, LiveInv, [Next]_vars PROVE LiveInv'
      OBVIOUS
    <2>1. UsedInv'
      BY NextUsed DEF LiveInv
    <2>2. CASE clash'
      BY <2>1, <2>2 DEF LiveInv
    <2>3. CASE ~clash'
      <3>1. ~clash
        BY <2>3, ClashStays
      <3>2. OpenApart' /\ OpenSpared' /\ OpenLinked'
        BY <2>3, <3>1, NextLive DEF LiveInv
      <3> QED BY <2>1, <3>2 DEF LiveInv
    <2> QED BY <2>2, <2>3
  <1>3. LiveInv => LiveFilesStay
    BY DEF LiveInv, OpenLinked, FileOf, LiveFilesStay
  <1> QED BY Inductive, <1>1, <1>2, <1>3, PTL DEF Spec

-----------------------------------------------------------------------------
(***************************************************************************)
(* registry_open never lets a process use a file shorter than the layout:  *)
(* for any number of processes, any file found at the start, any number of *)
(* reclaims and a crash at any point.  It also leads every process to one  *)
(* registry and wipes nobody's entry, except through the three wrong turns *)
(* that slips records.                                                     *)
(***************************************************************************)

MappedPcs == {"spin", "memset", "publish", "opened", "registered"}

(* A process past shm_open holds a file.                                    *)
FdInv ==
  \A p \in Openers : opc[p] \in MappedPcs \cup {"truncate", "stat", "unlink"} => fd[p] \in Files

OpenInv == OpenTypeOK /\ FdInv /\ NeverMapsShort

(* The invariant holds before any process opens the registry.               *)
LEMMA InitOpenInv == OpenInit => OpenInv
  <1> SUFFICES ASSUME OpenInit PROVE OpenInv
    OBVIOUS
  <1>1. OpenTypeOK
    <2>1. nfiles \in 0 .. MaxFiles /\ name \in {NoFile} \cup Files
       BY RegistryOpenAssumption DEF OpenInit, Files, NoFile
    <2>2. fsize \in [Files -> Sizes] /\ version \in [Files -> Versions]
       BY DEF OpenInit, Sizes, Versions
    <2>3. entries \in [Files -> SUBSET Openers] /\ lost \subseteq Openers /\ slips \subseteq Slips
       BY DEF OpenInit
    <2>4. fd \in [Openers -> {NoFile} \cup Files] /\ attempt \in [Openers -> 1 .. 2]
       BY DEF OpenInit
    <2>5. opc = [p \in Openers |-> "create"]
       BY DEF OpenInit
    <2> QED BY <2>1, <2>2, <2>3, <2>4, <2>5 DEF OpenTypeOK
  <1>2. FdInv /\ NeverMapsShort
     BY DEF OpenInit, FdInv, NeverMapsShort, MappedPcs
  <1> QED BY <1>1, <1>2 DEF OpenInv

(* Every step keeps OpenInv: sizes are set once, to the layout's, before   *)
(* the creator maps, and every other process checks the size first.         *)
LEMMA NextOpenInv == OpenInv /\ [OpenNext]_openVars => OpenInv'
  <1> SUFFICES ASSUME OpenInv, [OpenNext]_openVars PROVE OpenInv'
    OBVIOUS
  <1> USE RegistryOpenAssumption DEF OpenInv, OpenTypeOK, FdInv, NeverMapsShort, MappedPcs, Step, Slip, Slips,
      fileVars
  <1>1. ASSUME NEW p \in Openers, Create(p) PROVE OpenInv'
    <2>1. nfiles + 1 \in Files
       BY <1>1 DEF Create, Files
    <2> QED BY <1>1, <2>1 DEF Create, Sizes
  <1>2. ASSUME NEW p \in Openers, Exists(p) PROVE OpenInv'
     BY <1>2 DEF Exists
  <1>3. ASSUME NEW p \in Openers, Truncate(p) PROVE OpenInv'
     BY <1>3 DEF Truncate, Sizes
  <1>4. ASSUME NEW p \in Openers, Memset(p) PROVE OpenInv'
     BY <1>4 DEF Memset, Versions
  <1>5. ASSUME NEW p \in Openers, PublishVersion(p) PROVE OpenInv'
     BY <1>5 DEF PublishVersion, Versions
  <1>6. ASSUME NEW p \in Openers, Open(p) PROVE OpenInv'
     BY <1>6 DEF Open
  <1>7. ASSUME NEW p \in Openers, Stat(p) PROVE OpenInv'
     BY <1>7 DEF Stat
  <1>8. ASSUME NEW p \in Openers, Unlink(p) PROVE OpenInv'
     BY <1>8 DEF Unlink
  <1>9. ASSUME NEW p \in Openers, SpinEnds(p) PROVE OpenInv'
     BY <1>9 DEF SpinEnds
  <1>10. ASSUME NEW p \in Openers, SpinTimeout(p) PROVE OpenInv'
     BY <1>10 DEF SpinTimeout
  <1>11. ASSUME NEW p \in Openers, Register(p) PROVE OpenInv'
     BY <1>11 DEF Register
  <1>12. ASSUME NEW p \in Openers, Crash(p) PROVE OpenInv'
     BY <1>12 DEF Crash
  <1>13. CASE UNCHANGED openVars
     BY <1>13 DEF openVars, procVars
  <1> QED BY <1>1, <1>2, <1>3, <1>4, <1>5, <1>6, <1>7, <1>8, <1>9, <1>10, <1>11, <1>12, <1>13
         DEF OpenNext, OpenStep

(* No process maps a registry file shorter than the layout, so no access to *)
(* the slot array faults (registry.cpp, the st_size check of registry_open).*)
THEOREM NeverMapsShortFile == OpenSpec => []NeverMapsShort
  <1>1. OpenInv => NeverMapsShort
     BY DEF OpenInv
  <1> QED BY InitOpenInv, NextOpenInv, <1>1, PTL DEF OpenSpec

-----------------------------------------------------------------------------
(* One registry, and no entry wiped.                                        *)

(* Nothing brings such a file back: its creator died before it sized it, or *)
(* it has another size or another version.                                  *)
Condemned(f) == version[f] = "other" \/ (fsize[f] # "ours" /\ ~Sizing(f))

(* A file that is not created yet is empty and nobody holds it.             *)
FreshInv ==
  /\ name <= nfiles /\ \A p \in Openers : fd[p] <= nfiles
  /\ \A f \in Files : f > nfiles => fsize[f] = "zero" /\ version[f] = "zero" /\ entries[f] = {}

(* A file has one creator, and nobody with an initialised file, or about to *)
(* initialise it, holds one of another version.                             *)
CreatorInv ==
  /\ \A p, q \in Openers : opc[p] = "truncate" /\ opc[q] = "truncate" /\ fd[p] = fd[q] => p = q
  /\ \A p \in Openers : opc[p] = "truncate" => fsize[fd[p]] = "zero"
  /\ \A p \in Openers : opc[p] \in {"truncate", "memset", "publish", "opened", "registered"} =>
                        version[fd[p]] # "other"

(* A file about to be unlinked is condemned, unless it was judged too early.*)
JudgeInv ==
  "early" \notin slips =>
    \A p \in Openers : opc[p] = "unlink" => Condemned(fd[p])

(* Whoever holds a file that is not condemned holds the one that the name   *)
(* refers to.                                                               *)
HoldInv ==
  ~Misjudged =>
    \A p \in Openers : fd[p] \in Files /\ ~Condemned(fd[p]) => fd[p] = name

Initialisers == {"truncate", "memset", "publish"}

(* While no spin ran out on a live initialiser, a file has one initialiser, *)
(* the version is published when it is done, and entries come after that.   *)
WipeInv ==
  "race" \notin slips =>
    /\ \A p, q \in Openers :
         opc[p] \in Initialisers /\ opc[q] \in Initialisers /\ fd[p] = fd[q] => p = q
    /\ \A p \in Openers : opc[p] \in Initialisers => version[fd[p]] # "ours"
    /\ \A p \in Openers : Using(p) => version[fd[p]] = "ours"
    /\ \A f \in Files : version[f] # "ours" => entries[f] = {}
    /\ lost = {}

OneInv == FreshInv /\ CreatorInv /\ JudgeInv /\ HoldInv /\ WipeInv

(* Nobody holds a file, and the file found is of another size or version.   *)
LEMMA InitOneInv == OpenInit => OneInv
  <1> SUFFICES ASSUME OpenInit PROVE OneInv
    OBVIOUS
  <1> USE RegistryOpenAssumption
  <1>1. FreshInv
    BY DEF OpenInit, FreshInv, Files, NoFile
  <1>2. CreatorInv /\ JudgeInv
    BY DEF OpenInit, CreatorInv, JudgeInv
  <1>3. HoldInv /\ WipeInv
    BY DEF OpenInit, HoldInv, WipeInv, Initialisers, Using, Files, NoFile
  <1> QED BY <1>1, <1>2, <1>3 DEF OneInv

(* Every file comes into being empty, under the next number.                *)
LEMMA NextFresh ==
  ASSUME OpenInv, FreshInv, [OpenNext]_openVars
  PROVE  FreshInv'
  <1> USE RegistryOpenAssumption DEF OpenInv, OpenTypeOK, FdInv, MappedPcs, FreshInv, NoFile, Files, Step, fileVars
  <1>1. ASSUME NEW p \in Openers, Create(p) PROVE FreshInv'
    <2>1. nfiles + 1 \in Files /\ nfiles \in Nat
      BY <1>1 DEF Create, Files
    <2> QED BY <1>1, <2>1 DEF Create, Files
  <1>2. ASSUME NEW p \in Openers, Exists(p) PROVE FreshInv'
    BY <1>2 DEF Exists
  <1>3. ASSUME NEW p \in Openers, Truncate(p) PROVE FreshInv'
    BY <1>3 DEF Truncate
  <1>4. ASSUME NEW p \in Openers, Memset(p) PROVE FreshInv'
    BY <1>4 DEF Memset
  <1>5. ASSUME NEW p \in Openers, PublishVersion(p) PROVE FreshInv'
    BY <1>5 DEF PublishVersion
  <1>6. ASSUME NEW p \in Openers, Open(p) PROVE FreshInv'
    BY <1>6 DEF Open
  <1>7. ASSUME NEW p \in Openers, Stat(p) PROVE FreshInv'
    BY <1>7 DEF Stat
  <1>8. ASSUME NEW p \in Openers, Unlink(p) PROVE FreshInv'
    BY <1>8 DEF Unlink
  <1>9. ASSUME NEW p \in Openers, SpinEnds(p) PROVE FreshInv'
    BY <1>9 DEF SpinEnds
  <1>10. ASSUME NEW p \in Openers, SpinTimeout(p) PROVE FreshInv'
    BY <1>10 DEF SpinTimeout
  <1>11. ASSUME NEW p \in Openers, Register(p) PROVE FreshInv'
    BY <1>11 DEF Register
  <1>12. ASSUME NEW p \in Openers, Crash(p) PROVE FreshInv'
    BY <1>12 DEF Crash
  <1>13. CASE UNCHANGED openVars
    BY <1>13 DEF openVars, procVars
  <1> QED BY <1>1, <1>2, <1>3, <1>4, <1>5, <1>6, <1>7, <1>8, <1>9, <1>10, <1>11, <1>12, <1>13
         DEF OpenNext, OpenStep

(* A creator sizes its own file, and only what it found uninitialised is    *)
(* initialised.                                                             *)
LEMMA NextCreator ==
  ASSUME OpenInv, FreshInv, CreatorInv, [OpenNext]_openVars
  PROVE  CreatorInv'
  <1> USE RegistryOpenAssumption DEF OpenInv, OpenTypeOK, FdInv, MappedPcs, FreshInv, CreatorInv, NoFile, Step, fileVars
  <1>1. ASSUME NEW p \in Openers, Create(p) PROVE CreatorInv'
    <2>1. nfiles + 1 \in Files /\ nfiles \in Nat
      BY <1>1 DEF Create, Files
    <2> QED BY <1>1, <2>1 DEF Create, Files
  <1>2. ASSUME NEW p \in Openers, Exists(p) PROVE CreatorInv'
    BY <1>2 DEF Exists
  <1>3. ASSUME NEW p \in Openers, Truncate(p) PROVE CreatorInv'
    BY <1>3 DEF Truncate
  <1>4. ASSUME NEW p \in Openers, Memset(p) PROVE CreatorInv'
    BY <1>4 DEF Memset
  <1>5. ASSUME NEW p \in Openers, PublishVersion(p) PROVE CreatorInv'
    BY <1>5 DEF PublishVersion
  <1>6. ASSUME NEW p \in Openers, Open(p) PROVE CreatorInv'
    BY <1>6 DEF Open
  <1>7. ASSUME NEW p \in Openers, Stat(p) PROVE CreatorInv'
    BY <1>7 DEF Stat
  <1>8. ASSUME NEW p \in Openers, Unlink(p) PROVE CreatorInv'
    BY <1>8 DEF Unlink
  <1>9. ASSUME NEW p \in Openers, SpinEnds(p) PROVE CreatorInv'
    BY <1>9 DEF SpinEnds
  <1>10. ASSUME NEW p \in Openers, SpinTimeout(p) PROVE CreatorInv'
    BY <1>10 DEF SpinTimeout
  <1>11. ASSUME NEW p \in Openers, Register(p) PROVE CreatorInv'
    BY <1>11 DEF Register
  <1>12. ASSUME NEW p \in Openers, Crash(p) PROVE CreatorInv'
    BY <1>12 DEF Crash
  <1>13. CASE UNCHANGED openVars
    BY <1>13 DEF openVars, procVars
  <1> QED BY <1>1, <1>2, <1>3, <1>4, <1>5, <1>6, <1>7, <1>8, <1>9, <1>10, <1>11, <1>12, <1>13
         DEF OpenNext, OpenStep

(* A condemned file stays condemned.                                        *)
LEMMA CondemnedStays ==
  ASSUME NEW f \in Files, f <= nfiles, Condemned(f), OpenInv, FreshInv, CreatorInv, [OpenNext]_openVars
  PROVE  Condemned(f)'
  <1> USE RegistryOpenAssumption DEF OpenInv, OpenTypeOK, FdInv, MappedPcs, FreshInv, CreatorInv, Condemned, Sizing, NoFile, Step, fileVars
  <1>1. ASSUME NEW p \in Openers, Create(p) PROVE Condemned(f)'
    <2>1. nfiles + 1 \in Files /\ nfiles \in Nat
      BY <1>1 DEF Create, Files
    <2> QED BY <1>1, <2>1 DEF Create, Files
  <1>2. ASSUME NEW p \in Openers, Exists(p) PROVE Condemned(f)'
    BY <1>2 DEF Exists
  <1>3. ASSUME NEW p \in Openers, Truncate(p) PROVE Condemned(f)'
    BY <1>3 DEF Truncate
  <1>4. ASSUME NEW p \in Openers, Memset(p) PROVE Condemned(f)'
    BY <1>4 DEF Memset
  <1>5. ASSUME NEW p \in Openers, PublishVersion(p) PROVE Condemned(f)'
    BY <1>5 DEF PublishVersion
  <1>6. ASSUME NEW p \in Openers, Open(p) PROVE Condemned(f)'
    BY <1>6 DEF Open
  <1>7. ASSUME NEW p \in Openers, Stat(p) PROVE Condemned(f)'
    BY <1>7 DEF Stat
  <1>8. ASSUME NEW p \in Openers, Unlink(p) PROVE Condemned(f)'
    BY <1>8 DEF Unlink
  <1>9. ASSUME NEW p \in Openers, SpinEnds(p) PROVE Condemned(f)'
    BY <1>9 DEF SpinEnds
  <1>10. ASSUME NEW p \in Openers, SpinTimeout(p) PROVE Condemned(f)'
    BY <1>10 DEF SpinTimeout
  <1>11. ASSUME NEW p \in Openers, Register(p) PROVE Condemned(f)'
    BY <1>11 DEF Register
  <1>12. ASSUME NEW p \in Openers, Crash(p) PROVE Condemned(f)'
    BY <1>12 DEF Crash
  <1>13. CASE UNCHANGED openVars
    BY <1>13 DEF openVars, procVars
  <1> QED BY <1>1, <1>2, <1>3, <1>4, <1>5, <1>6, <1>7, <1>8, <1>9, <1>10, <1>11, <1>12, <1>13
         DEF OpenNext, OpenStep

(* Every step keeps JudgeInv: a file is judged when it is condemned already.*)
LEMMA NextJudge ==
  ASSUME OpenInv, FreshInv, CreatorInv, JudgeInv, [OpenNext]_openVars
  PROVE  JudgeInv'
  <1> SUFFICES ASSUME "early" \notin slips', NEW q \in Openers, opc'[q] = "unlink"
               PROVE  Condemned(fd[q])'
    BY DEF JudgeInv
  <1> USE RegistryOpenAssumption DEF OpenInv, OpenTypeOK, FdInv, MappedPcs, Step, fileVars
  <1>1. slips \subseteq slips'
    BY DEF OpenNext, OpenStep, Create, Exists, Truncate, Memset, PublishVersion, Open, Stat, Unlink,
           SpinEnds, SpinTimeout, Register, Crash, Slip, openVars
  <1>2. CASE opc[q] = "unlink"
    <2>1. fd'[q] = fd[q]
      BY <1>2 DEF OpenNext, OpenStep, Create, Exists, Truncate, Memset, PublishVersion, Open, Stat,
           Unlink, SpinEnds, SpinTimeout, Register, Crash, openVars, procVars
    <2>2. fd[q] \in Files /\ fd[q] <= nfiles /\ Condemned(fd[q])
      BY <1>1, <1>2 DEF JudgeInv, FreshInv
    <2>3. Condemned(fd[q])' = (version'[fd[q]] = "other" \/ (fsize'[fd[q]] # "ours" /\ ~Sizing(fd[q])'))
      BY <2>1 DEF Condemned, Sizing
    <2> QED BY <2>1, <2>2, CondemnedStays, <2>3 DEF Condemned, Sizing
  <1>3. CASE opc[q] # "unlink"
    <2>1. PICK p \in Openers : OpenStep(p) \/ Crash(p)
      BY <1>3 DEF OpenNext, openVars, procVars
    <2>2. p = q
      BY <1>3, <2>1 DEF OpenStep, Create, Exists, Truncate, Memset, PublishVersion, Open, Stat,
           Unlink, SpinEnds, SpinTimeout, Register, Crash
    <2>3. Stat(q) \/ SpinTimeout(q)
      BY <2>1, <2>2 DEF OpenStep, Create, Exists, Truncate, Memset, PublishVersion, Open,
           Unlink, SpinEnds, Register, Crash
    <2>4. CASE Stat(q)
      BY <1>3, <2>4 DEF Stat, Slip, Condemned, Sizing
    <2>5. CASE SpinTimeout(q)
      BY <1>3, <2>5 DEF SpinTimeout, Condemned
    <2> QED BY <2>3, <2>4, <2>5
  <1> QED BY <1>2, <1>3

(* Every step keeps HoldInv: the name leaves only a condemned file.         *)
LEMMA NextHold ==
  ASSUME OpenInv, FreshInv, CreatorInv, JudgeInv, HoldInv, [OpenNext]_openVars
  PROVE  HoldInv'
  <1> SUFFICES ASSUME ~Misjudged', NEW q \in Openers, fd'[q] \in Files, ~Condemned(fd[q])'
               PROVE  fd'[q] = name'
    BY DEF HoldInv
  <1> USE RegistryOpenAssumption DEF OpenInv, OpenTypeOK, FdInv, MappedPcs, Step, fileVars
  <1>1. slips \subseteq slips'
    BY DEF OpenNext, OpenStep, Create, Exists, Truncate, Memset, PublishVersion, Open, Stat, Unlink,
           SpinEnds, SpinTimeout, Register, Crash, Slip, openVars
  <1>2. ~Misjudged /\ "early" \notin slips /\ "stray" \notin slips'
    BY <1>1 DEF Misjudged
  <1>3. fd'[q] = fd[q] => fd[q] = name /\ ~Condemned(fd[q])
    <2> HAVE fd'[q] = fd[q]
    <2>1. fd[q] \in Files /\ fd[q] <= nfiles
      BY DEF FreshInv
    <2>2. ~Condemned(fd[q])
      <3>1. SUFFICES ASSUME Condemned(fd[q]) PROVE FALSE
        OBVIOUS
      <3>2. \A f \in Files : f <= nfiles /\ Condemned(f) => Condemned(f)'
        BY CondemnedStays
      <3> QED BY <2>1, <3>1, <3>2 DEF Condemned, Sizing
    <2> QED BY <1>2, <2>1, <2>2 DEF HoldInv
  <1>4. ASSUME NEW p \in Openers, Create(p) PROVE fd'[q] = name'
    BY <1>3, <1>4 DEF Create, NoFile, Files
  <1>5. ASSUME NEW p \in Openers, Open(p) PROVE fd'[q] = name'
    BY <1>3, <1>5 DEF Open
  <1>6. ASSUME NEW p \in Openers, Unlink(p) PROVE fd'[q] = name'
    <2>1. Condemned(fd[p])
      BY <1>2, <1>6 DEF Unlink, JudgeInv
    <2>2. name = NoFile \/ name = fd[p]
      BY <1>2, <1>6 DEF Unlink, Slip
    <2>3. q # p
      BY <1>6 DEF Unlink, NoFile, Files
    <2>4. fd'[q] = fd[q]
      BY <1>6, <2>3 DEF Unlink
    <2> QED BY <1>3, <2>1, <2>2, <2>4 DEF NoFile, Files
  <1>7. CASE \A p \in Openers : ~Create(p) /\ ~Open(p) /\ ~Unlink(p)
    <2>1. fd' = fd /\ name' = name
      BY <1>7 DEF OpenNext, OpenStep, Exists, Truncate, Memset, PublishVersion, Stat, SpinEnds,
                  SpinTimeout, Register, Crash, openVars, procVars
    <2> QED BY <1>3, <2>1
  <1> QED BY <1>4, <1>5, <1>6, <1>7

(* Every step keeps WipeInv: a file is initialised by its creator, or by one *)
(* waiter after another once the initialiser before it is dead.             *)
LEMMA NextWipe ==
  ASSUME OpenInv, FreshInv, CreatorInv, WipeInv, [OpenNext]_openVars
  PROVE  WipeInv'
  <1> USE RegistryOpenAssumption
      DEF OpenInv, OpenTypeOK, FdInv, NeverMapsShort, MappedPcs, FreshInv, CreatorInv, WipeInv,
          Initialisers, Using, NoFile, Step, Slip, fileVars
  <1>1. ASSUME NEW p \in Openers, Create(p) PROVE WipeInv'
    <2>1. nfiles + 1 \in Files /\ nfiles \in Nat
      BY <1>1 DEF Create, Files
    <2> QED BY <1>1, <2>1 DEF Create, Files
  <1>2. ASSUME NEW p \in Openers, Exists(p) PROVE WipeInv'
    BY <1>2 DEF Exists
  <1>3. ASSUME NEW p \in Openers, Truncate(p) PROVE WipeInv'
    BY <1>3 DEF Truncate
  <1>4. ASSUME NEW p \in Openers, Memset(p) PROVE WipeInv'
    BY <1>4 DEF Memset
  <1>5. ASSUME NEW p \in Openers, PublishVersion(p) PROVE WipeInv'
    BY <1>5 DEF PublishVersion
  <1>6. ASSUME NEW p \in Openers, Open(p) PROVE WipeInv'
    BY <1>6 DEF Open
  <1>7. ASSUME NEW p \in Openers, Stat(p) PROVE WipeInv'
    BY <1>7 DEF Stat
  <1>8. ASSUME NEW p \in Openers, Unlink(p) PROVE WipeInv'
    BY <1>8 DEF Unlink
  <1>9. ASSUME NEW p \in Openers, SpinEnds(p) PROVE WipeInv'
    BY <1>9 DEF SpinEnds
  <1>10. ASSUME NEW p \in Openers, SpinTimeout(p) PROVE WipeInv'
    BY <1>10 DEF SpinTimeout, Initialising
  <1>11. ASSUME NEW p \in Openers, Register(p) PROVE WipeInv'
    BY <1>11 DEF Register
  <1>12. ASSUME NEW p \in Openers, Crash(p) PROVE WipeInv'
    BY <1>12 DEF Crash
  <1>13. CASE UNCHANGED openVars
    BY <1>13 DEF openVars, procVars
  <1> QED BY <1>1, <1>2, <1>3, <1>4, <1>5, <1>6, <1>7, <1>8, <1>9, <1>10, <1>11, <1>12, <1>13
         DEF OpenNext, OpenStep

(* The invariants hold always, whatever the schedule.                       *)
LEMMA OneInductive == OpenSpec => [](OpenInv /\ OneInv)
  <1>1. OpenInv /\ OneInv /\ [OpenNext]_openVars => OpenInv' /\ OneInv'
    BY NextOpenInv, NextFresh, NextCreator, NextJudge, NextHold, NextWipe DEF OneInv
  <1> QED BY InitOpenInv, InitOneInv, <1>1, PTL DEF OpenSpec

(* All processes that have the registry open have the same file open,       *)
(* whatever file was found, however many reclaims, crashes and spins that   *)
(* ran out there were, unless a file was judged before its creator sized it *)
(* or the unlink hit another file than the one judged (registry.cpp,        *)
(* registry_open): these two are the only ways to split a domain.           *)
THEOREM OnlyMisjudgementSplits == OpenSpec => []OneRegistry
  <1>1. OpenInv /\ OneInv => OneRegistry
    BY DEF OpenInv, FdInv, MappedPcs, NeverMapsShort, OneInv, CreatorInv, HoldInv, Condemned,
           OneRegistry, Using
  <1> QED BY OneInductive, <1>1, PTL

(* initialize_header zeroes a registered entry only after a waiter's spin   *)
(* ran out on an initialiser that was alive (registry.cpp, registry_open):  *)
(* reclaims, retries, deaths and the waiters that take a dead creator's     *)
(* place one after another never do.                                        *)
THEOREM OnlyRacedInitWipes == OpenSpec => []NoEntryWiped
  <1>1. OneInv => NoEntryWiped
    BY DEF OneInv, WipeInv, NoEntryWiped
  <1> QED BY OneInductive, <1>1, PTL

-----------------------------------------------------------------------------
(***************************************************************************)
(* "No lost wakeup", for any number of threads, listeners and mutators and *)
(* any number of mutations, mutators that die between their bump and their *)
(* ring included.                                                          *)
(***************************************************************************)

(* A listener past the registration, in a wait that blocks without a bound. *)
PastReg == CheckPcs \cup {"ready", "poll", "block", "output"}
Wired(l) == tpc[l] \in PastReg /\ ~unwired[l]

(* Generations only grow.                                                   *)
GenInv == last <= generation /\ \A t \in Threads : gen[t] <= generation

(* A consumed trigger is held only until the output pass reports it.        *)
GotInv ==
  \A t \in Threads :
    /\ got[t] => tpc[t] \in CheckPcs \cup {"poll", "output"}
    /\ got[t] /\ tpc[t] \in CheckPcs => looping[t]
    /\ tpc[t] = "poll" => got[t]

(* The registration is one thread's at a time, and a wired listener can be  *)
(* rung.                                                                    *)
RegInv ==
  /\ registered => bell_slot = "widened"
  /\ \A t, u \in Threads : tpc[t] \in AddPcs /\ tpc[u] \in AddPcs => t = u
  /\ \A t \in Threads : tpc[t] \in AddPcs => ~registered
  /\ \A t \in Threads : tpc[t] = "reg_bump" => bell_slot = "widened"
  /\ \A l \in Listeners : Wired(l) => registered

(* The stored generation is the current one: every listener knows or will.  *)
StoredInv ==
  last = generation => \A l \in Listeners : noticed[l] = generation \/ Pending(l)

(* It is not: a listener that is about to block, or blocks, is woken, or    *)
(* the change is one whose mutator died before the ring.                    *)
StaleInv ==
  last # generation /\ ~unrung =>
    \A l \in Listeners :
      tpc[l] \in {"compare", "ready", "block"} /\ ~unwired[l] => Pending(l) \/ WakeDue

BellInv == BellTypeOK /\ GenInv /\ GotInv /\ RegInv /\ StoredInv /\ StaleInv

(* Nothing is registered, triggered or drained yet.                         *)
LEMMA InitBellInv == BellInit => BellInv
  <1> SUFFICES ASSUME BellInit PROVE BellInv
    OBVIOUS
  <1> USE DEF BellInit
  <1>1. BellTypeOK
    <2>1. bell \in 0 .. BellCap
      BY DoorbellAssumption
    <2>2. tpc \in [Threads -> Pcs]
      BY DEF Pcs
    <2> QED BY <2>1, <2>2 DEF BellTypeOK
  <1>2. GenInv /\ StoredInv /\ StaleInv
    BY DEF GenInv, StoredInv, StaleInv
  <1>3. GotInv
    BY DEF GotInv
  <1>4. RegInv
    BY DoorbellAssumption DEF RegInv, Wired, PastReg, CheckPcs, AddPcs
  <1> QED BY <1>1, <1>2, <1>3, <1>4 DEF BellInv

(* Every action keeps the types.                                            *)
LEMMA BellTypeStep ==
  ASSUME BellTypeOK, [BellNext]_bellVars PROVE BellTypeOK'
  <1> USE DEF BellTypeOK, Pcs, CheckPcs, AddPcs, shared, calls, bellVars
  <1>1. ASSUME NEW m \in Mutators, Bump(m) PROVE BellTypeOK'
    <2>1. generation + 1 \in Nat /\ generation' = generation + 1
      BY <1>1 DEF Bump
    <2>2. mpc' \in [Mutators -> {"idle", "ring", "dead"}]
      BY <1>1 DEF Bump
    <2> QED BY <1>1, <2>1, <2>2, Zenon DEF Bump
  <1>2. ASSUME NEW m \in Mutators, Ring(m) PROVE BellTypeOK'
    BY <1>2, DoorbellAssumption DEF Ring
  <1>3. ASSUME NEW m \in Mutators, MutatorDies(m) PROVE BellTypeOK'
    BY <1>3, DoorbellAssumption DEF MutatorDies
  <1>4. ASSUME NEW t \in Threads, Enter(t) PROVE BellTypeOK'
    BY <1>4, DoorbellAssumption DEF Enter, Goes
  <1>5. ASSUME NEW t \in Threads, Registered(t) PROVE BellTypeOK'
    BY <1>5, DoorbellAssumption DEF Registered, Goes, RegMutexFree
  <1>6. ASSUME NEW t \in Threads, PublishBell(t) PROVE BellTypeOK'
    BY <1>6, DoorbellAssumption DEF PublishBell, Goes, RegMutexFree
  <1>7. ASSUME NEW t \in Threads, WidenBell(t) PROVE BellTypeOK'
    BY <1>7, DoorbellAssumption DEF WidenBell, Goes
  <1>8. ASSUME NEW t \in Threads, BumpBell(t) PROVE BellTypeOK'
    <2>1. generation + 1 \in Nat /\ generation' = generation + 1
      BY <1>8 DEF BumpBell
    <2>2. tpc' \in [Threads -> Pcs]
      BY <1>8 DEF BumpBell, Goes
    <2> QED BY <1>8, <2>1, <2>2, Zenon DEF BumpBell
  <1>9. ASSUME NEW t \in Threads, RegistryFull(t) PROVE BellTypeOK'
    BY <1>9, DoorbellAssumption DEF RegistryFull, Goes, RegMutexFree
  <1>10. ASSUME NEW t \in Threads, DrainBell(t) PROVE BellTypeOK'
    BY <1>10, DoorbellAssumption DEF DrainBell, Goes
  <1>11. ASSUME NEW t \in Threads, LoadGeneration(t) PROVE BellTypeOK'
    BY <1>11, DoorbellAssumption DEF LoadGeneration, Goes
  <1>12. ASSUME NEW t \in Threads, CompareLast(t) PROVE BellTypeOK'
    BY <1>12, DoorbellAssumption DEF CompareLast, Goes, AfterCheck
  <1>13. ASSUME NEW t \in Threads, StoreLast(t) PROVE BellTypeOK'
    BY <1>13, DoorbellAssumption DEF StoreLast, Goes
  <1>14. ASSUME NEW t \in Threads, TriggerGraphGcs(t) PROVE BellTypeOK'
    BY <1>14, DoorbellAssumption DEF TriggerGraphGcs, Goes, AfterCheck
  <1>15. ASSUME NEW t \in Threads, CheckReady(t) PROVE BellTypeOK'
    BY <1>15, DoorbellAssumption DEF CheckReady, Goes, Triggered, Consume
  <1>16. ASSUME NEW t \in Threads, PollOnly(t) PROVE BellTypeOK'
    BY <1>16, DoorbellAssumption DEF PollOnly, Goes, Consume
  <1>17. ASSUME NEW t \in Threads, Wake(t) PROVE BellTypeOK'
    BY <1>17, DoorbellAssumption DEF Wake, Goes, Triggered, Consume
  <1>18. ASSUME NEW t \in Threads, Elapse(t) PROVE BellTypeOK'
    BY <1>18, DoorbellAssumption DEF Elapse, Goes, Triggered
  <1>19. ASSUME NEW t \in Threads, Output(t) PROVE BellTypeOK'
    BY <1>19, DoorbellAssumption DEF Output, Goes, Consume
  <1>20. CASE UNCHANGED bellVars
    BY <1>20
  <1> QED BY <1>1, <1>2, <1>3, <1>4, <1>5, <1>6, <1>7, <1>8, <1>9, <1>10, <1>11, <1>12,
      <1>13, <1>14, <1>15, <1>16, <1>17, <1>18, <1>19, <1>20 DEF BellNext, WaitStep

(* The generation is only incremented; the others are copies of it.         *)
LEMMA GenStep ==
  ASSUME BellTypeOK, GenInv, [BellNext]_bellVars PROVE GenInv'
  <1> USE DEF BellTypeOK, GenInv, shared, calls, bellVars
  <1>1. ASSUME NEW m \in Mutators, Bump(m) PROVE GenInv'
    BY <1>1 DEF Bump
  <1>2. ASSUME NEW m \in Mutators, Ring(m) PROVE GenInv'
    BY <1>2 DEF Ring
  <1>3. ASSUME NEW m \in Mutators, MutatorDies(m) PROVE GenInv'
    BY <1>3 DEF MutatorDies
  <1>4. ASSUME NEW t \in Threads, Enter(t) PROVE GenInv'
    BY <1>4 DEF Enter, Goes
  <1>5. ASSUME NEW t \in Threads, Registered(t) PROVE GenInv'
    BY <1>5 DEF Registered, Goes, RegMutexFree
  <1>6. ASSUME NEW t \in Threads, PublishBell(t) PROVE GenInv'
    BY <1>6 DEF PublishBell, Goes, RegMutexFree
  <1>7. ASSUME NEW t \in Threads, WidenBell(t) PROVE GenInv'
    BY <1>7 DEF WidenBell, Goes
  <1>8. ASSUME NEW t \in Threads, BumpBell(t) PROVE GenInv'
    BY <1>8 DEF BumpBell, Goes
  <1>9. ASSUME NEW t \in Threads, RegistryFull(t) PROVE GenInv'
    BY <1>9 DEF RegistryFull, Goes, RegMutexFree
  <1>10. ASSUME NEW t \in Threads, DrainBell(t) PROVE GenInv'
    BY <1>10 DEF DrainBell, Goes
  <1>11. ASSUME NEW t \in Threads, LoadGeneration(t) PROVE GenInv'
    BY <1>11 DEF LoadGeneration, Goes
  <1>12. ASSUME NEW t \in Threads, CompareLast(t) PROVE GenInv'
    BY <1>12 DEF CompareLast, Goes, AfterCheck
  <1>13. ASSUME NEW t \in Threads, StoreLast(t) PROVE GenInv'
    BY <1>13 DEF StoreLast, Goes
  <1>14. ASSUME NEW t \in Threads, TriggerGraphGcs(t) PROVE GenInv'
    BY <1>14 DEF TriggerGraphGcs, Goes, AfterCheck
  <1>15. ASSUME NEW t \in Threads, CheckReady(t) PROVE GenInv'
    BY <1>15 DEF CheckReady, Goes, Triggered, Consume
  <1>16. ASSUME NEW t \in Threads, PollOnly(t) PROVE GenInv'
    BY <1>16 DEF PollOnly, Goes, Consume
  <1>17. ASSUME NEW t \in Threads, Wake(t) PROVE GenInv'
    BY <1>17 DEF Wake, Goes, Triggered, Consume
  <1>18. ASSUME NEW t \in Threads, Elapse(t) PROVE GenInv'
    BY <1>18 DEF Elapse, Goes, Triggered
  <1>19. ASSUME NEW t \in Threads, Output(t) PROVE GenInv'
    BY <1>19 DEF Output, Goes, Consume
  <1>20. CASE UNCHANGED bellVars
    BY <1>20
  <1> QED BY <1>1, <1>2, <1>3, <1>4, <1>5, <1>6, <1>7, <1>8, <1>9, <1>10, <1>11, <1>12,
      <1>13, <1>14, <1>15, <1>16, <1>17, <1>18, <1>19, <1>20 DEF BellNext, WaitStep

(* Only the ready check and the epoll loop set gc_triggered.                *)
LEMMA GotStep ==
  ASSUME BellTypeOK, GotInv, [BellNext]_bellVars PROVE GotInv'
  <1> USE DEF BellTypeOK, GotInv, CheckPcs, AddPcs, shared, calls, bellVars
  <1>1. ASSUME NEW m \in Mutators, Bump(m) PROVE GotInv'
    BY <1>1 DEF Bump
  <1>2. ASSUME NEW m \in Mutators, Ring(m) PROVE GotInv'
    BY <1>2 DEF Ring
  <1>3. ASSUME NEW m \in Mutators, MutatorDies(m) PROVE GotInv'
    BY <1>3 DEF MutatorDies
  <1>4. ASSUME NEW t \in Threads, Enter(t) PROVE GotInv'
    BY <1>4 DEF Enter, Goes
  <1>5. ASSUME NEW t \in Threads, Registered(t) PROVE GotInv'
    BY <1>5 DEF Registered, Goes, RegMutexFree
  <1>6. ASSUME NEW t \in Threads, PublishBell(t) PROVE GotInv'
    BY <1>6 DEF PublishBell, Goes, RegMutexFree
  <1>7. ASSUME NEW t \in Threads, WidenBell(t) PROVE GotInv'
    BY <1>7 DEF WidenBell, Goes
  <1>8. ASSUME NEW t \in Threads, BumpBell(t) PROVE GotInv'
    BY <1>8 DEF BumpBell, Goes
  <1>9. ASSUME NEW t \in Threads, RegistryFull(t) PROVE GotInv'
    BY <1>9 DEF RegistryFull, Goes, RegMutexFree
  <1>10. ASSUME NEW t \in Threads, DrainBell(t) PROVE GotInv'
    BY <1>10 DEF DrainBell, Goes
  <1>11. ASSUME NEW t \in Threads, LoadGeneration(t) PROVE GotInv'
    BY <1>11 DEF LoadGeneration, Goes
  <1>12. ASSUME NEW t \in Threads, CompareLast(t) PROVE GotInv'
    BY <1>12 DEF CompareLast, Goes, AfterCheck
  <1>13. ASSUME NEW t \in Threads, StoreLast(t) PROVE GotInv'
    BY <1>13 DEF StoreLast, Goes
  <1>14. ASSUME NEW t \in Threads, TriggerGraphGcs(t) PROVE GotInv'
    BY <1>14 DEF TriggerGraphGcs, Goes, AfterCheck
  <1>15. ASSUME NEW t \in Threads, CheckReady(t) PROVE GotInv'
    BY <1>15 DEF CheckReady, Goes, Triggered, Consume
  <1>16. ASSUME NEW t \in Threads, PollOnly(t) PROVE GotInv'
    BY <1>16 DEF PollOnly, Goes, Consume
  <1>17. ASSUME NEW t \in Threads, Wake(t) PROVE GotInv'
    BY <1>17 DEF Wake, Goes, Triggered, Consume
  <1>18. ASSUME NEW t \in Threads, Elapse(t) PROVE GotInv'
    BY <1>18 DEF Elapse, Goes, Triggered
  <1>19. ASSUME NEW t \in Threads, Output(t) PROVE GotInv'
    BY <1>19 DEF Output, Goes, Consume
  <1>20. CASE UNCHANGED bellVars
    BY <1>20
  <1> QED BY <1>1, <1>2, <1>3, <1>4, <1>5, <1>6, <1>7, <1>8, <1>9, <1>10, <1>11, <1>12,
      <1>13, <1>14, <1>15, <1>16, <1>17, <1>18, <1>19, <1>20 DEF BellNext, WaitStep

(* doorbell_reg_mutex serialises the registration, and a wait whose         *)
(* registration failed is degraded, not wired.                              *)
LEMMA RegStep ==
  ASSUME BellTypeOK, RegInv, [BellNext]_bellVars PROVE RegInv'
  <1> USE DEF BellTypeOK, RegInv, Wired, PastReg, CheckPcs, AddPcs, shared, calls, bellVars
  <1>1. ASSUME NEW m \in Mutators, Bump(m) PROVE RegInv'
    BY <1>1 DEF Bump
  <1>2. ASSUME NEW m \in Mutators, Ring(m) PROVE RegInv'
    BY <1>2 DEF Ring
  <1>3. ASSUME NEW m \in Mutators, MutatorDies(m) PROVE RegInv'
    BY <1>3 DEF MutatorDies
  <1>4. ASSUME NEW t \in Threads, Enter(t) PROVE RegInv'
    BY <1>4 DEF Enter, Goes
  <1>5. ASSUME NEW t \in Threads, Registered(t) PROVE RegInv'
    BY <1>5 DEF Registered, Goes, RegMutexFree
  <1>6. ASSUME NEW t \in Threads, PublishBell(t) PROVE RegInv'
    BY <1>6 DEF PublishBell, Goes, RegMutexFree
  <1>7. ASSUME NEW t \in Threads, WidenBell(t) PROVE RegInv'
    BY <1>7 DEF WidenBell, Goes
  <1>8. ASSUME NEW t \in Threads, BumpBell(t) PROVE RegInv'
    BY <1>8 DEF BumpBell, Goes
  <1>9. ASSUME NEW t \in Threads, RegistryFull(t) PROVE RegInv'
    BY <1>9 DEF RegistryFull, Goes, RegMutexFree
  <1>10. ASSUME NEW t \in Threads, DrainBell(t) PROVE RegInv'
    BY <1>10 DEF DrainBell, Goes
  <1>11. ASSUME NEW t \in Threads, LoadGeneration(t) PROVE RegInv'
    BY <1>11 DEF LoadGeneration, Goes
  <1>12. ASSUME NEW t \in Threads, CompareLast(t) PROVE RegInv'
    BY <1>12 DEF CompareLast, Goes, AfterCheck
  <1>13. ASSUME NEW t \in Threads, StoreLast(t) PROVE RegInv'
    BY <1>13 DEF StoreLast, Goes
  <1>14. ASSUME NEW t \in Threads, TriggerGraphGcs(t) PROVE RegInv'
    BY <1>14 DEF TriggerGraphGcs, Goes, AfterCheck
  <1>15. ASSUME NEW t \in Threads, CheckReady(t) PROVE RegInv'
    BY <1>15 DEF CheckReady, Goes, Triggered, Consume
  <1>16. ASSUME NEW t \in Threads, PollOnly(t) PROVE RegInv'
    BY <1>16 DEF PollOnly, Goes, Consume
  <1>17. ASSUME NEW t \in Threads, Wake(t) PROVE RegInv'
    BY <1>17 DEF Wake, Goes, Triggered, Consume
  <1>18. ASSUME NEW t \in Threads, Elapse(t) PROVE RegInv'
    BY <1>18 DEF Elapse, Goes, Triggered
  <1>19. ASSUME NEW t \in Threads, Output(t) PROVE RegInv'
    BY <1>19 DEF Output, Goes, Consume
  <1>20. CASE UNCHANGED bellVars
    BY <1>20
  <1> QED BY <1>1, <1>2, <1>3, <1>4, <1>5, <1>6, <1>7, <1>8, <1>9, <1>10, <1>11, <1>12,
      <1>13, <1>14, <1>15, <1>16, <1>17, <1>18, <1>19, <1>20 DEF BellNext, WaitStep

(* Whoever stores the current generation goes on to trigger; a listener     *)
(* that consumes its trigger reports it.                                    *)
LEMMA StoredStep ==
  ASSUME BellTypeOK, GenInv, GotInv, StoredInv, [BellNext]_bellVars PROVE StoredInv'
  <1> USE DEF BellTypeOK, GenInv, GotInv, StoredInv, Pending, CheckPcs, shared, calls, bellVars
  <1>1. ASSUME NEW m \in Mutators, Bump(m) PROVE StoredInv'
    BY <1>1 DEF Bump
  <1>2. ASSUME NEW m \in Mutators, Ring(m) PROVE StoredInv'
    BY <1>2 DEF Ring
  <1>3. ASSUME NEW m \in Mutators, MutatorDies(m) PROVE StoredInv'
    BY <1>3 DEF MutatorDies
  <1>4. ASSUME NEW t \in Threads, Enter(t) PROVE StoredInv'
    BY <1>4 DEF Enter, Goes
  <1>5. ASSUME NEW t \in Threads, Registered(t) PROVE StoredInv'
    BY <1>5 DEF Registered, Goes, RegMutexFree
  <1>6. ASSUME NEW t \in Threads, PublishBell(t) PROVE StoredInv'
    BY <1>6 DEF PublishBell, Goes, RegMutexFree
  <1>7. ASSUME NEW t \in Threads, WidenBell(t) PROVE StoredInv'
    BY <1>7 DEF WidenBell, Goes
  <1>8. ASSUME NEW t \in Threads, BumpBell(t) PROVE StoredInv'
    BY <1>8 DEF BumpBell, Goes
  <1>9. ASSUME NEW t \in Threads, RegistryFull(t) PROVE StoredInv'
    BY <1>9 DEF RegistryFull, Goes, RegMutexFree
  <1>10. ASSUME NEW t \in Threads, DrainBell(t) PROVE StoredInv'
    BY <1>10 DEF DrainBell, Goes
  <1>11. ASSUME NEW t \in Threads, LoadGeneration(t) PROVE StoredInv'
    BY <1>11 DEF LoadGeneration, Goes
  <1>12. ASSUME NEW t \in Threads, CompareLast(t) PROVE StoredInv'
    BY <1>12 DEF CompareLast, Goes, AfterCheck
  <1>13. ASSUME NEW t \in Threads, StoreLast(t) PROVE StoredInv'
    BY <1>13 DEF StoreLast, Goes
  <1>14. ASSUME NEW t \in Threads, TriggerGraphGcs(t) PROVE StoredInv'
    BY <1>14 DEF TriggerGraphGcs, Goes, AfterCheck
  <1>15. ASSUME NEW t \in Threads, CheckReady(t) PROVE StoredInv'
    BY <1>15 DEF CheckReady, Goes, Triggered, Consume
  <1>16. ASSUME NEW t \in Threads, PollOnly(t) PROVE StoredInv'
    BY <1>16 DEF PollOnly, Goes, Consume
  <1>17. ASSUME NEW t \in Threads, Wake(t) PROVE StoredInv'
    BY <1>17 DEF Wake, Goes, Triggered, Consume
  <1>18. ASSUME NEW t \in Threads, Elapse(t) PROVE StoredInv'
    BY <1>18 DEF Elapse, Goes, Triggered
  <1>19. ASSUME NEW t \in Threads, Output(t) PROVE StoredInv'
    BY <1>19 DEF Output, Goes, Consume
  <1>20. CASE UNCHANGED bellVars
    BY <1>20
  <1> QED BY <1>1, <1>2, <1>3, <1>4, <1>5, <1>6, <1>7, <1>8, <1>9, <1>10, <1>11, <1>12,
      <1>13, <1>14, <1>15, <1>16, <1>17, <1>18, <1>19, <1>20 DEF BellNext, WaitStep

(* The ordering pair: bump before ring, drain before load.                  *)
LEMMA StaleStep ==
  ASSUME BellTypeOK, GenInv, GotInv, RegInv, StaleInv, [BellNext]_bellVars PROVE StaleInv'
  <1> USE DEF BellTypeOK, GenInv, GotInv, RegInv, StaleInv, Wired, PastReg, Pending,
      WakeDue, RingDue, CheckDue, CheckPcs, AddPcs, shared, calls, bellVars
  <1>1. ASSUME NEW m \in Mutators, Bump(m) PROVE StaleInv'
    BY <1>1, DoorbellAssumption DEF Bump
  <1>2. ASSUME NEW m \in Mutators, Ring(m) PROVE StaleInv'
    BY <1>2, DoorbellAssumption DEF Ring
  <1>3. ASSUME NEW m \in Mutators, MutatorDies(m) PROVE StaleInv'
    BY <1>3, DoorbellAssumption DEF MutatorDies
  <1>4. ASSUME NEW t \in Threads, Enter(t) PROVE StaleInv'
    BY <1>4, DoorbellAssumption DEF Enter, Goes
  <1>5. ASSUME NEW t \in Threads, Registered(t) PROVE StaleInv'
    BY <1>5, DoorbellAssumption DEF Registered, Goes, RegMutexFree
  <1>6. ASSUME NEW t \in Threads, PublishBell(t) PROVE StaleInv'
    BY <1>6, DoorbellAssumption DEF PublishBell, Goes, RegMutexFree
  <1>7. ASSUME NEW t \in Threads, WidenBell(t) PROVE StaleInv'
    BY <1>7, DoorbellAssumption DEF WidenBell, Goes
  <1>8. ASSUME NEW t \in Threads, BumpBell(t) PROVE StaleInv'
    BY <1>8, DoorbellAssumption DEF BumpBell, Goes
  <1>9. ASSUME NEW t \in Threads, RegistryFull(t) PROVE StaleInv'
    BY <1>9, DoorbellAssumption DEF RegistryFull, Goes, RegMutexFree
  <1>10. ASSUME NEW t \in Threads, DrainBell(t) PROVE StaleInv'
    BY <1>10, DoorbellAssumption DEF DrainBell, Goes
  <1>11. ASSUME NEW t \in Threads, LoadGeneration(t) PROVE StaleInv'
    BY <1>11, DoorbellAssumption DEF LoadGeneration, Goes
  <1>12. ASSUME NEW t \in Threads, CompareLast(t) PROVE StaleInv'
    BY <1>12, DoorbellAssumption DEF CompareLast, Goes, AfterCheck
  <1>13. ASSUME NEW t \in Threads, StoreLast(t) PROVE StaleInv'
    BY <1>13, DoorbellAssumption DEF StoreLast, Goes
  <1>14. ASSUME NEW t \in Threads, TriggerGraphGcs(t) PROVE StaleInv'
    BY <1>14, DoorbellAssumption DEF TriggerGraphGcs, Goes, AfterCheck
  <1>15. ASSUME NEW t \in Threads, CheckReady(t) PROVE StaleInv'
    BY <1>15, DoorbellAssumption DEF CheckReady, Goes, Triggered, Consume
  <1>16. ASSUME NEW t \in Threads, PollOnly(t) PROVE StaleInv'
    BY <1>16, DoorbellAssumption DEF PollOnly, Goes, Consume
  <1>17. ASSUME NEW t \in Threads, Wake(t) PROVE StaleInv'
    BY <1>17, DoorbellAssumption DEF Wake, Goes, Triggered, Consume
  <1>18. ASSUME NEW t \in Threads, Elapse(t) PROVE StaleInv'
    BY <1>18, DoorbellAssumption DEF Elapse, Goes, Triggered
  <1>19. ASSUME NEW t \in Threads, Output(t) PROVE StaleInv'
    BY <1>19, DoorbellAssumption DEF Output, Goes, Consume
  <1>20. CASE UNCHANGED bellVars
    BY <1>20
  <1> QED BY <1>1, <1>2, <1>3, <1>4, <1>5, <1>6, <1>7, <1>8, <1>9, <1>10, <1>11, <1>12,
      <1>13, <1>14, <1>15, <1>16, <1>17, <1>18, <1>19, <1>20 DEF BellNext, WaitStep

(* The inductive step.                                                      *)
LEMMA NextBellInv ==
  ASSUME BellInv, [BellNext]_bellVars PROVE BellInv'
  <1> USE DEF BellInv
  <1>1. BellTypeOK'    BY BellTypeStep
  <1>2. GenInv'    BY GenStep
  <1>3. GotInv'    BY GotStep
  <1>4. RegInv'    BY RegStep
  <1>5. StoredInv' BY StoredStep
  <1>6. StaleInv'  BY StaleStep
  <1> QED BY <1>1, <1>2, <1>3, <1>4, <1>5, <1>6

-----------------------------------------------------------------------------
(* The variables keep their types (mutators that crash included).           *)
THEOREM BellTypeCorrect == BellSpec => []BellTypeOK
  <1>1. BellInit => BellTypeOK
    BY InitBellInv DEF BellInv
  <1>2. BellTypeOK /\ [BellNext]_bellVars => BellTypeOK'
    BY BellTypeStep
  <1> QED BY <1>1, <1>2, PTL DEF BellSpec

(* rmw_wait and ring_doorbells never lose a wake-up: a listener blocked in  *)
(* epoll while the graph has changed since its last wake is always about to *)
(* be woken, unless the last change's mutator died before its ring; the     *)
(* next change then wakes it.                                               *)
THEOREM NeverLosesWakeup == BellSpec => []NoLostWakeup
  <1>1. BellInit => BellInv
    BY InitBellInv
  <1>2. BellInv /\ [BellNext]_bellVars => BellInv'
    BY NextBellInv
  <1>3. BellInv => NoLostWakeup
    BY DEF BellInv, StoredInv, StaleInv, NoLostWakeup
  <1> QED BY <1>1, <1>2, <1>3, PTL DEF BellSpec

=============================================================================
