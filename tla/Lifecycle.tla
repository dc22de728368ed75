----------------------------- MODULE Lifecycle -----------------------------
(***************************************************************************)
(* Processes of one domain come and go: rmw_init with its sweep of the     *)
(* files that dead processes left in the socket directory and in /dev/shm, *)
(* the doorbell socket, endpoints with their files, rmw_context_fini, and  *)
(* death at any point.  A file's name holds the PID of its owner, and the  *)
(* system gives PIDs out again.                                            *)
(*                                                                         *)
(* A process is an incarnation, numbered in the order of start.  Socket    *)
(* files, payload rings and latched caches are treated alike: their names  *)
(* are built, swept and removed in the same way.                           *)
(***************************************************************************)
EXTENDS Integers, FiniteSets

CONSTANTS
  Pids,       \* process ids
  MaxProcs,   \* bound: processes ever started
  MaxNames,   \* bound: names one process makes
  CtrMod,     \* modulus of the counter in a name (2^16)
  TimeMod     \* modulus of the time in a name (2^16)

Procs == 1 .. MaxProcs
NoPid == 0
Times == 0 .. TimeMod - 1      \* the low bits of a time
Names == [pid : Pids, ctr : 0 .. CtrMod - 1, time : Times]

ASSUME LifecycleAssumption ==
  /\ NoPid \notin Pids /\ MaxProcs \in Nat /\ MaxNames \in Nat \ {0}
  /\ CtrMod \in Nat \ {0} /\ TimeMod \in Nat \ {0}

VARIABLES
  pc, pid,   \* of every process
  ctr,       \* names the process has made (the static counters)
  open,      \* the sockets and segments it has open: [name, nth]
  files,     \* the directories: [name, owner, nth]
  todo,      \* directory entries a sweep has still to look at
  target,    \* the name a sweep is about to unlink
  doomed,    \* history: files without a living PID since the sweep began
  stamps,    \* history: what names were made from
  clash      \* history: two names were made from the same

history == <<stamps, clash>>
vars    == <<pc, pid, ctr, open, files, todo, target, doomed, history>>

Init ==
  /\ pc = [i \in Procs |-> "none"] /\ pid = [i \in Procs |-> NoPid]
  /\ ctr = [i \in Procs |-> 0] /\ open = [i \in Procs |-> {}] /\ files = {}
  /\ todo = [i \in Procs |-> {}] /\ target = [i \in Procs |-> {}]
  /\ doomed = [i \in Procs |-> {}] /\ stamps = {} /\ clash = FALSE

Alive(i)    == pc[i] \notin {"none", "exited", "dead"}
PidAlive(p) == \E i \in Procs : Alive(i) /\ pid[i] = p     \* stat of /proc/<pid>
Listed      == {f.name : f \in files}
OpenNames(i) == {o.name : o \in open[i]}
Without(N)  == {f \in files : f.name \notin N}

(* Mutant of NameOf: PID and counter only.                                  *)
NameOfTimeless(i, t) == [pid |-> pid[i], ctr |-> ctr[i] % CtrMod, time |-> 0]

(* make_socket_path at a moment whose low bits are t: PID, counter, time.   *)
NameOf(i, t) == [pid |-> pid[i], ctr |-> ctr[i] % CtrMod, time |-> t]

At(i, from, to) == pc[i] = from /\ pc' = [pc EXCEPT ![i] = to]

(* A process starts with a free PID and calls rmw_init, which opens the     *)
(* registry (RegistryOpen), sweeps its slots (Registry) and the directories.*)
Start(i, p) ==
  /\ At(i, "none", "sweep") /\ \A j \in 1 .. i - 1 : pc[j] # "none"
  /\ ~PidAlive(p) /\ pid' = [pid EXCEPT ![i] = p]
  /\ todo' = [todo EXCEPT ![i] = Listed]
  /\ doomed' = [j \in Procs |->
                  {n \in IF j = i THEN Listed ELSE doomed[j] :
                     n.pid # p /\ (j = i => ~PidAlive(n.pid))}]
  /\ UNCHANGED <<ctr, open, files, target, history>>

(* Mutant of SweepStat: the walk ends at the first entry of a live process. *)
SweepStatStops(i) ==
  /\ pc[i] = "sweep"
  /\ \E n \in todo[i] :
       \/ /\ PidAlive(n.pid) /\ todo' = [todo EXCEPT ![i] = {}] /\ UNCHANGED <<pc, target>>
       \/ /\ ~PidAlive(n.pid) /\ todo' = [todo EXCEPT ![i] = @ \ {n}]
          /\ target' = [target EXCEPT ![i] = {n}] /\ pc' = [pc EXCEPT ![i] = "unlink"]
  /\ UNCHANGED <<pid, ctr, open, files, doomed, history>>

(* readdir and stat of one entry ...                                        *)
SweepStat(i) ==
  /\ pc[i] = "sweep"
  /\ \E n \in todo[i] :
       /\ todo' = [todo EXCEPT ![i] = @ \ {n}]
       /\ \/ PidAlive(n.pid) /\ UNCHANGED <<pc, target>>
          \/ /\ ~PidAlive(n.pid) /\ target' = [target EXCEPT ![i] = {n}]
             /\ pc' = [pc EXCEPT ![i] = "unlink"]
  /\ UNCHANGED <<pid, ctr, open, files, doomed, history>>

(* ... and its unlink, by name, some time later.                            *)
SweepUnlink(i) ==
  /\ At(i, "unlink", "sweep")
  /\ files' = Without(target[i]) /\ target' = [target EXCEPT ![i] = {}]
  /\ UNCHANGED <<pid, ctr, open, todo, doomed, history>>

SweepDone(i) ==
  /\ At(i, "sweep", "bind") /\ todo[i] = {}
  /\ UNCHANGED <<pid, ctr, open, files, todo, target, doomed, history>>

(* A new name, what is under it unlinked, the new file bound to it.         *)
Stamp(i, t) == <<pid[i], ctr[i] % CtrMod, t>>
MakeFileAt(i, t) ==
  /\ files' = Without({NameOf(i, t)}) \cup {[name |-> NameOf(i, t), owner |-> i, nth |-> ctr[i]]}
  /\ open' = [open EXCEPT ![i] = @ \cup {[name |-> NameOf(i, t), nth |-> ctr[i]]}]
  /\ ctr' = [ctr EXCEPT ![i] = @ + 1]
  /\ clash' = (clash \/ Stamp(i, t) \in stamps)
  /\ stamps' = stamps \cup {Stamp(i, t)}
MakeFile(i) == \E t \in Times : MakeFileAt(i, t)

(* The doorbell; when it cannot be bound, rmw_init undoes what it did.      *)
BindDoorbell(i) ==
  /\ \/ At(i, "bind", "copy") /\ MakeFile(i)
     \/ At(i, "bind", "failed") /\ UNCHANGED <<files, open, ctr, history>>
  /\ doomed' = [doomed EXCEPT ![i] = {}]
  /\ UNCHANGED <<pid, todo, target>>

CopyOptions(i) ==
  /\ At(i, "copy", "up")
  /\ UNCHANGED <<pid, ctr, open, files, todo, target, doomed, history>>

(* Mutant of CopyFails: the sockets are closed and the file is forgotten.   *)
CopyFailsLeaks(i) ==
  /\ At(i, "copy", "failed")
  /\ open' = [open EXCEPT ![i] = {}]
  /\ UNCHANGED <<pid, ctr, files, todo, target, doomed, history>>

(* The enclave or the discovery options cannot be copied.                   *)
CopyFails(i) ==
  /\ At(i, "copy", "failed")
  /\ files' = Without(OpenNames(i)) /\ open' = [open EXCEPT ![i] = {}]
  /\ UNCHANGED <<pid, ctr, todo, target, doomed, history>>

(* An endpoint is created with its file, or destroyed: close and unlink.    *)
OpenEndpoint(i) ==
  /\ pc[i] = "up" /\ ctr[i] < MaxNames
  /\ MakeFile(i)
  /\ UNCHANGED <<pc, pid, todo, target, doomed>>

CloseEndpoint(i) ==
  /\ pc[i] = "up"
  /\ \E o \in {x \in open[i] : x.nth # 0} :       \* 0 is the doorbell
       open' = [open EXCEPT ![i] = @ \ {o}] /\ files' = Without({o.name})
  /\ UNCHANGED <<pc, pid, ctr, todo, target, doomed, history>>

(* rmw_context_fini, all endpoints destroyed: the doorbell's file goes with *)
(* its registry slot or, when it never had one, by an unlink.               *)
Fini(i) ==
  /\ At(i, "up", "exited") /\ Cardinality(open[i]) = 1
  /\ files' = Without(OpenNames(i)) /\ open' = [open EXCEPT ![i] = {}]
  /\ UNCHANGED <<pid, ctr, todo, target, doomed, history>>

(* Death at any point: the kernel closes everything and removes no file.    *)
Die(i) ==
  /\ Alive(i) /\ pc' = [pc EXCEPT ![i] = IF pc[i] = "failed" THEN "exited" ELSE "dead"]
  /\ open' = [open EXCEPT ![i] = {}]
  /\ todo' = [todo EXCEPT ![i] = {}] /\ target' = [target EXCEPT ![i] = {}]
  /\ doomed' = [doomed EXCEPT ![i] = {}]
  /\ UNCHANGED <<pid, ctr, files, history>>

Next == \E i \in Procs :
  \/ \E p \in Pids : Start(i, p)
  \/ SweepStat(i) \/ SweepUnlink(i) \/ SweepDone(i)
  \/ BindDoorbell(i) \/ CopyOptions(i) \/ CopyFails(i)
  \/ OpenEndpoint(i) \/ CloseEndpoint(i) \/ Fini(i) \/ Die(i)

Spec == Init /\ [][Next]_vars

-----------------------------------------------------------------------------
(* Type invariant: in particular names keep their width.                    *)
TypeOK ==
  /\ pc \in [Procs -> {"none", "sweep", "unlink", "bind", "copy", "up", "failed",
                       "exited", "dead"}]
  /\ pid \in [Procs -> Pids \cup {NoPid}] /\ ctr \in [Procs -> 0 .. MaxNames]
  /\ open \in [Procs -> SUBSET [name : Names, nth : 0 .. MaxNames - 1]]
  /\ files \subseteq [name : Names, owner : Procs, nth : 0 .. MaxNames - 1]
  /\ todo \in [Procs -> SUBSET Names] /\ target \in [Procs -> SUBSET Names]
  /\ doomed \in [Procs -> SUBSET Names]
  /\ stamps \subseteq Pids \X (0 .. CtrMod - 1) \X Times /\ clash \in BOOLEAN

(* The files of a living process stay reachable under their names, whoever  *)
(* sweeps: also when a PID is given out again between the stat of a sweep   *)
(* and its unlink.  The one way to lose a file is a clash: two names made   *)
(* with the same PID, counter and time (the counter and the microseconds    *)
(* keep 16 bits each).                                                      *)
LiveFilesStay ==
  clash \/ \A i \in Procs : \A o \in open[i] :
    [name |-> o.name, owner |-> i, nth |-> o.nth] \in files

(* A process that leaves in good order, or whose rmw_init failed, leaves no *)
(* file behind.                                                             *)
CleanExit == \A f \in files : pc[f.owner] \notin {"failed", "exited"}

(* A sweep that ends has removed every file whose PID was free all along,   *)
(* whatever other sweeps, starts and deaths ran meanwhile.                  *)
SweepComplete == \A i \in Procs : pc[i] = "bind" => doomed[i] \cap Listed = {}
=============================================================================
