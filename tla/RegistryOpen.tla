---------------------------- MODULE RegistryOpen ----------------------------
(***************************************************************************)
(* registry_open: the processes of one ROS domain create, find or reclaim  *)
(* the shared-memory file the registry lives in.  The file has a name in   *)
(* /dev/shm and an identity of its own: a process keeps the file it mapped *)
(* when the name is unlinked and given to a new file.                      *)
(*                                                                         *)
(* Once open, a process registers an entry of its own, so that a second    *)
(* initialisation of the same file shows as a lost entry.                  *)
(***************************************************************************)
EXTENDS Integers, FiniteSets

CONSTANTS
  Openers,         \* processes that call registry_open
  MaxFiles,        \* bound: files ever created under the name
  Found,           \* what may be under the name at the start (see Founds)
  Crashers         \* processes that may die during registry_open

Files  == 1 .. MaxFiles
NoFile == 0
Sizes  == {"zero", "ours", "other"}        \* st_size against total_size
Versions == {"zero", "ours", "other"}      \* version field against REGISTRY_VERSION
Founds == {"none", "otherSize", "otherVersion"}
Slips  == {"early", "stray", "race"}       \* see slips

ASSUME RegistryOpenAssumption ==
  /\ MaxFiles \in Nat \ {0} /\ Found \in SUBSET Founds /\ Crashers \subseteq Openers

VARIABLES
  name,                     \* the file the shm name refers to
  nfiles,                   \* files created so far
  fsize, version, entries,  \* of every file
  opc, fd, attempt,         \* of every process
  lost,                     \* history: entries a later initialisation wiped
  slips                     \* history: the wrong turns taken so far (see below)

(* Three decisions of registry_open rest on something that a process it     *)
(* does not wait for may contradict; slips records the ones that did.       *)
(*   "early": a file is judged incompatible before its creator has sized it *)
(*   "stray": the name is unlinked when it refers to another file by then   *)
(*   "race":  the spin runs out on an initialiser that is alive             *)

fileVars == <<fsize, version, entries, lost>>
procVars == <<opc, fd, attempt>>
openVars == <<name, nfiles, fileVars, procVars, slips>>

OpenInit ==
  /\ \E found \in Found :
       /\ nfiles = (IF found = "none" THEN 0 ELSE 1)
       /\ name = nfiles
       /\ fsize = [f \in Files |-> IF f # name THEN "zero"
                                   ELSE IF found = "otherSize" THEN "other" ELSE "ours"]
       /\ version = [f \in Files |-> IF f = name THEN "other" ELSE "zero"]
  /\ entries = [f \in Files |-> {}] /\ lost = {} /\ slips = {}
  /\ opc = [p \in Openers |-> "create"] /\ fd = [p \in Openers |-> NoFile]
  /\ attempt = [p \in Openers |-> 1]

Step(p, from, to) == opc[p] = from /\ opc' = [opc EXCEPT ![p] = to]

Slip(kind, happens) == slips' = IF happens THEN slips \cup {kind} ELSE slips

(* shm_open with O_CREAT and O_EXCL creates the file, empty, or finds one.  *)
Create(p) ==
  /\ Step(p, "create", "truncate") /\ name = NoFile /\ nfiles < MaxFiles
  /\ nfiles' = nfiles + 1 /\ name' = nfiles + 1
  /\ fd' = [fd EXCEPT ![p] = nfiles + 1]
  /\ UNCHANGED <<fileVars, attempt, slips>>

Exists(p) ==
  /\ Step(p, "create", "open") /\ name # NoFile
  /\ UNCHANGED <<name, nfiles, fileVars, fd, attempt, slips>>

Truncate(p) ==
  /\ Step(p, "truncate", "memset")
  /\ fsize' = [fsize EXCEPT ![fd[p]] = "ours"]
  /\ UNCHANGED <<name, nfiles, version, entries, lost, fd, attempt, slips>>

(* initialize_header: everything is zeroed, the version is published last.  *)
Memset(p) ==
  /\ Step(p, "memset", "publish")
  /\ version' = [version EXCEPT ![fd[p]] = "zero"]
  /\ entries' = [entries EXCEPT ![fd[p]] = {}]
  /\ lost' = lost \cup entries[fd[p]]
  /\ UNCHANGED <<name, nfiles, fsize, fd, attempt, slips>>

PublishVersion(p) ==
  /\ Step(p, "publish", "opened")
  /\ version' = [version EXCEPT ![fd[p]] = "ours"]
  /\ UNCHANGED <<name, nfiles, fsize, entries, lost, fd, attempt, slips>>

(* The file existed: open it by name, which fails when it was unlinked      *)
(* meanwhile, and look at its size.                                         *)
Open(p) ==
  /\ \/ name # NoFile /\ Step(p, "open", "stat") /\ fd' = [fd EXCEPT ![p] = name]
     \/ name = NoFile /\ Step(p, "open", "failed") /\ UNCHANGED fd
  /\ UNCHANGED <<name, nfiles, fileVars, attempt, slips>>

(* Mutant of Stat: the size is not checked.                                 *)
StatBlind(p) ==
  /\ Step(p, "stat", "spin")
  /\ UNCHANGED <<name, nfiles, fileVars, fd, attempt, slips>>

Sizing(f) == \E q \in Openers : fd[q] = f /\ opc[q] = "truncate"

Stat(p) ==
  /\ \/ Step(p, "stat", "spin") /\ fsize[fd[p]] = "ours"
     \/ Step(p, "stat", "unlink") /\ fsize[fd[p]] # "ours"
  /\ Slip("early", fsize[fd[p]] # "ours" /\ Sizing(fd[p]))
  /\ UNCHANGED <<name, nfiles, fileVars, fd, attempt>>

(* The name is unlinked, whatever file it refers to by now; one retry.      *)
Unlink(p) ==
  /\ \/ attempt[p] = 1 /\ Step(p, "unlink", "create")
     \/ attempt[p] = 2 /\ Step(p, "unlink", "failed")
  /\ name' = NoFile /\ Slip("stray", name # NoFile /\ name # fd[p])
  /\ attempt' = [attempt EXCEPT ![p] = 2] /\ fd' = [fd EXCEPT ![p] = NoFile]
  /\ UNCHANGED <<nfiles, fileVars>>

(* The bounded spin sees the version, or gives up: on another version the   *)
(* file is reclaimed, on none its initialiser is taken for dead.            *)
Initialising(f) == \E q \in Openers : fd[q] = f /\ opc[q] \in {"memset", "publish"}

(* Mutant of SpinEnds: the waiter initialises as well.                      *)
SpinEndsReinit(p) ==
  /\ Step(p, "spin", "memset") /\ version[fd[p]] = "ours"
  /\ UNCHANGED <<name, nfiles, fileVars, fd, attempt, slips>>

SpinEnds(p) ==
  /\ Step(p, "spin", "opened") /\ version[fd[p]] = "ours"
  /\ UNCHANGED <<name, nfiles, fileVars, fd, attempt, slips>>

(* Mutant of SpinTimeout: the waiter never takes a dead creator's place.    *)
SpinTimeoutWaits(p) ==
  /\ Step(p, "spin", "unlink") /\ version[fd[p]] = "other"
  /\ UNCHANGED <<name, nfiles, fileVars, fd, attempt, slips>>

(* Mutant of SpinTimeout: a file without a version is reclaimed too.        *)
SpinTimeoutReclaims(p) ==
  /\ Step(p, "spin", "unlink") /\ version[fd[p]] # "ours"
  /\ UNCHANGED <<name, nfiles, fileVars, fd, attempt, slips>>

SpinTimeout(p) ==
  /\ \/ Step(p, "spin", "memset") /\ version[fd[p]] = "zero"
     \/ Step(p, "spin", "unlink") /\ version[fd[p]] = "other"
  /\ Slip("race", version[fd[p]] = "zero" /\ Initialising(fd[p]))
  /\ UNCHANGED <<name, nfiles, fileVars, fd, attempt>>

(* The process uses the registry: its first registry_add.                   *)
Register(p) ==
  /\ Step(p, "opened", "registered")
  /\ entries' = [entries EXCEPT ![fd[p]] = @ \cup {p}]
  /\ UNCHANGED <<name, nfiles, fsize, version, lost, fd, attempt, slips>>

Crash(p) ==
  /\ p \in Crashers /\ opc[p] \notin {"failed", "dead"}
  /\ opc' = [opc EXCEPT ![p] = "dead"]
  /\ UNCHANGED <<name, nfiles, fileVars, fd, attempt, slips>>

OpenStep(p) ==
  \/ Create(p) \/ Exists(p) \/ Truncate(p) \/ Memset(p) \/ PublishVersion(p)
  \/ Open(p) \/ Stat(p) \/ Unlink(p) \/ SpinEnds(p) \/ SpinTimeout(p) \/ Register(p)

OpenNext == \E p \in Openers : OpenStep(p) \/ Crash(p)

OpenSpec == OpenInit /\ [][OpenNext]_openVars

(* A process in registry_open runs to the end of it: nothing there blocks.  *)
OpenFairSpec == OpenSpec /\ \A p \in Openers : WF_openVars(OpenStep(p))

-----------------------------------------------------------------------------
(* Type invariant.                                                          *)
OpenTypeOK ==
  /\ name \in {NoFile} \cup Files /\ nfiles \in 0 .. MaxFiles
  /\ fsize \in [Files -> Sizes] /\ version \in [Files -> Versions]
  /\ entries \in [Files -> SUBSET Openers] /\ lost \subseteq Openers
  /\ opc \in [Openers -> {"create", "truncate", "memset", "publish", "open", "stat", "unlink",
                       "spin", "opened", "registered", "failed", "dead"}]
  /\ fd \in [Openers -> {NoFile} \cup Files] /\ attempt \in [Openers -> 1 .. 2]
  /\ slips \subseteq Slips

Using(p) == opc[p] \in {"opened", "registered"}

(* The processes that have the registry open have the same one open, as     *)
(* long as no live file was taken for a stale one: the recovery of an       *)
(* incompatible file, a crash anywhere in it and a spin that runs out never *)
(* split a domain in two.  Only an unlink that hits a file still being      *)
(* created, or one that replaced the stale file meanwhile, does.            *)
Misjudged == slips \cap {"early", "stray"} # {}
OneRegistry == Misjudged \/ \A p, q \in Openers : Using(p) /\ Using(q) => fd[p] = fd[q]

(* No process maps a file that is shorter than the layout, whatever order   *)
(* creation, reclaim and crashes come in: the slot array never faults.      *)
NeverMapsShort ==
  \A p \in Openers : opc[p] \in {"spin", "memset", "publish", "opened", "registered"} =>
                     fsize[fd[p]] = "ours"

(* No registered entry is zeroed, whoever reclaims, retries or takes a dead *)
(* creator's place, unless a spin ran out on an initialiser that was alive. *)
NoEntryWiped == "race" \in slips \/ lost = {}

(* registry_open comes to an end: a process that stays alive gets its entry *)
(* in the file the name refers to, whoever dies during the creation, or is  *)
(* told of a failure, and that only when the first file was reclaimed; when *)
(* a live file was taken for a stale one, it still registers or fails.      *)
EverybodyRegisters ==
  \A p \in Openers :
    <>(\/ opc[p] = "dead"
       \/ opc[p] = "registered" /\ (Misjudged \/ fd[p] = name)
       \/ opc[p] = "failed" /\ (Misjudged \/ name # 1))
=============================================================================
