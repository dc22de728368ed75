------------------------------- MODULE Registry -------------------------------
(***************************************************************************)
(* The shared-memory registry of one ROS domain (registry.cpp): an array   *)
(* of slots that every process of the domain maps and changes without a    *)
(* lock.  A slot has an atomic state word, a sequence word (seqlock) and a *)
(* payload of plain memory; the header has the high-water mark and the     *)
(* generation.  Each atomic access, and each plain access that another     *)
(* process can overlap, is a step of its own.                              *)
(*                                                                         *)
(* The payload is two words: the owner's pid, and everything else (gid,    *)
(* names, socket path, QoS), which identifies the entry.  Two words are    *)
(* enough to tell a torn copy from a whole one.                            *)
(***************************************************************************)
EXTENDS Integers, FiniteSets

CONSTANTS
  Procs,            \* processes that map the registry
  Entries,          \* endpoints they register; each is registered once
  OwnerOf,          \* [Entries -> Procs]
  TypeOf,           \* [Entries -> Types]
  MaxEntries,       \* header->max_entries: the number of slots
  MaxReadRetries,   \* MAX_READ_RETRIES of snapshot_slot
  NoPid, NoEntry,   \* zeroed payload words
  Removable,        \* entries whose owner may destroy them
  Sweepers,         \* processes whose graph queries sweep stale slots
  Queriers,         \* processes that refresh a subscriber-path cache
  Crashers,         \* processes that may die
  CrashMidMutation, \* may they die inside add, remove or cleanup?
  ReuseInWindow     \* environment: may a slot be claimed inside another's window?

Types   == {"DATA", "DOORBELL"}
States  == Types \cup {"EMPTY", "RESERVED"}
SlotIds == 0 .. MaxEntries - 1

ASSUME RegistryAssumption ==
  /\ OwnerOf \in [Entries -> Procs]
  /\ TypeOf \in [Entries -> Types]
  /\ MaxEntries \in Nat \ {0}
  /\ MaxReadRetries \in Nat \ {0}
  /\ NoPid \notin Procs
  /\ NoEntry \notin Entries
  /\ Removable \subseteq Entries
  /\ Sweepers \subseteq Procs /\ Queriers \subseteq Procs /\ Crashers \subseteq Procs
  /\ CrashMidMutation \in BOOLEAN /\ ReuseInWindow \in BOOLEAN

VARIABLES
  state, seq, pid, body,      \* the slots
  high_water, generation,     \* the header
  files,                      \* socket files on disk, named by their entry
  rung,                       \* entries whose socket got a doorbell octet
  pc, loc,                    \* control point and locals of each process
  stage, index,               \* each entry's handle in its owner
  cache, cached_generation,   \* UdsPublisher's subscriber-path cache
  committed,                  \* history: generation that announced the entry
  overtaken                   \* history: a sweep's CAS came after a rewrite of its slot

slots  == <<state, seq, pid, body>>
header == <<high_water, generation>>
handle == <<stage, index>>
caches == <<cache, cached_generation>>
vars   == <<slots, header, files, rung, pc, loc, handle, caches, committed, overtaken>>

Uncommitted == -1

(* Locals of a call: slot index, scan limit, entry, pass of try_add_once,   *)
(* the words loaded from the slot, snapshot attempts, pending answers.      *)
NoLocals ==
  [op |-> "none", i |-> 0, lim |-> 0, ent |-> NoEntry, pass |-> 1,
   s1 |-> 0, st |-> "EMPTY", pid |-> NoPid, body |-> NoEntry,
   tries |-> 0, reclaimed |-> FALSE, acc |-> {}, gen |-> 0]

AddPcs  == {"claim", "w_begin", "w_pid", "w_body", "w_end", "publish", "widen", "a_bump"}
TearPcs == {"t_begin", "t_copy", "t_pid", "t_body", "t_end", "t_unlink"}
RingPcs == {"ring_hw", "ring", "r_seq", "r_state", "r_copy", "r_send"}
SnapPcs == {"s_seq", "s_state", "s_pid", "s_body", "s_check"}
Pcs     == {"idle", "dead", "d_load", "d_cas", "d_bump", "d_close",
            "q_hw", "q_scan", "q_take",
            "c_hw", "c_scan", "c_vet", "c_seq", "c_cas", "c_bump"}
             \cup AddPcs \cup TearPcs \cup RingPcs \cup SnapPcs

Alive == {p \in Procs : pc[p] # "dead"}

Init ==
  /\ state = [i \in SlotIds |-> "EMPTY"]
  /\ seq   = [i \in SlotIds |-> 0]
  /\ pid   = [i \in SlotIds |-> NoPid]
  /\ body  = [i \in SlotIds |-> NoEntry]
  /\ high_water = 0
  /\ generation = 0
  /\ files = {}
  /\ rung  = {}
  /\ pc    = [p \in Procs |-> "idle"]
  /\ loc   = [p \in Procs |-> NoLocals]
  /\ stage = [e \in Entries |-> "new"]
  /\ index = [e \in Entries |-> -1]
  /\ cache = [p \in Procs |-> {}]
  /\ cached_generation = [p \in Procs |-> 0]
  /\ committed = [e \in Entries |-> Uncommitted]
  /\ overtaken = FALSE

Goto(p, l)   == pc' = [pc EXCEPT ![p] = l]
Set(p, r)    == loc' = [loc EXCEPT ![p] = r]
Return(p)    == Goto(p, "idle") /\ Set(p, NoLocals)

(* A mutation of the registry is in progress in a live process.             *)
Mutating(p) == loc[p].op \in {"add", "remove", "sweep"} /\ pc[p] # "dead"

(* Slot i is empty, yet another process has still to run its teardown: the  *)
(* code lets a claim land in that window.  ReuseInWindow = FALSE leaves     *)
(* those schedules out, to see whether everything else is sound.            *)
InWindow(i) == \E q \in Procs : pc[q] \in TearPcs /\ loc[q].i = i

-----------------------------------------------------------------------------
(* registry_add.  The endpoint's socket is bound before it is registered.  *)

StartAdd(p, e) ==
  /\ pc[p] = "idle" /\ OwnerOf[e] = p /\ stage[e] = "new"
  /\ stage' = [stage EXCEPT ![e] = "adding"]
  /\ files' = files \cup {e}
  /\ Set(p, [NoLocals EXCEPT !.op = "add", !.ent = e])
  /\ Goto(p, "claim")
  /\ UNCHANGED <<slots, header, rung, index, caches, committed, overtaken>>

(* Mutant of Claim: any slot not being filled is taken.                     *)
ClaimAny(p) ==
  LET i == loc[p].i IN
  /\ pc[p] = "claim" /\ i < MaxEntries
  /\ \/ /\ state[i] # "RESERVED" /\ (ReuseInWindow \/ ~InWindow(i))
        /\ state' = [state EXCEPT ![i] = "RESERVED"]
        /\ Goto(p, "w_begin")
        /\ UNCHANGED loc
     \/ /\ state[i] = "RESERVED"
        /\ Set(p, [loc[p] EXCEPT !.i = i + 1])
        /\ UNCHANGED <<state, pc>>
  /\ UNCHANGED <<seq, pid, body, header, files, rung, handle, caches, committed, overtaken>>

(* One iteration of try_add_once's scan: CAS EMPTY -> RESERVED.             *)
Claim(p) ==
  LET i == loc[p].i IN
  /\ pc[p] = "claim" /\ i < MaxEntries
  /\ \/ /\ state[i] = "EMPTY" /\ (ReuseInWindow \/ ~InWindow(i))
        /\ state' = [state EXCEPT ![i] = "RESERVED"]
        /\ Goto(p, "w_begin")
        /\ UNCHANGED loc
     \/ /\ state[i] # "EMPTY"
        /\ Set(p, [loc[p] EXCEPT !.i = i + 1])
        /\ UNCHANGED <<state, pc>>
  /\ UNCHANGED <<seq, pid, body, header, files, rung, handle, caches, committed, overtaken>>

(* No empty slot: sweep and retry once, then give up.  The failed creation  *)
(* closes and unlinks the endpoint's socket.                                *)
ClaimFull(p) ==
  /\ pc[p] = "claim" /\ loc[p].i >= MaxEntries
  /\ \/ /\ loc[p].pass = 1
        /\ Set(p, [loc[p] EXCEPT !.pass = 2, !.i = 0])
        /\ Goto(p, "c_hw")
        /\ UNCHANGED <<files, stage>>
     \/ /\ loc[p].pass = 2
        /\ files' = files \ {loc[p].ent}
        /\ stage' = [stage EXCEPT ![loc[p].ent] = "gone"]
        /\ Return(p)
  /\ UNCHANGED <<slots, header, rung, index, caches, committed, overtaken>>

(* write_slot_payload: seq to odd, the payload word by word, seq to even.   *)
WriteBegin(p) ==
  /\ pc[p] = "w_begin" /\ Goto(p, "w_pid")
  /\ seq' = [seq EXCEPT ![loc[p].i] = @ + 1]
  /\ UNCHANGED <<state, pid, body, header, files, rung, loc, handle, caches, committed, overtaken>>

WritePid(p) ==
  /\ pc[p] = "w_pid" /\ Goto(p, "w_body")
  /\ pid' = [pid EXCEPT ![loc[p].i] = p]
  /\ UNCHANGED <<state, seq, body, header, files, rung, loc, handle, caches, committed, overtaken>>

WriteBody(p) ==
  /\ pc[p] = "w_body" /\ Goto(p, "w_end")
  /\ body' = [body EXCEPT ![loc[p].i] = loc[p].ent]
  /\ UNCHANGED <<state, seq, pid, header, files, rung, loc, handle, caches, committed, overtaken>>

WriteEnd(p) ==
  /\ pc[p] = "w_end" /\ Goto(p, "publish")
  /\ seq' = [seq EXCEPT ![loc[p].i] = @ + 1]
  /\ UNCHANGED <<state, pid, body, header, files, rung, loc, handle, caches, committed, overtaken>>

Publish(p) ==
  /\ pc[p] = "publish" /\ Goto(p, "widen")
  /\ state' = [state EXCEPT ![loc[p].i] = TypeOf[loc[p].ent]]
  /\ UNCHANGED <<seq, pid, body, header, files, rung, loc, handle, caches, committed, overtaken>>

(* Mutant of Widen: the mark is not raised.                                 *)
WidenNever(p) ==
  /\ pc[p] = "widen" /\ Goto(p, "a_bump")
  /\ UNCHANGED high_water
  /\ UNCHANGED <<slots, generation, files, rung, loc, handle, caches, committed, overtaken>>

(* The CAS loop on high_water_slot ends with the maximum of both values.    *)
Widen(p) ==
  /\ pc[p] = "widen" /\ Goto(p, "a_bump")
  /\ high_water' = IF high_water < loc[p].i + 1 THEN loc[p].i + 1 ELSE high_water
  /\ UNCHANGED <<slots, generation, files, rung, loc, handle, caches, committed, overtaken>>

(* generation.fetch_add of try_add_once, which then rings every doorbell    *)
(* unless the new slot is a doorbell itself.                                *)
AddBump(p) ==
  LET e == loc[p].ent IN
  /\ pc[p] = "a_bump"
  /\ generation' = generation + 1
  /\ committed' = [committed EXCEPT ![e] = generation + 1]
  /\ index' = [index EXCEPT ![e] = loc[p].i]
  /\ stage' = [stage EXCEPT ![e] = "live"]
  /\ IF TypeOf[e] = "DOORBELL"
     THEN Return(p)
     ELSE Goto(p, "ring_hw") /\ Set(p, [NoLocals EXCEPT !.op = "add"])
  /\ UNCHANGED <<slots, high_water, files, rung, caches, overtaken>>

-----------------------------------------------------------------------------
(* registry_remove, called by the destruction of an endpoint, which then    *)
(* closes and unlinks its socket.                                           *)

StartRemove(p, e) ==
  /\ pc[p] = "idle" /\ OwnerOf[e] = p /\ stage[e] = "live" /\ e \in Removable
  /\ stage' = [stage EXCEPT ![e] = "removing"]
  /\ Set(p, [NoLocals EXCEPT !.op = "remove", !.ent = e, !.i = index[e]])
  /\ Goto(p, "d_load")
  /\ UNCHANGED <<slots, header, files, rung, index, caches, committed, overtaken>>

RemoveLoad(p) ==
  /\ pc[p] = "d_load"
  /\ Set(p, [loc[p] EXCEPT !.st = state[loc[p].i]])
  /\ Goto(p, IF state[loc[p].i] = "EMPTY" THEN "d_close" ELSE "d_cas")
  /\ UNCHANGED <<slots, header, files, rung, handle, caches, committed, overtaken>>

(* CAS st -> EMPTY; the loser returns.                                      *)
RemoveCas(p) ==
  LET l == loc[p] IN
  /\ pc[p] = "d_cas"
  /\ \/ /\ state[l.i] = l.st
        /\ state' = [state EXCEPT ![l.i] = "EMPTY"]
        /\ Goto(p, "t_begin")
     \/ /\ state[l.i] # l.st
        /\ Goto(p, "d_close")
        /\ UNCHANGED state
  /\ UNCHANGED <<seq, pid, body, header, files, rung, loc, handle, caches, committed, overtaken>>

RemoveBump(p) ==
  /\ pc[p] = "d_bump"
  /\ generation' = generation + 1
  /\ Goto(p, IF loc[p].st = "DOORBELL" THEN "d_close" ELSE "ring_hw")
  /\ Set(p, [NoLocals EXCEPT !.op = "remove", !.ent = loc[p].ent])
  /\ UNCHANGED <<slots, high_water, files, rung, handle, caches, committed, overtaken>>

(* close_socket of the destroyed endpoint.                                  *)
RemoveClose(p) ==
  /\ pc[p] = "d_close"
  /\ files' = files \ {loc[p].ent}
  /\ stage' = [stage EXCEPT ![loc[p].ent] = "gone"]
  /\ Return(p)
  /\ UNCHANGED <<slots, header, rung, index, caches, committed, overtaken>>

-----------------------------------------------------------------------------
(* teardown_slot, for registry_remove and registry_cleanup_stale.  It runs  *)
(* after the CAS that made the slot EMPTY.                                  *)

TearBegin(p) ==
  /\ pc[p] = "t_begin" /\ Goto(p, "t_copy")
  /\ seq' = [seq EXCEPT ![loc[p].i] = @ + 1]
  /\ UNCHANGED <<state, pid, body, header, files, rung, loc, handle, caches, committed, overtaken>>

TearCopyPath(p) ==
  /\ pc[p] = "t_copy" /\ Goto(p, "t_pid")
  /\ Set(p, [loc[p] EXCEPT !.body = body[loc[p].i]])
  /\ UNCHANGED <<slots, header, files, rung, handle, caches, committed, overtaken>>

TearPid(p) ==
  /\ pc[p] = "t_pid" /\ Goto(p, "t_body")
  /\ pid' = [pid EXCEPT ![loc[p].i] = NoPid]
  /\ UNCHANGED <<state, seq, body, header, files, rung, loc, handle, caches, committed, overtaken>>

TearBody(p) ==
  /\ pc[p] = "t_body" /\ Goto(p, "t_end")
  /\ body' = [body EXCEPT ![loc[p].i] = NoEntry]
  /\ UNCHANGED <<state, seq, pid, header, files, rung, loc, handle, caches, committed, overtaken>>

TearEnd(p) ==
  /\ pc[p] = "t_end" /\ Goto(p, "t_unlink")
  /\ seq' = [seq EXCEPT ![loc[p].i] = @ + 1]
  /\ UNCHANGED <<state, pid, body, header, files, rung, loc, handle, caches, committed, overtaken>>

TearUnlink(p) ==
  /\ pc[p] = "t_unlink"
  /\ Goto(p, IF loc[p].op = "remove" THEN "d_bump" ELSE "c_bump")
  /\ files' = files \ {loc[p].body}
  /\ UNCHANGED <<slots, header, rung, loc, handle, caches, committed, overtaken>>

-----------------------------------------------------------------------------
(* snapshot_slot, for the sweep and for the query: at most MaxReadRetries   *)
(* attempts, each giving up on a RESERVED or EMPTY slot.                    *)

NextSlot(l) ==
  [l EXCEPT !.i = @ + 1, !.s1 = 0, !.st = "EMPTY", !.pid = NoPid, !.body = NoEntry, !.tries = 0]

Scan(p) == IF loc[p].op = "query" THEN "q_scan" ELSE "c_scan"

SkipSlot(p) == Goto(p, Scan(p)) /\ Set(p, NextSlot(loc[p]))

Retry(p) ==
  IF loc[p].tries + 1 < MaxReadRetries
  THEN Goto(p, "s_seq") /\ Set(p, [loc[p] EXCEPT !.tries = @ + 1])
  ELSE SkipSlot(p)

SnapSeq(p) ==
  LET s == seq[loc[p].i] IN
  /\ pc[p] = "s_seq"
  /\ IF s % 2 = 1 THEN Retry(p)
                  ELSE Goto(p, "s_state") /\ Set(p, [loc[p] EXCEPT !.s1 = s])
  /\ UNCHANGED <<slots, header, files, rung, handle, caches, committed, overtaken>>

SnapState(p) ==
  LET st == state[loc[p].i] IN
  /\ pc[p] = "s_state"
  /\ IF st \in {"EMPTY", "RESERVED"}
     THEN SkipSlot(p)
     ELSE Goto(p, "s_pid") /\ Set(p, [loc[p] EXCEPT !.st = st])
  /\ UNCHANGED <<slots, header, files, rung, handle, caches, committed, overtaken>>

SnapPid(p) ==
  /\ pc[p] = "s_pid" /\ Goto(p, "s_body")
  /\ Set(p, [loc[p] EXCEPT !.pid = pid[loc[p].i]])
  /\ UNCHANGED <<slots, header, files, rung, handle, caches, committed, overtaken>>

SnapBody(p) ==
  /\ pc[p] = "s_body" /\ Goto(p, "s_check")
  /\ Set(p, [loc[p] EXCEPT !.body = body[loc[p].i]])
  /\ UNCHANGED <<slots, header, files, rung, handle, caches, committed, overtaken>>

(* Mutant of SnapCheck: seq is not compared again.                          *)
SnapCheckBlind(p) ==
  /\ pc[p] = "s_check"
  /\ Goto(p, IF loc[p].op = "query" THEN "q_take" ELSE "c_vet") /\ UNCHANGED loc
  /\ UNCHANGED <<slots, header, files, rung, handle, caches, committed, overtaken>>

SnapCheck(p) ==
  /\ pc[p] = "s_check"
  /\ IF seq[loc[p].i] = loc[p].s1
     THEN Goto(p, IF loc[p].op = "query" THEN "q_take" ELSE "c_vet") /\ UNCHANGED loc
     ELSE Retry(p)
  /\ UNCHANGED <<slots, header, files, rung, handle, caches, committed, overtaken>>

-----------------------------------------------------------------------------
(* registry_cleanup_stale, from a graph query or from a full registry_add.  *)

StartSweep(p) ==
  /\ pc[p] = "idle" /\ p \in Sweepers
  /\ Set(p, [NoLocals EXCEPT !.op = "sweep"])
  /\ Goto(p, "c_hw")
  /\ UNCHANGED <<slots, header, files, rung, handle, caches, committed, overtaken>>

(* Mutant of SweepLimit: the last slot is not swept.                        *)
SweepLimitShort(p) ==
  /\ pc[p] = "c_hw" /\ Goto(p, "c_scan")
  /\ Set(p, [loc[p] EXCEPT !.lim = IF high_water = 0 THEN 0 ELSE high_water - 1])
  /\ UNCHANGED <<slots, header, files, rung, handle, caches, committed, overtaken>>

SweepLimit(p) ==
  /\ pc[p] = "c_hw" /\ Goto(p, "c_scan")
  /\ Set(p, [loc[p] EXCEPT !.lim = high_water])
  /\ UNCHANGED <<slots, header, files, rung, handle, caches, committed, overtaken>>

SweepSlot(p) ==
  /\ pc[p] = "c_scan" /\ loc[p].i < loc[p].lim
  /\ IF state[loc[p].i] = "EMPTY" THEN SkipSlot(p) ELSE Goto(p, "s_seq") /\ UNCHANGED loc
  /\ UNCHANGED <<slots, header, files, rung, handle, caches, committed, overtaken>>

(* Only an entry with a pid, of a process that is gone, is reclaimed.       *)
SweepVet(p) ==
  /\ pc[p] = "c_vet"
  /\ IF loc[p].pid = NoPid \/ loc[p].pid \in Alive
     THEN SkipSlot(p) ELSE Goto(p, "c_seq") /\ UNCHANGED loc
  /\ UNCHANGED <<slots, header, files, rung, handle, caches, committed, overtaken>>

(* Mutant of SweepSeq: seq is loaded again and not compared.                *)
SweepSeqBlind(p) ==
  /\ pc[p] = "c_seq"
  /\ Goto(p, "c_cas") /\ Set(p, [loc[p] EXCEPT !.s1 = seq[loc[p].i]])
  /\ UNCHANGED <<slots, header, files, rung, handle, caches, committed, overtaken>>

(* The ABA guard: the slot has not been rewritten since the snapshot.       *)
SweepSeq(p) ==
  /\ pc[p] = "c_seq"
  /\ IF seq[loc[p].i] # loc[p].s1 THEN SkipSlot(p) ELSE Goto(p, "c_cas") /\ UNCHANGED loc
  /\ UNCHANGED <<slots, header, files, rung, handle, caches, committed, overtaken>>

(* CAS st -> EMPTY.  It compares the state word only: a slot that another   *)
(* sweep emptied and an add refilled after the guard is taken as well.      *)
SweepCas(p) ==
  LET l == loc[p] IN
  /\ pc[p] = "c_cas"
  /\ \/ /\ state[l.i] = l.st
        /\ state' = [state EXCEPT ![l.i] = "EMPTY"]
        /\ overtaken' = (overtaken \/ seq[l.i] # l.s1)
        /\ Goto(p, "t_begin")
        /\ UNCHANGED loc
     \/ /\ state[l.i] # l.st
        /\ SkipSlot(p)
        /\ UNCHANGED <<state, overtaken>>
  /\ UNCHANGED <<seq, pid, body, header, files, rung, handle, caches, committed>>

SweepBump(p) ==
  /\ pc[p] = "c_bump" /\ Goto(p, "c_scan")
  /\ generation' = generation + 1
  /\ Set(p, [NextSlot(loc[p]) EXCEPT !.reclaimed = @ \/ loc[p].st # "DOORBELL"])
  /\ UNCHANGED <<slots, high_water, files, rung, handle, caches, committed, overtaken>>

(* The end of the call: back to try_add_once if the full registry was swept *)
(* for an add, otherwise back to the graph query that asked for it.         *)
SweepReturn(p) ==
  IF loc[p].op = "add"
  THEN Goto(p, "claim") /\ Set(p, [NoLocals EXCEPT !.op = "add", !.ent = loc[p].ent, !.pass = 2])
  ELSE Return(p)

SweepEnd(p) ==
  /\ pc[p] = "c_scan" /\ loc[p].i >= loc[p].lim
  /\ IF loc[p].reclaimed
     THEN Goto(p, "ring_hw") /\ Set(p, [NoLocals EXCEPT !.op = loc[p].op, !.ent = loc[p].ent])
     ELSE SweepReturn(p)
  /\ UNCHANGED <<slots, header, files, rung, handle, caches, committed, overtaken>>

-----------------------------------------------------------------------------
(* ring_doorbells: one octet to the socket of every registered doorbell.    *)

RingLimit(p) ==
  /\ pc[p] = "ring_hw" /\ Goto(p, "ring")
  /\ Set(p, [loc[p] EXCEPT !.lim = high_water])
  /\ UNCHANGED <<slots, header, files, rung, handle, caches, committed, overtaken>>

RingSkip(p) == Goto(p, "ring") /\ Set(p, NextSlot(loc[p]))

RingSlot(p) ==
  /\ pc[p] = "ring" /\ loc[p].i < loc[p].lim
  /\ IF state[loc[p].i] # "DOORBELL" THEN RingSkip(p) ELSE Goto(p, "r_seq") /\ UNCHANGED loc
  /\ UNCHANGED <<slots, header, files, rung, handle, caches, committed, overtaken>>

RingSeq(p) ==
  LET s == seq[loc[p].i] IN
  /\ pc[p] = "r_seq"
  /\ IF s % 2 = 1 THEN RingSkip(p)
                  ELSE Goto(p, "r_state") /\ Set(p, [loc[p] EXCEPT !.s1 = s])
  /\ UNCHANGED <<slots, header, files, rung, handle, caches, committed, overtaken>>

(* Mutant of RingState: the type is not checked again.                      *)
RingStateBlind(p) ==
  /\ pc[p] = "r_state"
  /\ Goto(p, "r_copy") /\ UNCHANGED loc
  /\ UNCHANGED <<slots, header, files, rung, handle, caches, committed, overtaken>>

RingState(p) ==
  /\ pc[p] = "r_state"
  /\ IF state[loc[p].i] # "DOORBELL" THEN RingSkip(p) ELSE Goto(p, "r_copy") /\ UNCHANGED loc
  /\ UNCHANGED <<slots, header, files, rung, handle, caches, committed, overtaken>>

RingCopy(p) ==
  /\ pc[p] = "r_copy" /\ Goto(p, "r_send")
  /\ Set(p, [loc[p] EXCEPT !.body = body[loc[p].i]])
  /\ UNCHANGED <<slots, header, files, rung, handle, caches, committed, overtaken>>

(* The copy is used only if seq is unchanged and the path is not empty; a   *)
(* send to a path without a socket file fails and is ignored.               *)
RingSend(p) ==
  /\ pc[p] = "r_send" /\ RingSkip(p)
  /\ rung' = IF seq[loc[p].i] = loc[p].s1 /\ loc[p].body \in files
             THEN rung \cup {loc[p].body} ELSE rung
  /\ UNCHANGED <<slots, header, files, handle, caches, committed, overtaken>>

RingEnd(p) ==
  /\ pc[p] = "ring" /\ loc[p].i >= loc[p].lim
  /\ CASE loc[p].op = "remove" -> Goto(p, "d_close") /\ UNCHANGED loc
       [] loc[p].op = "add" /\ loc[p].ent = NoEntry -> Return(p)
       [] OTHER -> SweepReturn(p)
  /\ UNCHANGED <<slots, header, files, rung, handle, caches, committed, overtaken>>

-----------------------------------------------------------------------------
(* A publisher's refresh_sub_paths: load the generation, and if it moved    *)
(* run registry_query and replace the cached paths.                         *)

StartRefresh(p) ==
  /\ pc[p] = "idle" /\ p \in Queriers
  /\ generation > cached_generation[p]
  /\ Set(p, [NoLocals EXCEPT !.op = "query", !.gen = generation])
  /\ Goto(p, "q_hw")
  /\ UNCHANGED <<slots, header, files, rung, handle, caches, committed, overtaken>>

QueryLimit(p) ==
  /\ pc[p] = "q_hw" /\ Goto(p, "q_scan")
  /\ Set(p, [loc[p] EXCEPT !.lim = high_water])
  /\ UNCHANGED <<slots, header, files, rung, handle, caches, committed, overtaken>>

(* The type filter is applied to the state word before the snapshot ...     *)
QuerySlot(p) ==
  /\ pc[p] = "q_scan" /\ loc[p].i < loc[p].lim
  /\ IF state[loc[p].i] # "DATA" THEN SkipSlot(p) ELSE Goto(p, "s_seq") /\ UNCHANGED loc
  /\ UNCHANGED <<slots, header, files, rung, handle, caches, committed, overtaken>>

(* ... and to the snapshot; an entry with an empty path is left out.        *)
QueryTake(p) ==
  LET l == loc[p] IN
  /\ pc[p] = "q_take" /\ Goto(p, "q_scan")
  /\ Set(p, [NextSlot(l) EXCEPT
               !.acc = IF l.st = "DATA" /\ l.body # NoEntry THEN @ \cup {l.body} ELSE @])
  /\ UNCHANGED <<slots, header, files, rung, handle, caches, committed, overtaken>>

(* Mutant of QueryEnd: the cache is labelled with the generation at its end. *)
QueryEndFresh(p) ==
  /\ pc[p] = "q_scan" /\ loc[p].i >= loc[p].lim
  /\ cache' = [cache EXCEPT ![p] = loc[p].acc]
  /\ cached_generation' = [cached_generation EXCEPT ![p] = generation]
  /\ Return(p)
  /\ UNCHANGED <<slots, header, files, rung, handle, committed, overtaken>>

QueryEnd(p) ==
  /\ pc[p] = "q_scan" /\ loc[p].i >= loc[p].lim
  /\ cache' = [cache EXCEPT ![p] = loc[p].acc]
  /\ cached_generation' = [cached_generation EXCEPT ![p] = loc[p].gen]
  /\ Return(p)
  /\ UNCHANGED <<slots, header, files, rung, handle, committed, overtaken>>

-----------------------------------------------------------------------------
(* A process dies: its memory is gone, its slots and socket files stay.     *)
Crash(p) ==
  /\ p \in Crashers /\ pc[p] # "dead"
  /\ CrashMidMutation \/ ~Mutating(p)
  /\ Goto(p, "dead") /\ Set(p, NoLocals)
  /\ UNCHANGED <<slots, header, files, rung, handle, caches, committed, overtaken>>

AddStep(p) ==
  \/ Claim(p) \/ ClaimFull(p) \/ WriteBegin(p) \/ WritePid(p) \/ WriteBody(p)
  \/ WriteEnd(p) \/ Publish(p) \/ Widen(p) \/ AddBump(p)
RemoveStep(p) ==
  RemoveLoad(p) \/ RemoveCas(p) \/ RemoveBump(p) \/ RemoveClose(p)
TearStep(p) ==
  \/ TearBegin(p) \/ TearCopyPath(p) \/ TearPid(p) \/ TearBody(p) \/ TearEnd(p) \/ TearUnlink(p)
SnapStep(p) ==
  SnapSeq(p) \/ SnapState(p) \/ SnapPid(p) \/ SnapBody(p) \/ SnapCheck(p)
SweepStep(p) ==
  \/ SweepLimit(p) \/ SweepSlot(p) \/ SweepVet(p) \/ SweepSeq(p) \/ SweepCas(p)
  \/ SweepBump(p) \/ SweepEnd(p)
RingStep(p) ==
  \/ RingLimit(p) \/ RingSlot(p) \/ RingSeq(p) \/ RingState(p) \/ RingCopy(p)
  \/ RingSend(p) \/ RingEnd(p)
QueryStep(p) == QueryLimit(p) \/ QuerySlot(p) \/ QueryTake(p) \/ QueryEnd(p)

(* A step of a call already begun.                                          *)
Step(p) == \/ AddStep(p) \/ RemoveStep(p) \/ TearStep(p) \/ SnapStep(p)
           \/ SweepStep(p) \/ RingStep(p) \/ QueryStep(p)

Next ==
  \E p \in Procs :
    \/ \E e \in Entries : StartAdd(p, e) \/ StartRemove(p, e)
    \/ StartSweep(p) \/ StartRefresh(p) \/ Step(p) \/ Crash(p)

Spec == Init /\ [][Next]_vars

-----------------------------------------------------------------------------
(* Properties.                                                              *)

Pids   == Procs \cup {NoPid}
Bodies == Entries \cup {NoEntry}
Locals ==
  [op : {"none", "add", "remove", "sweep", "query"}, i : Nat, lim : Nat, ent : Bodies,
   pass : {1, 2}, s1 : Nat, st : States, pid : Pids, body : Bodies, tries : Nat,
   reclaimed : BOOLEAN, acc : SUBSET Entries, gen : Nat]

(* Every variable has its type (registry.hpp's RegistryHeader and           *)
(* RegistryEntrySlot, and the locals of the functions that use them).       *)
TypeOK ==
  /\ state \in [SlotIds -> States] /\ seq \in [SlotIds -> Nat]
  /\ pid \in [SlotIds -> Pids] /\ body \in [SlotIds -> Bodies]
  /\ high_water \in 0 .. MaxEntries /\ generation \in Nat
  /\ files \subseteq Entries /\ rung \subseteq Entries
  /\ pc \in [Procs -> Pcs] /\ loc \in [Procs -> Locals]
  /\ stage \in [Entries -> {"new", "adding", "live", "removing", "gone"}]
  /\ index \in [Entries -> {-1} \cup SlotIds]
  /\ cache \in [Procs -> SUBSET Entries] /\ cached_generation \in [Procs -> Nat]
  /\ committed \in [Entries -> {Uncommitted} \cup Nat] /\ overtaken \in BOOLEAN

(* "Under-scan is impossible": the slot of an entry whose registration the  *)
(* generation announces is below the high-water mark, however adds, removes *)
(* and sweeps overlap (try_add_once widens before it bumps).                *)
HighWaterCovers ==
  \A e \in Entries : committed[e] # Uncommitted => index[e] < high_water

(* A snapshot that snapshot_slot accepts is one entry as its owner wrote    *)
(* it: never the words of two entries, never a half-zeroed slot, until a    *)
(* sweep's CAS is overtaken (the entry's owner then removes the next one).  *)
NoTornSnapshot ==
  overtaken \/ \A p \in Procs : pc[p] \in {"c_vet", "c_seq", "c_cas", "q_take"} =>
    /\ loc[p].body \in Entries
    /\ loc[p].pid = OwnerOf[loc[p].body]
    /\ loc[p].st = TypeOf[loc[p].body]

(* A registered entry whose owner lives and keeps it stays whole in its     *)
(* slot and keeps its socket file: no sweep and no other process's teardown *)
(* touches it ("the winner owns the teardown"), until a sweep's CAS is      *)
(* overtaken by a rewrite of its slot.                                      *)
LiveEntryIntact ==
  overtaken \/ \A e \in Entries : (stage[e] = "live" /\ OwnerOf[e] \in Alive) =>
    /\ state[index[e]] = TypeOf[e]
    /\ pid[index[e]] = OwnerOf[e] /\ body[index[e]] = e
    /\ e \in files

(* The memoization invariant of refresh_sub_paths: a cache labelled with a  *)
(* generation holds every endpoint that generation announced and that is    *)
(* still registered by a live process, until a sweep's CAS is overtaken.    *)
CacheCoversGeneration ==
  overtaken \/ \A p \in Procs, e \in Entries :
    (/\ TypeOf[e] = "DATA" /\ stage[e] = "live" /\ OwnerOf[e] \in Alive
     /\ committed[e] <= cached_generation[p]) => e \in cache[p]

(* ring_doorbells never lands its octet on a data socket, although the      *)
(* doorbell slot it reads may be removed and claimed by a data endpoint     *)
(* meanwhile, until a sweep's CAS is overtaken.                             *)
RingHitsOnlyDoorbells == overtaken \/ \A e \in rung : TypeOf[e] = "DOORBELL"

(* registry_cleanup_stale's CAS takes a slot only from an entry whose owner *)
(* is dead: the ABA guard's promise.  The one way a live process loses its  *)
(* entry to a sweep is a slot that is emptied, claimed and filled again     *)
(* after the guard and before the CAS, which compares no seq.               *)
SweepsOnlyTheDead ==
  [][\A p \in Procs :
       (pc[p] = "c_cas" /\ pc'[p] = "t_begin" /\ body[loc[p].i] # NoEntry)
         => overtaken' \/ OwnerOf[body[loc[p].i]] \notin Alive]_vars

(* No slot leaks: a slot that no live process is filling or holding is      *)
(* empty again once the sweeps have passed.  Checked under FairSpec.        *)
Orphaned(i) ==
  /\ state[i] # "EMPTY"
  /\ \A p \in Procs : Mutating(p) => loc[p].i # i
  /\ \A e \in Entries : index[e] = i /\ stage[e] \in {"live", "removing"} =>
       OwnerOf[e] \notin Alive
OrphansReclaimed ==
  \A i \in SlotIds : Orphaned(i) ~> (state[i] = "EMPTY")

(* Every begun call runs on (the code never waits for another process), and *)
(* each sweeping process goes on asking graph queries.                      *)
FairSpec == Spec /\ \A p \in Procs : WF_vars(Step(p)) /\ WF_vars(StartSweep(p))

=============================================================================
