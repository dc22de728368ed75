------------------------------ MODULE Doorbell ------------------------------
(***************************************************************************)
(* Graph events across processes: a mutation of the registry bumps the     *)
(* generation and then rings the doorbell socket of every context that     *)
(* registered one (registry.cpp); the threads of a context wait in epoll   *)
(* and, before blocking and after each ring, drain the doorbell, read the  *)
(* generation and trigger the nodes' graph guard conditions (rmw_wait.cpp).*)
(*                                                                         *)
(* One context is modelled, with any number of threads in rmw_wait and any *)
(* number of mutating processes: contexts share nothing but the generation *)
(* and their registry slots, which module Registry models.                 *)
(***************************************************************************)
EXTENDS Integers, FiniteSets

CONSTANTS
  Threads,        \* threads of the context that call rmw_wait
  Listeners,      \* those whose wait set holds a graph guard condition
  Timed,          \* those that wait with a finite timeout
  Mutators,       \* processes that add, remove or reclaim registry slots
  MaxMutations,   \* bound on the generation, for TLC
  BellCap,        \* octets the doorbell socket holds
  MayBeFull,      \* may the doorbell's registration find the registry full?
  MutatorsCrash   \* may a mutator die between the bump and the ring?

ASSUME DoorbellAssumption ==
  /\ Listeners \subseteq Threads /\ Timed \subseteq Threads
  /\ MaxMutations \in Nat /\ BellCap \in Nat \ {0}
  /\ MayBeFull \in BOOLEAN /\ MutatorsCrash \in BOOLEAN

VARIABLES
  generation,     \* RegistryHeader::generation
  bell_slot,      \* the context's ENTRY_DOORBELL slot as a ring's scan sees it
  registered,     \* ctx->doorbell_registered
  bell,           \* octets queued on the doorbell socket
  last,           \* ctx->last_registry_generation
  gc,             \* eventfd of each listener's graph guard condition
  mpc,            \* control point of each mutator
  tpc, gen,       \* control point and loaded generation of each thread
  looping,        \* is the generation check the one of the epoll loop?
  unwired,        \* graph_gc_unwired
  got,            \* gc_triggered of this call
  noticed,        \* history: generation when the listener was last woken
  unrung          \* history: has a mutator died before its ring, and none bumped since?

shared == <<generation, bell_slot, registered, bell, last, gc>>
calls  == <<tpc, gen, looping, unwired, got>>
bellVars == <<shared, mpc, calls, noticed, unrung>>

CheckPcs == {"drain", "load", "compare", "store", "trigger"}
AddPcs   == {"widen", "reg_bump"}
Pcs      == {"out", "reg", "ready", "poll", "block", "output"} \cup CheckPcs \cup AddPcs

BellInit ==
  /\ generation = 0 /\ bell_slot = "none" /\ registered = FALSE /\ bell = 0 /\ last = 0
  /\ gc      = [t \in Listeners |-> FALSE]
  /\ mpc     = [m \in Mutators |-> "idle"]
  /\ tpc     = [t \in Threads |-> "out"]
  /\ gen     = [t \in Threads |-> 0]
  /\ looping = [t \in Threads |-> FALSE]
  /\ unwired = [t \in Threads |-> FALSE]
  /\ got     = [t \in Threads |-> FALSE]
  /\ noticed = [t \in Listeners |-> 0]
  /\ unrung  = FALSE

Goes(t, from, to) == tpc[t] = from /\ tpc' = [tpc EXCEPT ![t] = to]

-----------------------------------------------------------------------------
(* A mutation in any process: the slot change, then the bump ...            *)
Bump(m) ==
  /\ mpc[m] = "idle" /\ generation < MaxMutations
  /\ mpc' = [mpc EXCEPT ![m] = "ring"]
  /\ generation' = generation + 1
  /\ unrung' = FALSE
  /\ UNCHANGED <<bell_slot, registered, bell, last, gc, calls, noticed>>

(* ... then ring_doorbells.  A slot that is published but not yet below the *)
(* high-water mark is found only if the mark was beyond it before.  A full  *)
(* socket drops the octet.                                                  *)
Ring(m) ==
  /\ mpc[m] = "ring"
  /\ mpc' = [mpc EXCEPT ![m] = "idle"]
  /\ \/ /\ bell_slot # "none"
        /\ bell' = IF bell < BellCap THEN bell + 1 ELSE bell
     \/ /\ bell_slot # "widened"
        /\ UNCHANGED bell
  /\ UNCHANGED <<generation, bell_slot, registered, last, gc, calls, noticed, unrung>>

(* The process dies before its ring.                                        *)
MutatorDies(m) ==
  /\ MutatorsCrash /\ mpc[m] = "ring"
  /\ mpc' = [mpc EXCEPT ![m] = "dead"]
  /\ unrung' = TRUE
  /\ UNCHANGED <<shared, calls, noticed>>

-----------------------------------------------------------------------------
(* rmw_wait.  Lazy registration of the doorbell, under doorbell_reg_mutex.  *)

Enter(t) ==
  /\ Goes(t, "out", IF t \in Listeners /\ ~registered THEN "reg" ELSE "drain")
  /\ UNCHANGED <<shared, mpc, gen, looping, unwired, got, noticed, unrung>>

RegMutexFree == \A u \in Threads : tpc[u] \notin AddPcs

Registered(t) ==
  /\ RegMutexFree /\ registered /\ Goes(t, "reg", "drain")
  /\ UNCHANGED <<shared, mpc, gen, looping, unwired, got, noticed, unrung>>

(* registry_add: the slot's state is stored, the high-water mark widened,   *)
(* the generation bumped; no ring for a doorbell slot.                      *)
PublishBell(t) ==
  /\ RegMutexFree /\ ~registered /\ Goes(t, "reg", "widen")
  /\ bell_slot' = "published"
  /\ UNCHANGED <<generation, registered, bell, last, gc, mpc, gen, looping, unwired, got, noticed, unrung>>

WidenBell(t) ==
  /\ Goes(t, "widen", "reg_bump")
  /\ bell_slot' = "widened"
  /\ UNCHANGED <<generation, registered, bell, last, gc, mpc, gen, looping, unwired, got, noticed, unrung>>

BumpBell(t) ==
  /\ Goes(t, "reg_bump", "drain")
  /\ generation' = generation + 1
  /\ registered' = TRUE
  /\ unrung' = FALSE
  /\ UNCHANGED <<bell_slot, bell, last, gc, mpc, gen, looping, unwired, got, noticed>>

(* The registry is full: this wait blocks for 200 ms at most.               *)
RegistryFull(t) ==
  /\ MayBeFull /\ RegMutexFree /\ ~registered /\ Goes(t, "reg", "drain")
  /\ unwired' = [unwired EXCEPT ![t] = TRUE]
  /\ UNCHANGED <<shared, mpc, gen, looping, got, noticed, unrung>>

-----------------------------------------------------------------------------
(* run_generation_check: drain, load, compare, store, trigger.  The loaded  *)
(* generation is forgotten (0) after its last use.                          *)

DrainBell(t) ==
  /\ Goes(t, "drain", "load")
  /\ bell' = 0
  /\ UNCHANGED <<generation, bell_slot, registered, last, gc, mpc, gen, looping, unwired, got, noticed, unrung>>

LoadGeneration(t) ==
  /\ Goes(t, "load", "compare")
  /\ gen' = [gen EXCEPT ![t] = generation]
  /\ UNCHANGED <<shared, mpc, looping, unwired, got, noticed, unrung>>

(* Before blocking the wait goes on to the ready check; in the loop it ends *)
(* on progress or when degraded, and blocks again otherwise.                *)
AfterCheck(t) ==
  IF ~looping[t] THEN "ready" ELSE IF got[t] \/ unwired[t] THEN "output" ELSE "block"

(* Mutant of CompareLast: the doorbell is drained after the load.           *)
CompareLastDrains(t) ==
  /\ Goes(t, "compare", IF gen[t] # last THEN "store" ELSE AfterCheck(t))
  /\ bell' = 0
  /\ UNCHANGED <<generation, bell_slot, registered, last, gc, mpc, gen, looping, unwired, got, noticed, unrung>>

CompareLast(t) ==
  /\ Goes(t, "compare", IF gen[t] # last THEN "store" ELSE AfterCheck(t))
  /\ gen' = IF gen[t] # last THEN gen ELSE [gen EXCEPT ![t] = 0]
  /\ UNCHANGED <<shared, mpc, looping, unwired, got, noticed, unrung>>

StoreLast(t) ==
  /\ Goes(t, "store", "trigger")
  /\ last' = gen[t]
  /\ gen' = [gen EXCEPT ![t] = 0]
  /\ UNCHANGED <<generation, bell_slot, registered, bell, gc, mpc, looping, unwired, got, noticed, unrung>>

(* Every node's graph guard condition, under graph_gcs_mutex.               *)
TriggerGraphGcs(t) ==
  /\ Goes(t, "trigger", AfterCheck(t))
  /\ gc' = [u \in Listeners |-> TRUE]
  /\ UNCHANGED <<generation, bell_slot, registered, bell, last, mpc, gen, looping, unwired, got, noticed, unrung>>

-----------------------------------------------------------------------------
(* The ready check consumes the eventfd; what it read is reported later.    *)
Triggered(t) == t \in Listeners /\ gc[t]
Consume(t)   == gc' = [u \in Listeners |-> gc[u] /\ u # t]

CheckReady(t) ==
  /\ Goes(t, "ready", IF Triggered(t) THEN "poll" ELSE "block")
  /\ got' = [got EXCEPT ![t] = Triggered(t)]
  /\ Consume(t)
  /\ UNCHANGED <<generation, bell_slot, registered, bell, last, mpc, gen, looping, unwired, noticed, unrung>>

(* A trigger found by the ready check: one pass over epoll that does not    *)
(* block (poll_only), after which the wait ends.                            *)
PollOnly(t) ==
  /\ Goes(t, "poll", IF bell > 0 THEN "drain" ELSE "output")
  /\ looping' = [looping EXCEPT ![t] = TRUE]
  /\ Consume(t)
  /\ UNCHANGED <<generation, bell_slot, registered, bell, last, mpc, gen, unwired, got, noticed, unrung>>

(* Mutant of Wake: a guard condition's event does not end the loop.         *)
WakeWithoutProgress(t) ==
  /\ Triggered(t) \/ bell > 0
  /\ Goes(t, "block", "drain")
  /\ looping' = [looping EXCEPT ![t] = TRUE]
  /\ UNCHANGED <<shared, mpc, gen, unwired, got, noticed, unrung>>

(* epoll_wait returns the descriptors that are readable: the guard          *)
(* condition, the doorbell or both.                                         *)
Wake(t) ==
  /\ Triggered(t) \/ bell > 0
  /\ Goes(t, "block", IF bell > 0 THEN "drain" ELSE "output")
  /\ got' = [got EXCEPT ![t] = Triggered(t)]
  /\ looping' = [looping EXCEPT ![t] = TRUE]
  /\ Consume(t)
  /\ UNCHANGED <<generation, bell_slot, registered, bell, last, mpc, gen, unwired, noticed, unrung>>

(* The caller's deadline, or the bound of a degraded wait passes.           *)
Elapse(t) ==
  /\ t \in Timed \/ (unwired[t] /\ ~Triggered(t) /\ bell = 0)
  /\ Goes(t, "block", "output")
  /\ UNCHANGED <<shared, mpc, gen, looping, unwired, got, noticed, unrung>>

(* The output pass reads the eventfd once more and reports.  A listener     *)
(* that is told its guard condition fired looks at the graph again.  The    *)
(* locals of the call end with it.                                          *)
Output(t) ==
  /\ Goes(t, "output", "out")
  /\ noticed' = [u \in Listeners |->
                   IF u = t /\ (got[t] \/ gc[t]) THEN generation ELSE noticed[u]]
  /\ looping' = [looping EXCEPT ![t] = FALSE]
  /\ unwired' = [unwired EXCEPT ![t] = FALSE]
  /\ got' = [got EXCEPT ![t] = FALSE]
  /\ Consume(t)
  /\ UNCHANGED <<generation, bell_slot, registered, bell, last, mpc, gen, unrung>>

WaitStep(t) ==
  \/ Registered(t) \/ PublishBell(t) \/ WidenBell(t) \/ BumpBell(t) \/ RegistryFull(t)
  \/ DrainBell(t) \/ LoadGeneration(t) \/ CompareLast(t) \/ StoreLast(t)
  \/ TriggerGraphGcs(t) \/ CheckReady(t) \/ PollOnly(t) \/ Wake(t) \/ Elapse(t) \/ Output(t)

BellNext ==
  \/ \E m \in Mutators : Bump(m) \/ Ring(m) \/ MutatorDies(m)
  \/ \E t \in Threads : Enter(t) \/ WaitStep(t)

BellSpec == BellInit /\ [][BellNext]_bellVars

-----------------------------------------------------------------------------
(* Properties.                                                              *)

(* Every variable has its type.                                             *)
BellTypeOK ==
  /\ generation \in Nat /\ bell_slot \in {"none", "published", "widened"}
  /\ registered \in BOOLEAN /\ bell \in 0 .. BellCap /\ last \in Nat
  /\ gc \in [Listeners -> BOOLEAN] /\ mpc \in [Mutators -> {"idle", "ring", "dead"}]
  /\ tpc \in [Threads -> Pcs] /\ gen \in [Threads -> Nat]
  /\ looping \in [Threads -> BOOLEAN] /\ unwired \in [Threads -> BOOLEAN]
  /\ got \in [Threads -> BOOLEAN] /\ noticed \in [Listeners -> Nat]
  /\ unrung \in BOOLEAN

(* A wake-up of every blocked thread is on its way: a mutator has still to  *)
(* ring, an octet is queued, or a thread that drained one has still to act  *)
(* on the generation it reads.                                              *)
RingDue  == \E m \in Mutators : mpc[m] = "ring"
CheckDue == \E t \in Threads :
              \/ tpc[t] = "load"
              \/ tpc[t] = "compare" /\ gen[t] = generation /\ last # generation
              \/ tpc[t] = "store" /\ gen[t] = generation
WakeDue  == RingDue \/ bell > 0 \/ CheckDue

(* The listener's guard condition has fired, or is about to.                *)
Pending(l) == gc[l] \/ got[l] \/ \E t \in Threads : tpc[t] = "trigger"

(* "No lost wakeup": a listener that blocks without a bound while the graph *)
(* has changed since it was last woken has a wake-up on its way, whatever   *)
(* the order of bumps, rings, drains, registrations and of the other        *)
(* threads' checks on the shared doorbell and last_registry_generation.     *)
(* The exception is a mutator that died between its bump and its ring: the  *)
(* listener sleeps until the next change, and that one wakes it.            *)
NoLostWakeup ==
  \A l \in Listeners :
    (tpc[l] = "block" /\ ~unwired[l] /\ noticed[l] # generation /\ ~unrung)
      => Pending(l) \/ WakeDue

(* Each thread and mutator that has begun goes on, and a listener's owner   *)
(* (rclcpp's GraphListener) calls rmw_wait again and again.                 *)
BellFairSpec ==
  /\ BellSpec
  /\ \A m \in Mutators : WF_bellVars(Ring(m))
  /\ \A t \in Threads : WF_bellVars(Enter(t)) /\ WF_bellVars(WaitStep(t))

(* A listener that is behind the graph catches up with it in the end (the   *)
(* changes are finitely many, MaxMutations), unless the mutator of the last *)
(* change died before its ring.                                             *)
GraphChangeNoticed ==
  \A l \in Listeners : (noticed[l] # generation) ~> (noticed[l] = generation \/ unrung)

=============================================================================
