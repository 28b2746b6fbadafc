----------------------------- MODULE LongTermLock -----------------------------
(***************************************************************************)
(* Long-term znode locks (src/lock.c, src/lock.h).                         *)
(*                                                                         *)
(* Every znode has a zlock; every thread has a lock stack with a current   *)
(* priority.  A thread that cannot get a lock queues a request and sleeps. *)
(* When a high priority request is queued on a node that only low priority *)
(* threads own, the owners are signaled: they wake up, their pending       *)
(* request fails with E_DEADLOCK, and the caller gives its locks back.     *)
(*                                                                         *)
(* A step is one critical section under a node's zlock spin lock, or one   *)
(* access made without it.  The dispatch loop of longterm_unlock_znode is  *)
(* split, with the spin lock ("guard") kept over its iterations, because   *)
(* the sleepers it wakes read request.mode without the spin lock.          *)
(***************************************************************************)
EXTENDS Integers, Sequences, FiniteSets

CONSTANTS
  Threads,   \* the threads, each with one lock stack
  Nodes,     \* znodes, numbered bottom to top and left to right
  Slots      \* the lock handles a thread has at its disposal

ASSUME NodesAssumption == Nodes \subseteq Nat \ {0}
ASSUME FinitenessAssumption ==
  IsFiniteSet(Threads) /\ IsFiniteSet(Nodes) /\ IsFiniteSet(Slots)

NoNode == 0
NoHandle == "none"

ZNODE_NO_LOCK == "none"
ZNODE_READ_LOCK == "read"
ZNODE_WRITE_LOCK == "write"
Modes == {ZNODE_READ_LOCK, ZNODE_WRITE_LOCK}

(* Return codes: 0, -EINVAL, -E_REPEAT; a failed capture returns its own.  *)
OK == "ok"
EINVAL == "EINVAL"
E_REPEAT == "E_REPEAT"

VARIABLES
  zlock,     \* per node: struct zlock and the znode bits the locks look at
  lh,        \* per thread and slot: struct lock_handle
  stack,     \* per thread: curpri, nr_signaled, wakeup of struct lock_stack
  request,   \* per thread: the call's arguments and struct lock_request
  work,      \* per thread: what is left of the loop the thread is in
  pc

vars == <<zlock, lh, stack, request, work, pc>>

ZLocks ==
  [guard : BOOLEAN, nr_readers : Int, nr_hipri_owners : Int,
   nr_hipri_requests : Int, nr_hipri_write_requests : Int,
   requestors : Seq(Threads), is_dying : BOOLEAN, heard_banshee : BOOLEAN]

Handles == [node : Nodes \cup {NoNode}, signaled : BOOLEAN]

Stacks == [curpri : BOOLEAN, nr_signaled : Int, wakeup : BOOLEAN]

Requests ==
  [handle : Slots \cup {NoHandle}, node : Nodes \cup {NoNode}, mode : Modes \cup {ZNODE_NO_LOCK},
   hipri : BOOLEAN, nonblock : BOOLEAN, ret_code : {OK, EINVAL}]

Works ==
  [todo : SUBSET Slots, rest : Seq(Threads), node : Nodes \cup {NoNode},
   back : {"idle", "yield"}]

PCs == {"idle", "setpri", "tryfast", "fastcapture", "lock", "capture", "sleep",
        "woken", "check", "recheck", "dispatch", "granted", "yield"}

(* What is in request and work between two calls.                          *)
NoRequest ==
  [handle |-> NoHandle, node |-> NoNode, mode |-> ZNODE_NO_LOCK,
   hipri |-> FALSE, nonblock |-> FALSE, ret_code |-> OK]
NoWork == [todo |-> {}, rest |-> <<>>, node |-> NoNode, back |-> "idle"]

reiser4_init_lock ==
  [guard |-> FALSE, nr_readers |-> 0, nr_hipri_owners |-> 0,
   nr_hipri_requests |-> 0, nr_hipri_write_requests |-> 0,
   requestors |-> <<>>, is_dying |-> FALSE, heard_banshee |-> FALSE]

init_lock_stack == [curpri |-> TRUE, nr_signaled |-> 0, wakeup |-> FALSE]

init_lh == [node |-> NoNode, signaled |-> FALSE]

Init ==
  /\ zlock = [n \in Nodes |-> reiser4_init_lock]
  /\ lh = [t \in Threads |-> [s \in Slots |-> init_lh]]
  /\ stack = [t \in Threads |-> init_lock_stack]
  /\ request = [t \in Threads |-> NoRequest]
  /\ work = [t \in Threads |-> NoWork]
  /\ pc = [t \in Threads |-> "idle"]

-----------------------------------------------------------------------------
(* Reading the lock state.                                                 *)

HeldSlots(t) == {s \in Slots : lh[t][s].node # NoNode}
Held(t) == {lh[t][s].node : s \in HeldSlots(t)}
SlotsOn(t, n) == {s \in Slots : lh[t][s].node = n}
Owners(n) == {t \in Threads : SlotsOn(t, n) # {}}

znode_is_wlocked(z) == z.nr_readers < 0
znode_is_wlocked_once(z) == z.nr_readers = -1

lock_mode_compatible(z, mode) ==
  \/ mode = ZNODE_WRITE_LOCK /\ z.nr_readers = 0
  \/ mode = ZNODE_READ_LOCK /\ z.nr_readers >= 0

check_deadlock_condition(z) == z.nr_hipri_requests > 0 /\ z.nr_hipri_owners = 0

no_livelock_condition(z, mode) == FALSE   \* mutant: readers overtake writers
check_livelock_condition(z, mode) ==
  mode = ZNODE_READ_LOCK /\ z.nr_readers >= 0 /\ z.nr_hipri_write_requests > 0

can_lock_dying_object(t, z) ==   \* mutant: JNODE_IS_DYING is not looked at
  IF \/ ~stack[t].curpri /\ check_deadlock_condition(z)
     \/ ~lock_mode_compatible(z, request[t].mode)
  THEN E_REPEAT
  ELSE OK
can_lock_object(t, z) ==
  IF z.is_dying THEN EINVAL
  ELSE IF \/ ~stack[t].curpri /\ check_deadlock_condition(z)
          \/ stack[t].curpri /\ check_livelock_condition(z, request[t].mode)
          \/ ~lock_mode_compatible(z, request[t].mode)
       THEN E_REPEAT
       ELSE OK

(* A node locked by the thread itself: mixing of read and write locks is   *)
(* the caller's error, so the lock is a write lock.                        *)
recursive_for_all(t) ==   \* mutant: any owner will do
  request[t].mode = ZNODE_WRITE_LOCK /\ Owners(request[t].node) # {}
recursive(t) == request[t].mode = ZNODE_WRITE_LOCK /\ SlotsOn(t, request[t].node) # {}

-----------------------------------------------------------------------------
(* Updates of one zlock, of the handles and of the lock stacks.            *)

lock_object(t, z) ==
  [z EXCEPT !.nr_readers = IF request[t].mode = ZNODE_READ_LOCK THEN @ + 1 ELSE @ - 1,
            !.nr_hipri_owners = IF stack[t].curpri THEN @ + 1 ELSE @]

link_object(t, n) == [lh EXCEPT ![t][request[t].handle] = [node |-> n, signaled |-> FALSE]]

remove_lock_request(t, z) ==
  [z EXCEPT !.requestors = SelectSeq(@, LAMBDA u : u # t),
            !.nr_hipri_requests = IF stack[t].curpri THEN @ - 1 ELSE @,
            !.nr_hipri_write_requests =
               IF stack[t].curpri /\ request[t].mode = ZNODE_WRITE_LOCK THEN @ - 1 ELSE @]

no_wake_up(st, t) == st   \* mutant: the sleeper is not woken
reiser4_wake_up(st, t) == [st EXCEPT ![t].wakeup = TRUE]

(* The handles of t that wake_up_all_lopri_owners finds not yet signaled.  *)
Unsignaled(h, t, n) == {s \in Slots : h[t][s].node = n /\ ~h[t][s].signaled}

(* wake_up_all_lopri_owners, in two parts: h and st are lh and stack.      *)
SignalHandles(h, n) ==
  [t \in Threads |-> [s \in Slots |->
     IF h[t][s].node = n THEN [h[t][s] EXCEPT !.signaled = TRUE] ELSE h[t][s]]]
SignalStacks(h, st, n) ==
  [t \in Threads |->
     [st[t] EXCEPT !.nr_signaled = @ + Cardinality(Unsignaled(h, t, n)),
                   !.wakeup = @ \/ Unsignaled(h, t, n) # {}]]

-----------------------------------------------------------------------------
(* longterm_lock_znode                                                     *)

Return(t, to) ==
  /\ request' = [request EXCEPT ![t] = NoRequest]
  /\ work' = [work EXCEPT ![t] = NoWork]
  /\ pc' = [pc EXCEPT ![t] = to]

(* The order of lock.c's opening comment, which callers keep when they may *)
(* have to wait: low priority goes down and left, high priority up and     *)
(* right.  A node may be write locked again, or tried without waiting.     *)
CallerKeepsOrder(t, n, mode, hipri, nonblock) ==
  IF n \in Held(t)
  THEN \/ mode = ZNODE_WRITE_LOCK /\ zlock[n].nr_readers < 0
       \/ mode = ZNODE_READ_LOCK /\ zlock[n].nr_readers > 0 /\ nonblock
  ELSE \/ nonblock
       \/ hipri /\ \A m \in Held(t) : m < n
       \/ ~hipri /\ \A m \in Held(t) : n < m

AfterPriority(r) ==
  IF r.mode = ZNODE_READ_LOCK /\ ~r.hipri /\ ~r.nonblock THEN "tryfast" ELSE "lock"

lock_with_all_handles(t, s, n, mode, hipri, nonblock) ==   \* mutant: free handles too
  /\ pc[t] = "idle" /\ s \notin HeldSlots(t) /\ hipri # stack[t].curpri
  /\ request' = [request EXCEPT ![t] =
       [handle |-> s, node |-> n, mode |-> mode, hipri |-> hipri,
        nonblock |-> nonblock, ret_code |-> OK]]
  /\ pc' = [pc EXCEPT ![t] = "setpri"]
  /\ work' = [work EXCEPT ![t].todo = Slots]
  /\ UNCHANGED <<zlock, lh, stack>>
longterm_lock_znode(t, s, n, mode, hipri, nonblock) ==
  LET r == [handle |-> s, node |-> n, mode |-> mode, hipri |-> hipri,
            nonblock |-> nonblock, ret_code |-> OK]
  IN /\ pc[t] = "idle"
     /\ s \notin HeldSlots(t)
     /\ CallerKeepsOrder(t, n, mode, hipri, nonblock)
     /\ request' = [request EXCEPT ![t] = r]
     /\ IF hipri = stack[t].curpri
        THEN /\ pc' = [pc EXCEPT ![t] = AfterPriority(r)]
             /\ UNCHANGED work
        ELSE /\ pc' = [pc EXCEPT ![t] = "setpri"]
             /\ work' = [work EXCEPT ![t].todo = HeldSlots(t)]
     /\ UNCHANGED <<zlock, lh, stack>>

(* One iteration of the loop of set_high_priority and of set_low_priority. *)
set_high_priority(t, s) ==
  LET n == lh[t][s].node IN
  /\ pc[t] = "setpri" /\ request[t].hipri /\ s \in work[t].todo /\ ~zlock[n].guard
  /\ zlock' = [zlock EXCEPT ![n].nr_hipri_owners = @ + 1]
  /\ lh' = [lh EXCEPT ![t][s].signaled = FALSE]
  /\ work' = [work EXCEPT ![t].todo = @ \ {s}]
  /\ UNCHANGED <<stack, request, pc>>

lowered_unnoticed(t, s, z) == FALSE   \* mutant: the condition is not checked
LoweredIsSignaled(t, s, z) == check_deadlock_condition(z) /\ ~lh[t][s].signaled

set_low_priority(t, s) ==
  LET n == lh[t][s].node
      z == [zlock[n] EXCEPT !.nr_hipri_owners = @ - 1]
      signal == LoweredIsSignaled(t, s, z)
  IN /\ pc[t] = "setpri" /\ ~request[t].hipri /\ s \in work[t].todo /\ ~zlock[n].guard
     /\ zlock' = [zlock EXCEPT ![n] = z]
     /\ lh' = [lh EXCEPT ![t][s].signaled = @ \/ signal]
     /\ stack' = [stack EXCEPT ![t].nr_signaled = IF signal THEN @ + 1 ELSE @]
     /\ work' = [work EXCEPT ![t].todo = @ \ {s}]
     /\ UNCHANGED <<request, pc>>

(* The end of both: curpri is stored, and a high priority thread forgets   *)
(* the signals it has got.                                                 *)
priority_is_set(t) ==
  /\ pc[t] = "setpri" /\ work[t].todo = {}
  /\ stack' = [stack EXCEPT ![t].curpri = request[t].hipri,
                            ![t].nr_signaled = IF request[t].hipri THEN 0 ELSE @]
  /\ pc' = [pc EXCEPT ![t] = AfterPriority(request[t])]
  /\ UNCHANGED <<zlock, lh, request, work>>

(* lock_tail(ok = 0), and lock_tail with an error code: z is the zlock     *)
(* that the thread leaves behind.                                          *)
TakeLock(t, z) ==
  /\ zlock' = [zlock EXCEPT ![request[t].node] = lock_object(t, z)]
  /\ lh' = link_object(t, request[t].node)
  /\ Return(t, "idle")
  /\ UNCHANGED stack

GiveUp(t, z, to) ==
  /\ zlock' = [zlock EXCEPT ![request[t].node] = z]
  /\ Return(t, to)
  /\ UNCHANGED <<lh, stack>>

longterm_lock_tryfast(t) ==
  LET z == zlock[request[t].node] IN
  /\ pc[t] = "tryfast" /\ ~z.guard
  /\ pc' = [pc EXCEPT ![t] = IF z.is_dying THEN "lock" ELSE "fastcapture"]
  /\ UNCHANGED <<zlock, lh, stack, request, work>>

(* reiser4_try_capture has returned, with or without an error.             *)
tryfast_captured(t) ==
  LET z == zlock[request[t].node]
      ret == can_lock_object(t, z)
  IN /\ pc[t] = "fastcapture" /\ ~z.guard
     /\ \/ GiveUp(t, z, "idle")
        \/ ret = EINVAL /\ GiveUp(t, z, "idle")
        \/ ret = OK /\ TakeLock(t, z)
        \/ /\ ret = E_REPEAT
           /\ pc' = [pc EXCEPT ![t] = "lock"]
           /\ UNCHANGED <<zlock, lh, stack, request, work>>

sleep_unprepared(t) == TRUE   \* mutant: signals are not looked at
reiser4_prepare_to_sleep(t) == stack[t].nr_signaled = 0

request_without_signal(t, z) == FALSE   \* mutant: the owners are not signaled
RequestSignalsOwners(t, z) == request[t].hipri /\ z.nr_hipri_owners = 0

QueueRequest(t, z) ==
  LET n == request[t].node
      hipri == request[t].hipri
      z1 == [z EXCEPT !.nr_hipri_requests = IF hipri THEN @ + 1 ELSE @,
                      !.nr_hipri_write_requests =
                         IF hipri /\ request[t].mode = ZNODE_WRITE_LOCK THEN @ + 1 ELSE @,
                      !.requestors = Append(@, t)]
      signal == RequestSignalsOwners(t, z)
  IN /\ zlock' = [zlock EXCEPT ![n] = z1]
     /\ lh' = IF signal THEN SignalHandles(lh, n) ELSE lh
     /\ stack' = IF signal THEN SignalStacks(lh, stack, n) ELSE stack
     /\ pc' = [pc EXCEPT ![t] = "sleep"]
     /\ UNCHANGED <<request, work>>

WaitForLock(t, z) ==
  \/ reiser4_prepare_to_sleep(t) /\ QueueRequest(t, z)
  \/ ~reiser4_prepare_to_sleep(t) /\ GiveUp(t, z, "yield")

(* What follows a can_lock_object that may end the call.                   *)
LockOrWait(t, z) ==
  LET ret == can_lock_object(t, z) IN
  \/ ret = EINVAL /\ GiveUp(t, z, "idle")
  \/ ret = E_REPEAT /\ request[t].nonblock /\ GiveUp(t, z, "idle")
  \/ ret = OK /\ TakeLock(t, z)
  \/ ret = E_REPEAT /\ ~request[t].nonblock /\ WaitForLock(t, z)

(* The body of the loop, entered with the zlock taken and worth z.  When   *)
(* node and thread are in different atoms the zlock is released for the    *)
(* time of the capture.                                                    *)
LoopBody(t, z) ==
  \/ LockOrWait(t, z)
  \/ /\ can_lock_object(t, z) # EINVAL
     /\ can_lock_object(t, z) = E_REPEAT => ~request[t].nonblock
     /\ zlock' = [zlock EXCEPT ![request[t].node] = z]
     /\ pc' = [pc EXCEPT ![t] = "capture"]
     /\ UNCHANGED <<lh, stack, request, work>>

enter_lock_loop(t) ==
  LET z == zlock[request[t].node] IN
  /\ pc[t] = "lock" /\ ~z.guard
  /\ IF recursive(t) THEN TakeLock(t, z) ELSE LoopBody(t, z)

(* The capture inside the loop has returned, with or without an error.     *)
lock_captured(t) ==
  LET z == zlock[request[t].node] IN
  /\ pc[t] = "capture" /\ ~z.guard
  /\ GiveUp(t, z, "idle") \/ LockOrWait(t, z)

(* reiser4_go_to_sleep: wait_event returns; then the flag is cleared.      *)
reiser4_go_to_sleep(t) ==
  /\ pc[t] = "sleep" /\ stack[t].wakeup
  /\ pc' = [pc EXCEPT ![t] = "woken"]
  /\ UNCHANGED <<zlock, lh, stack, request, work>>

clear_wakeup(t) ==
  /\ pc[t] = "woken"
  /\ stack' = [stack EXCEPT ![t].wakeup = FALSE]
  /\ pc' = [pc EXCEPT ![t] = "check"]
  /\ UNCHANGED <<zlock, lh, request, work>>

(* request.mode is read without the zlock, and if need be again with it.   *)
check_request(t) ==
  /\ pc[t] = "check"
  /\ IF request[t].mode = ZNODE_NO_LOCK
     THEN Return(t, "idle")
     ELSE pc' = [pc EXCEPT ![t] = "recheck"] /\ UNCHANGED <<request, work>>
  /\ UNCHANGED <<zlock, lh, stack>>

recheck_request(t) ==
  LET z == zlock[request[t].node] IN
  /\ pc[t] = "recheck" /\ ~z.guard
  /\ IF request[t].mode = ZNODE_NO_LOCK
     THEN Return(t, "idle") /\ UNCHANGED <<zlock, lh, stack>>
     ELSE LoopBody(t, remove_lock_request(t, z))

-----------------------------------------------------------------------------
(* longterm_unlock_znode, reiser4_invalidate_lock, move_lh and copy_lh     *)

(* The handle goes away together with the signal it carried.               *)
unlink_object(t, s) == [lh EXCEPT ![t][s] = init_lh]
KeepSignal(t, s) == stack   \* mutant: nr_signaled is not decremented
ForgetSignal(t, s) ==
  [stack EXCEPT ![t].nr_signaled = IF lh[t][s].signaled THEN @ - 1 ELSE @]

(* z as invalidate_all_lock_requests leaves it.                            *)
LeaveQueue(z) ==   \* mutant: the requests are not unlinked
  [z EXCEPT !.nr_hipri_requests = 0, !.nr_hipri_write_requests = 0]
NoRequests(z) ==
  LET waiting == {z.requestors[i] : i \in DOMAIN z.requestors}
      hipri == {u \in waiting : stack[u].curpri}
  IN [z EXCEPT !.requestors = <<>>,
               !.nr_hipri_requests = @ - Cardinality(hipri),
               !.nr_hipri_write_requests =
                  @ - Cardinality({u \in hipri : request[u].mode = ZNODE_WRITE_LOCK})]

Dying(z) == [z EXCEPT !.is_dying = TRUE, !.nr_readers = 0]

reiser4_invalidate_lock(t, s, z) ==
  LET n == lh[t][s].node
      waiting == {z.requestors[i] : i \in DOMAIN z.requestors}
  IN /\ zlock' = [zlock EXCEPT ![n] = NoRequests(Dying(z))]
     /\ lh' = unlink_object(t, s)
     /\ stack' = [u \in Threads |->
                     IF u \in waiting THEN reiser4_wake_up(stack, u)[u]
                     ELSE ForgetSignal(t, s)[u]]
     /\ request' = [u \in Threads |->
                     IF u \in waiting
                     THEN [request[u] EXCEPT !.ret_code = EINVAL, !.mode = ZNODE_NO_LOCK]
                     ELSE request[u]]
     /\ UNCHANGED <<work, pc>>

longterm_unlock_znode(t, s) ==
  LET n == lh[t][s].node
      z == [zlock[n] EXCEPT !.nr_hipri_owners = IF stack[t].curpri THEN @ - 1 ELSE @]
      z1 == [z EXCEPT !.nr_readers = IF @ > 0 THEN @ - 1 ELSE @ + 1]
      signal == check_deadlock_condition(z1)
      h1 == unlink_object(t, s)
      st1 == ForgetSignal(t, s)
  IN /\ pc[t] \in {"idle", "yield"} /\ s \in HeldSlots(t) /\ ~zlock[n].guard
     /\ IF znode_is_wlocked_once(z) /\ z.heard_banshee
        THEN reiser4_invalidate_lock(t, s, z)
        ELSE IF znode_is_wlocked(z1)
        THEN /\ zlock' = [zlock EXCEPT ![n] = z1]
             /\ lh' = IF signal THEN SignalHandles(h1, n) ELSE h1
             /\ stack' = IF signal THEN SignalStacks(h1, st1, n) ELSE st1
             /\ UNCHANGED <<request, work, pc>>
        ELSE /\ zlock' = [zlock EXCEPT ![n] = [z1 EXCEPT !.guard = TRUE]]
             /\ lh' = h1
             /\ stack' = st1
             /\ work' = [work EXCEPT ![t] = [todo |-> {}, rest |-> z1.requestors,
                                             node |-> n, back |-> pc[t]]]
             /\ pc' = [pc EXCEPT ![t] = "dispatch"]
             /\ UNCHANGED request

(* One iteration of dispatch_lock_requests.  The break of its loop tests   *)
(* for a write lock of the unlocking thread, which has none here.          *)
dispatch_lock_requests(t) ==
  LET n == work[t].node
      u == Head(work[t].rest)
  IN /\ pc[t] = "dispatch" /\ work[t].rest # <<>>
     /\ IF can_lock_object(u, zlock[n]) = OK
        THEN /\ zlock' = [zlock EXCEPT ![n] = remove_lock_request(u, lock_object(u, zlock[n]))]
             /\ lh' = link_object(u, n)
             /\ stack' = reiser4_wake_up(stack, u)
             /\ request' = [request EXCEPT ![u].ret_code = OK]
             /\ pc' = [pc EXCEPT ![t] = "granted"]
             /\ UNCHANGED work
        ELSE /\ work' = [work EXCEPT ![t].rest = Tail(@)]
             /\ UNCHANGED <<zlock, lh, stack, request, pc>>

(* request.mode is set last, when the requestor may already be awake.      *)
request_is_granted(t) ==
  /\ pc[t] = "granted"
  /\ request' = [request EXCEPT ![Head(work[t].rest)].mode = ZNODE_NO_LOCK]
  /\ work' = [work EXCEPT ![t].rest = Tail(@)]
  /\ pc' = [pc EXCEPT ![t] = "dispatch"]
  /\ UNCHANGED <<zlock, lh, stack>>

unlock_done(t) ==
  LET n == work[t].node
      signal == check_deadlock_condition(zlock[n])
  IN /\ pc[t] = "dispatch" /\ work[t].rest = <<>>
     /\ zlock' = [zlock EXCEPT ![n].guard = FALSE]
     /\ lh' = IF signal THEN SignalHandles(lh, n) ELSE lh
     /\ stack' = IF signal THEN SignalStacks(lh, stack, n) ELSE stack
     /\ work' = [work EXCEPT ![t] = NoWork]
     /\ pc' = [pc EXCEPT ![t] = work[t].back]
     /\ UNCHANGED request

(* move_lh (unlink_old) and copy_lh.                                       *)
copied_unprioritized(t) == 0   \* mutant: the copy is not counted
CopiedHipri(t) == IF stack[t].curpri THEN 1 ELSE 0

move_lh_internal(t, new, old, unlink_old) ==
  LET n == lh[t][old].node
      linked == [lh EXCEPT ![t][new] = lh[t][old]]
  IN /\ pc[t] = "idle" /\ old \in HeldSlots(t) /\ new \notin HeldSlots(t)
     /\ ~zlock[n].guard
     /\ IF unlink_old
        THEN lh' = [linked EXCEPT ![t][old] = init_lh] /\ UNCHANGED <<zlock, stack>>
        ELSE /\ lh' = linked
             /\ zlock' = [zlock EXCEPT
                  ![n].nr_readers = IF @ > 0 THEN @ + 1 ELSE @ - 1,
                  ![n].nr_hipri_owners = @ + CopiedHipri(t)]
             /\ stack' = [stack EXCEPT
                  ![t].nr_signaled = IF lh[t][old].signaled THEN @ + 1 ELSE @]
     /\ UNCHANGED <<request, work, pc>>

(* The balancing code empties a node it has write locked: the node dies    *)
(* when the lock is released.                                              *)
node_heard_banshee(t, n) ==
  /\ pc[t] = "idle" /\ n \in Held(t) /\ znode_is_wlocked(zlock[n])
  /\ ~zlock[n].heard_banshee
  /\ zlock' = [zlock EXCEPT ![n].heard_banshee = TRUE]
  /\ UNCHANGED <<lh, stack, request, work, pc>>

(* After E_DEADLOCK the caller unlocks until reiser4_check_deadlock fails. *)
reiser4_check_deadlock(t) == stack[t].nr_signaled # 0

yield_done(t) ==
  /\ pc[t] = "yield" /\ ~reiser4_check_deadlock(t)
  /\ pc' = [pc EXCEPT ![t] = "idle"]
  /\ UNCHANGED <<zlock, lh, stack, request, work>>

-----------------------------------------------------------------------------
Lock(t) ==
  \E s \in Slots, n \in Nodes, mode \in Modes, hipri, nonblock \in BOOLEAN :
    longterm_lock_znode(t, s, n, mode, hipri, nonblock)

SetPriority(t) ==
  \/ \E s \in Slots : set_high_priority(t, s) \/ set_low_priority(t, s)
  \/ priority_is_set(t)

(* The steps of a lock call that is under way, and of an unlock.           *)
Continue(t) ==
  \/ SetPriority(t)
  \/ longterm_lock_tryfast(t) \/ tryfast_captured(t)
  \/ enter_lock_loop(t) \/ lock_captured(t)
  \/ reiser4_go_to_sleep(t) \/ clear_wakeup(t)
  \/ check_request(t) \/ recheck_request(t)
  \/ dispatch_lock_requests(t) \/ request_is_granted(t) \/ unlock_done(t)
  \/ yield_done(t)

Unlock(t) == \E s \in Slots : longterm_unlock_znode(t, s)

Other(t) ==
  \/ \E new, old \in Slots, b \in BOOLEAN : move_lh_internal(t, new, old, b)
  \/ \E n \in Nodes : node_heard_banshee(t, n)

Next == \E t \in Threads : Lock(t) \/ Continue(t) \/ Unlock(t) \/ Other(t)

Spec == Init /\ [][Next]_vars

(* A thread inside a call goes on, and spin locks are granted in turn;     *)
(* callers release every lock in the end.                                  *)
Fairness == \A t \in Threads : SF_vars(Continue(t)) /\ SF_vars(Unlock(t))

-----------------------------------------------------------------------------
(* Properties                                                              *)

InCall == {"setpri", "tryfast", "fastcapture", "lock", "capture", "sleep", "woken",
           "check", "recheck"}

(* The variables have their types; inside a call there is a request with   *)
(* a handle for it, set_high_priority and set_low_priority only meet       *)
(* handles that are in use, and a dispatching thread has a node and, for   *)
(* the request it grants, a requestor.                                     *)
TypeOK ==
  /\ zlock \in [Nodes -> ZLocks]
  /\ lh \in [Threads -> [Slots -> Handles]]
  /\ stack \in [Threads -> Stacks]
  /\ request \in [Threads -> Requests]
  /\ work \in [Threads -> Works]
  /\ pc \in [Threads -> PCs]
  /\ \A t \in Threads :
       /\ pc[t] \in InCall => request[t].node \in Nodes /\ request[t].handle \in Slots
       /\ pc[t] = "setpri" => work[t].todo \subseteq HeldSlots(t)
       /\ pc[t] \in {"dispatch", "granted"} => work[t].node \in Nodes
       /\ pc[t] = "granted" => work[t].rest # <<>>

(* The handles on a node, as pairs of a thread and a slot.                 *)
HandlesOn(n) == {p \in Threads \X Slots : lh[p[1]][p[2]].node = n}

(* The thread is between the two ends of set_high_priority or of           *)
(* set_low_priority.                                                       *)
ChangesPriority(t) == pc[t] = "setpri"

(* A handle counts as a high priority owner if its thread has high         *)
(* priority; while the thread changes priority, if the loop over its       *)
(* handles says so.                                                        *)
CountedHipri(p) ==
  IF ChangesPriority(p[1])
  THEN (p[2] \in work[p[1]].todo) # request[p[1]].hipri
  ELSE stack[p[1]].curpri

Queue(n) == {zlock[n].requestors[i] : i \in DOMAIN zlock[n].requestors}

(* A write lock excludes every other thread, and nr_readers is the number  *)
(* of handles on the node, negative for a write lock: whatever order       *)
(* locks, unlocks, copies and hand-overs by dispatch_lock_requests and     *)
(* invalidation happen in (lock.c:322-330, 412, 654).                      *)
WriteLockExcludes ==
  \A n \in Nodes :
    /\ zlock[n].nr_readers \in {Cardinality(HandlesOn(n)), -Cardinality(HandlesOn(n))}
    /\ zlock[n].nr_readers < 0 => Cardinality(Owners(n)) = 1

(* The counters that the deadlock condition is computed from are right at  *)
(* every moment, also while an owner is half way through changing its      *)
(* priority, and although a request is queued by one thread and removed    *)
(* by another (lock.c:334, 489, 523, 547-552, 634, 954, 1069).             *)
HipriCountersExact ==
  \A n \in Nodes :
    /\ zlock[n].nr_hipri_owners = Cardinality({p \in HandlesOn(n) : CountedHipri(p)})
    /\ zlock[n].nr_hipri_requests = Cardinality({t \in Queue(n) : stack[t].curpri})
    /\ zlock[n].nr_hipri_write_requests =
         Cardinality({t \in Queue(n) : stack[t].curpri
                                       /\ request[t].mode = ZNODE_WRITE_LOCK})

(* nr_signaled is the number of signaled handles of the stack, so that a   *)
(* thread which has released every node it was asked for is not told       *)
(* E_DEADLOCK again, and one which has not is; set_high_priority clears    *)
(* the handles first and the counter last (lock.c:251, 501, 532, 646).  A  *)
(* thread of high priority is never signaled (zam-959, lock.c:1108).       *)
SignalsCounted ==
  \A t \in Threads :
    LET signaled == {s \in HeldSlots(t) : lh[t][s].signaled} IN
    IF ChangesPriority(t) /\ request[t].hipri
    THEN stack[t].nr_signaled >= Cardinality(signaled)
    ELSE /\ stack[t].nr_signaled = Cardinality(signaled)
         /\ stack[t].curpri /\ ~ChangesPriority(t) => stack[t].nr_signaled = 0

(* A thread is on the queue of the node it sleeps for, once, until its     *)
(* request is granted or cancelled, and on no other queue: a wakeup that   *)
(* crosses the granting of the request never removes it twice              *)
(* (lock.c:582-586, 970-982).                                              *)
QueuedWhileWaiting ==
  \A t \in Threads, n \in Nodes :
    LET places == {i \in DOMAIN zlock[n].requestors : zlock[n].requestors[i] = t}
        granting == \E u \in Threads : pc[u] = "granted" /\ Head(work[u].rest) = t
        waits == /\ pc[t] \in {"sleep", "woken", "check", "recheck"}
                 /\ request[t].node = n
                 /\ request[t].mode # ZNODE_NO_LOCK
                 /\ ~granting
    IN Cardinality(places) = IF waits THEN 1 ELSE 0

(* No wakeup is lost: a thread whose request is over has its wakeup flag   *)
(* set, or is past looking at the flag, although the flag is cleared       *)
(* after wait_event without any lock (lock.c:1127-1128).                   *)
NoLostWakeup ==
  \A t \in Threads :
    pc[t] = "sleep" /\ request[t].mode = ZNODE_NO_LOCK => stack[t].wakeup

(* "the moment when node becomes 'has wrong owners'" (lock.c:103) is never *)
(* lost: a locked node with high priority requests and no high priority    *)
(* owner always has an owner that has been signaled.                       *)
WrongOwnersAreSignaled ==
  \A n \in Nodes :
    ~zlock[n].guard /\ check_deadlock_condition(zlock[n]) /\ HandlesOn(n) # {}
      => \E p \in HandlesOn(n) : lh[p[1]][p[2]].signaled

(* A thread that has been signaled is not asleep: reiser4_prepare_to_sleep *)
(* refuses, and a later signal wakes it (lock.c:96, 1107).                 *)
SignaledDoNotSleep ==
  \A t \in Threads :
    pc[t] = "sleep" /\ ~stack[t].wakeup => stack[t].nr_signaled = 0

Asleep(t) == pc[t] = "sleep" /\ ~stack[t].wakeup

(* Whom a sleeper waits for: the owners of the node, the thread that is    *)
(* about to hand it over, and the requestors that the deadlock and         *)
(* livelock conditions put before it.                                      *)
WaitsFor(t) ==
  LET n == request[t].node
      z == zlock[n]
      before ==
        IF stack[t].curpri
        THEN IF check_livelock_condition(z, request[t].mode)
             THEN {u \in Queue(n) : stack[u].curpri /\ request[u].mode = ZNODE_WRITE_LOCK}
             ELSE {}
        ELSE IF check_deadlock_condition(z) THEN {u \in Queue(n) : stack[u].curpri} ELSE {}
      handing == {u \in Threads : pc[u] \in {"dispatch", "granted"} /\ work[u].node = n}
  IN (Owners(n) \cup handing \cup before) \ {t}

(* Deadlock freedom, the point of the two priorities (lock.c:41-98): there *)
(* are never threads that all sleep and wait only for one another, or for  *)
(* nobody, as long as callers keep the two lock orders.                    *)
NoDeadlock ==
  ~ \E S \in SUBSET Threads \ {{}} :
      \A t \in S : Asleep(t) /\ WaitsFor(t) \subseteq S

(* No thread waits for a node that has died: its queue is emptied once     *)
(* and nobody joins it afterwards (lock.c:451, 1009-1013).                 *)
DeadNodesAreAbandoned ==
  \A n \in Nodes : zlock[n].is_dying => HandlesOn(n) = {} /\ Queue(n) = {}

(* High priority writers do not starve: whatever readers and writers come  *)
(* and go, a sleeping high priority write request is answered, because     *)
(* later readers and low priority threads are held back (lock.c:435-461)   *)
(* and an unlock hands the node over (lock.c:571-589).                     *)
HipriWriterServed ==
  \A t \in Threads :
    pc[t] = "sleep" /\ request[t].hipri /\ request[t].mode = ZNODE_WRITE_LOCK
      ~> pc[t] = "idle"

(* Once threads stop making new lock calls, every sleeper is answered: no  *)
(* wakeup, hand-over or signal is lost (lock.c:571-589, 664-666, 945-982). *)
SleepersAnswered ==
  <>[][\A t \in Threads : pc[t] = "idle" => pc'[t] \in {"idle", "dispatch"}]_vars
    => \A t \in Threads : pc[t] = "sleep" ~> pc[t] \in {"idle", "yield"}
=============================================================================
