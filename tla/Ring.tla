-------------------------------- MODULE Ring --------------------------------
(***************************************************************************)
(* rx_ring and frame_ring: the two queues between the driver's receive     *)
(* thread, which pushes, and the main thread, which pops and clears.  Both *)
(* are circular buffers under a mutex and a condition variable, and both   *)
(* overwrite the oldest element when full; rx_ring pushes all the bytes of *)
(* one frame under one lock.                                               *)
(*                                                                         *)
(* Elements are stamps 1, 2, 3, ... in the order of arrival, so that order *)
(* and loss are visible.                                                   *)
(***************************************************************************)
EXTENDS Integers

CONSTANTS
  Size,    (* RX_RING_SIZE or FRAME_RING_SIZE                              *)
  Batch,   (* elements pushed under one lock: 1 for frame_ring             *)
  Arrivals (* bound: elements that ever arrive                             *)

ASSUME RingAssumption ==
  /\ Size \in Nat \ {0}
  /\ Batch \in Nat \ {0}
  /\ Arrivals \in Nat

VARIABLES
  data, head, tail, used,  (* the fields of the ring                       *)
  lock,      (* whether the receive thread holds the mutex                 *)
  left,      (* elements of its batch still to be pushed                   *)
  pc,        (* the main thread: "idle", or "waiting" in timedwait         *)
  signalled, (* the condition was broadcast since it began to wait         *)
  arrived,   (* history: the stamp of the last element pushed              *)
  got        (* history: the stamp of the last element popped              *)

ring == <<data, head, tail, used>>
vars == <<data, head, tail, used, lock, left, pc, signalled, arrived, got>>

Slots == 0 .. Size - 1

(* Mutant: the index runs to Size before it wraps.                          *)
AfterOffByOne(i) == (i + 1) % (Size + 1)

After(i) == (i + 1) % Size

(* The slot at distance i from slot t.                                      *)
From(t, i) == (t + i) % Size

TypeOK ==
  /\ data \in [Slots -> 0 .. Arrivals]
  /\ head \in Slots /\ tail \in Slots /\ used \in 0 .. Size
  /\ lock \in BOOLEAN /\ left \in 0 .. Batch
  /\ pc \in {"idle", "waiting"} /\ signalled \in BOOLEAN
  /\ arrived \in 0 .. Arrivals /\ got \in 0 .. Arrivals

Init ==
  /\ data = [i \in Slots |-> 0] /\ head = 0 /\ tail = 0 /\ used = 0
  /\ lock = FALSE /\ left = 0
  /\ pc = "idle" /\ signalled = FALSE
  /\ arrived = 0 /\ got = 0

-----------------------------------------------------------------------------
(* The receive thread.                                                     *)

PushBegin ==
  /\ ~lock
  /\ \E n \in 1 .. Batch : arrived + n <= Arrivals /\ left' = n
  /\ lock' = TRUE
  /\ UNCHANGED <<ring, pc, signalled, arrived, got>>

(* Mutant: a full ring does not give up its oldest element.                 *)
PushKeepingOldest ==
  /\ lock /\ left > 0
  /\ used' = IF used = Size THEN used ELSE used + 1
  /\ UNCHANGED tail
  /\ data' = [data EXCEPT ![head] = arrived + 1]
  /\ head' = After(head)
  /\ left' = left - 1 /\ arrived' = arrived + 1
  /\ UNCHANGED <<lock, pc, signalled, got>>

(* One turn of the loop: a full ring gives up its oldest element first.     *)
Push ==
  /\ lock /\ left > 0
  /\ IF used = Size
       THEN tail' = After(tail) /\ UNCHANGED used
       ELSE used' = used + 1 /\ UNCHANGED tail
  /\ data' = [data EXCEPT ![head] = arrived + 1]
  /\ head' = After(head)
  /\ left' = left - 1 /\ arrived' = arrived + 1
  /\ UNCHANGED <<lock, pc, signalled, got>>

(* Mutant: the batch ends without a broadcast.                              *)
PushEndSilent ==
  /\ lock /\ left = 0
  /\ lock' = FALSE
  /\ UNCHANGED <<ring, left, pc, signalled, arrived, got>>

PushEnd ==
  /\ lock /\ left = 0
  /\ lock' = FALSE
  /\ signalled' = (signalled \/ pc = "waiting")
  /\ UNCHANGED <<ring, left, pc, arrived, got>>

-----------------------------------------------------------------------------
(* The main thread.                                                        *)

(* Mutant: the tail does not advance.                                       *)
TakeKeepingTail ==
  /\ got' = data[tail] /\ used' = used - 1
  /\ UNCHANGED <<data, head, tail>>

Take ==
  /\ got' = data[tail] /\ tail' = After(tail) /\ used' = used - 1
  /\ UNCHANGED <<data, head>>

(* A pop with timeout 0, or one that finds an element or a stop request.     *)
PopNow ==
  /\ pc = "idle" /\ ~lock /\ used > 0
  /\ Take
  /\ UNCHANGED <<lock, left, pc, signalled, arrived>>

(* A pop with a timeout that finds nothing: it waits, and the lock is free.   *)
PopWait ==
  /\ pc = "idle" /\ ~lock /\ used = 0
  /\ pc' = "waiting" /\ signalled' = FALSE
  /\ UNCHANGED <<ring, lock, left, arrived, got>>

(* The loop of waits ends when an element is there, at the timeout, or when a  *)
(* stop request is seen; the pop takes an element if there is one.             *)
PopWake ==
  /\ pc = "waiting" /\ ~lock
  /\ IF used > 0 THEN Take ELSE UNCHANGED <<ring, got>>
  /\ pc' = "idle" /\ signalled' = FALSE
  /\ UNCHANGED <<lock, left, arrived>>

Clear ==
  /\ pc = "idle" /\ ~lock
  /\ head' = 0 /\ tail' = 0 /\ used' = 0
  /\ UNCHANGED <<data, lock, left, pc, signalled, arrived, got>>

Next == PushBegin \/ Push \/ PushEnd \/ PopNow \/ PopWait \/ PopWake \/ Clear

Spec == Init /\ [][Next]_vars

-----------------------------------------------------------------------------
(* Properties.                                                             *)

(* The ring holds exactly the newest elements, oldest at the tail, also in    *)
(* the middle of a batch and after any number of wraps, overruns and clears.  *)
NewestKept ==
  \A i \in 0 .. used - 1 : data[From(tail, i)] = arrived - used + 1 + i

(* Elements are delivered in order and never twice: every pop that finds the   *)
(* ring in use hands out an element newer than all handed out before, and it  *)
(* is the oldest of those the ring keeps.                                   *)
DeliveredInOrder ==
  [][(PopNow \/ PopWake) /\ used > 0 => got' > got /\ got' = arrived' - used']_vars

(* No wake-up is lost: while the main thread waits and an element is there,   *)
(* either the push still holds the lock or the wait was signalled.            *)
NoLostWakeup == pc = "waiting" /\ used > 0 => lock \/ signalled

=============================================================================
