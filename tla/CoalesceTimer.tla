---------------------------- MODULE CoalesceTimer ----------------------------
(***************************************************************************)
(* What Client.coalesceMu guards, and the goroutines of its timer          *)
(* (core/internal/carrier/client.go, kick and fireCoalesceWake): a kick of *)
(* a burst arms or resets a timer instead of waking the workers; when the  *)
(* timer expires a goroutine forgets it and broadcasts.  Reset may run     *)
(* against the expiry, so several timers can be under way at once.  Module *)
(* PollWorkers has the callers of kick and the workers it wakes.           *)
(***************************************************************************)
EXTENDS Integers

CONSTANT MaxTimers  \* bound: timers of one kind alive at once

VARIABLES
  ref,       \* coalesceTimer # nil
  live,      \* timers armed by kick that have not expired
  fired,     \* fireCoalesceWake goroutines before their lock
  firing,    \* fireCoalesceWake goroutines between unlock and Broadcast
  owed       \* history: a kick since the last Broadcast

timers == <<ref, live, fired, firing>>

NoTimer == ref = FALSE /\ live = 0 /\ fired = 0 /\ firing = 0 /\ owed = FALSE

(* The first kick of a burst arms the timer ... *)
ArmTimer ==
  /\ ~ref /\ live < MaxTimers
  /\ ref' = TRUE
  /\ live' = live + 1
  /\ owed' = TRUE
  /\ UNCHANGED <<fired, firing>>

(* ... a later one resets it, which arms it again if it has expired, or    *)
(* finds the hard deadline reached and leaves it alone.                    *)
ResetTimer ==
  /\ ref
  /\ \/ live' = IF live = 0 THEN 1 ELSE live
     \/ live' = live
  /\ owed' = TRUE
  /\ UNCHANGED <<ref, fired, firing>>

(* The timer expires: AfterFunc starts a goroutine ... *)
StartGoroutine ==
  /\ live > 0 /\ fired < MaxTimers
  /\ live' = live - 1
  /\ fired' = fired + 1
  /\ UNCHANGED <<ref, firing, owed>>

(* Mutation of ForgetTimer: coalesceTimer keeps pointing at the old timer. *)
ForgetTimer_KeepRef ==
  /\ fired > 0 /\ firing < MaxTimers
  /\ fired' = fired - 1
  /\ firing' = firing + 1
  /\ UNCHANGED <<ref, live, owed>>

(* ... fireCoalesceWake forgets the timer ... *)
ForgetTimer ==
  /\ fired > 0 /\ firing < MaxTimers
  /\ fired' = fired - 1
  /\ ref' = FALSE
  /\ firing' = firing + 1
  /\ UNCHANGED <<live, owed>>

(* ... and is done with its Broadcast. *)
EndGoroutine ==
  /\ firing > 0
  /\ firing' = firing - 1
  /\ owed' = FALSE
  /\ UNCHANGED <<ref, live, fired>>

---------------------------------------------------------------------------
(* A kick that kick() has swallowed into a coalescing window is owed a     *)
(* Broadcast, and something alive will deliver it: a running timer or a    *)
(* fireCoalesceWake goroutine, also when kicks race the timer's expiry.    *)
KickIsDelivered == owed => live + fired + firing > 0
=============================================================================
