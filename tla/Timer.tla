-------------------------------- MODULE Timer --------------------------------
(***************************************************************************)
(* The timers of timer.c: hard timers, whose callbacks run in the tick     *)
(* interrupt, and soft timers, whose callbacks run in a thread that the    *)
(* tick interrupt wakes through a semaphore.  Both kinds are kept in lists *)
(* ordered by a tick count that wraps around.                              *)
(*                                                                         *)
(* A check of a list drops its lock while a callback runs.  Calls on the   *)
(* timers come from the callbacks, from threads and from interrupt         *)
(* handlers, so they are possible between any two locked sections.         *)
(***************************************************************************)
EXTENDS Integers, SequencesExt

CONSTANTS
  Hard, Soft,      \* the timers
  None,            \* no timer
  Modulus,         \* the number of tick counts, 2^32 in the code
  Time,            \* the times timers are set to
  MaxLate,         \* how many ticks the timer thread may be kept from a soft timer
  SwitchInFlight   \* whether a timer may change its kind while its callback runs

Timer == Hard \cup Soft

Half == (Modulus - 1) \div 2     \* RT_TICK_MAX / 2

(* A time of 0 is accepted by the code as well (README).  A list is ordered *)
(* only while the times in it are not too far apart for the wrapped counts. *)
ASSUME TimerAssumption ==
  /\ Hard \cap Soft = {} /\ None \notin Timer
  /\ Modulus \in Nat \ {0} /\ MaxLate \in 0 .. Half - 1
  /\ \A n \in Time : n \in 1 .. Half - 1 /\ n + MaxLate <= Modulus - Half
  /\ SwitchInFlight \in BOOLEAN

VARIABLES
  tick,      \* rt_tick
  live,      \* the timers that are initialised and not detached
  active,    \* those with RT_TIMER_FLAG_ACTIVATED
  periodic,  \* those with RT_TIMER_FLAG_PERIODIC
  init,      \* init_tick
  expiry,    \* timeout_tick of the timers in the lists
  list,      \* _timer_list and _soft_timer_list
  temp,      \* the temporary lists of the two checks
  cur,       \* the timer whose callback each check runs
  pc,        \* where the tick interrupt and the timer thread stand
  sem        \* the value of _soft_timer_sem

timers == <<live, active, periodic, init, expiry, list, temp>>
timerVars == <<tick, timers, cur, pc, sem>>

(*   off      hard: no tick interrupt                                       *)
(*   soft     hard: about to look at the first soft timer                   *)
(*   release  hard: about to release the semaphore                          *)
(*   check    about to look at the first timer of the list                  *)
(*   call     in a callback, the lock released                              *)
(*   take     soft: about to take the semaphore                             *)
(*   wait     soft: suspended on it                                         *)
TimerTypeOK ==
  /\ tick \in 0 .. Modulus - 1
  /\ live \subseteq Timer /\ active \subseteq Timer /\ periodic \subseteq Timer
  /\ init \in [Timer -> Time]
  /\ expiry \in [Timer -> 0 .. Modulus - 1]
  /\ list.hard \in Seq(Hard) /\ list.soft \in Seq(Soft)
  /\ temp.hard \subseteq Hard /\ temp.soft \subseteq Soft
  /\ cur.hard \in Hard \cup {None} /\ cur.soft \in Soft \cup {None}
  /\ pc.hard \in {"off", "soft", "release", "check", "call"}
  /\ pc.soft \in {"check", "call", "take", "wait"}
  /\ sem \in 0 .. 1

TimerInit ==
  /\ tick \in 0 .. Modulus - 1
  /\ live = Timer /\ active = {} /\ periodic \in SUBSET Timer
  /\ init \in [Timer -> Time]
  /\ expiry = [t \in Timer |-> 0]
  /\ list = [hard |-> <<>>, soft |-> <<>>]
  /\ temp = [hard |-> {}, soft |-> {}]
  /\ cur = [hard |-> None, soft |-> None]
  /\ pc = [hard |-> "off", soft |-> "check"]
  /\ sem = 0

Kind(t) == IF t \in Soft THEN "soft" ELSE "hard"

-----------------------------------------------------------------------------
(* The lists. *)

(* Whether tick count e is reached, as _timer_check sees it.                *)
Due(e) == (tick - e) % Modulus < Half

(* _timer_remove.  Nothing reads the expiry of a timer in no list.          *)
Unlink(t) ==
  /\ list' = [list EXCEPT ![Kind(t)] = RemoveFirst(@, t)]
  /\ temp' = [temp EXCEPT ![Kind(t)] = @ \ {t}]
  /\ expiry' = [expiry EXCEPT ![t] = 0]

(* Mutant: tick counts are compared as numbers.                             *)
Insert_Plain(s, t, e) ==
  LET later == {i \in DOMAIN s : expiry[s[i]] > e}
  IN  InsertAt(s, IF later = {} THEN Len(s) + 1 ELSE Min(later), t)

(* Timer t goes before the first one that expires later than e.             *)
Insert(s, t, e) ==
  LET later == {i \in DOMAIN s : (expiry[s[i]] - e) % Modulus \in 1 .. Half - 1}
  IN  InsertAt(s, IF later = {} THEN Len(s) + 1 ELSE Min(later), t)

(* _timer_start *)
StartNow(t) ==
  LET e == (tick + init[t]) % Modulus
      k == Kind(t)
  IN  /\ list' = [list EXCEPT ![k] = Insert(RemoveFirst(@, t), t, e)]
      /\ temp' = [temp EXCEPT ![k] = @ \ {t}]
      /\ expiry' = [expiry EXCEPT ![t] = e]
      /\ active' = active \cup {t}

-----------------------------------------------------------------------------
(* Calls on a timer. *)

Start(t) ==
  /\ t \in live
  /\ StartNow(t)
  /\ UNCHANGED <<tick, live, periodic, init, cur, pc, sem>>

(* It fails for a timer that is not active. *)
Stop(t) ==
  /\ t \in live \cap active
  /\ Unlink(t)
  /\ active' = active \ {t}
  /\ UNCHANGED <<tick, live, periodic, init, cur, pc, sem>>

(* Mutant: an active timer is not taken out of its list.                    *)
SetTime_KeepsLink(t, n) ==
  /\ t \in live
  /\ active' = active \ {t}
  /\ UNCHANGED <<list, temp, expiry>>
  /\ init' = [init EXCEPT ![t] = n]
  /\ UNCHANGED <<tick, live, periodic, cur, pc, sem>>

(* rt_timer_control(RT_TIMER_CTRL_SET_TIME) *)
SetTime(t, n) ==
  /\ t \in live
  /\ IF t \in active THEN Unlink(t) ELSE UNCHANGED <<list, temp, expiry>>
  /\ active' = active \ {t}
  /\ init' = [init EXCEPT ![t] = n]
  /\ UNCHANGED <<tick, live, periodic, cur, pc, sem>>

(* RT_TIMER_CTRL_SET_ONESHOT or RT_TIMER_CTRL_SET_PERIODIC                  *)
SwitchKind(t) ==
  /\ t \in live
  /\ t \in temp[Kind(t)] => SwitchInFlight
  /\ periodic' = IF t \in periodic THEN periodic \ {t} ELSE periodic \cup {t}
  /\ UNCHANGED <<tick, live, active, init, expiry, list, temp, cur, pc, sem>>

(* Nobody reads the type and the time of a timer that is not initialised.   *)
Detach(t) ==
  /\ t \in live
  /\ Unlink(t)
  /\ active' = active \ {t}
  /\ live' = live \ {t}
  /\ periodic' = periodic \ {t}
  /\ init' = [init EXCEPT ![t] = CHOOSE n \in Time : TRUE]
  /\ UNCHANGED <<tick, cur, pc, sem>>

(* rt_timer_init of a detached timer *)
Reinit(t, n, yes) ==
  /\ t \notin live
  /\ live' = live \cup {t}
  /\ periodic' = IF yes THEN periodic \cup {t} ELSE periodic \ {t}
  /\ init' = [init EXCEPT ![t] = n]
  /\ UNCHANGED <<tick, active, expiry, list, temp, cur, pc, sem>>

-----------------------------------------------------------------------------
(* The checks.  Kind k is "hard" in the tick interrupt and "soft" in the    *)
(* timer thread, which runs only outside the interrupt.                     *)

Runs(k) == k = "hard" \/ pc.hard = "off"

(* Take the first timer, if it is due, for its callback.                    *)
Fire(k) ==
  /\ Runs(k) /\ pc[k] = "check"
  /\ list[k] # <<>> /\ Due(expiry[Head(list[k])])
  /\ LET t == Head(list[k])
     IN  /\ list' = [list EXCEPT ![k] = Tail(@)]
         /\ temp' = [temp EXCEPT ![k] = {t}]
         /\ cur' = [cur EXCEPT ![k] = t]
         /\ expiry' = [expiry EXCEPT ![t] = 0]
         /\ active' = IF t \in periodic THEN active ELSE active \ {t}
  /\ pc' = [pc EXCEPT ![k] = "call"]
  /\ UNCHANGED <<tick, live, periodic, init, sem>>

(* After the callback: a periodic timer that nobody stopped or started      *)
(* meanwhile starts again.  The loop then goes on under the same lock.      *)
Return(k) ==
  /\ Runs(k) /\ pc[k] = "call"
  /\ IF cur[k] \in temp[k] \cap periodic \cap active
     THEN StartNow(cur[k])
     ELSE temp' = [temp EXCEPT ![k] = {}] /\ UNCHANGED <<active, expiry, list>>
  /\ pc' = [pc EXCEPT ![k] = "check"]
  /\ cur' = [cur EXCEPT ![k] = None]
  /\ UNCHANGED <<tick, live, periodic, init, sem>>

(* No timer is due: the interrupt returns, the thread takes the semaphore.  *)
Done(k) ==
  /\ Runs(k) /\ pc[k] = "check"
  /\ list[k] # <<>> => ~ Due(expiry[Head(list[k])])
  /\ pc' = [pc EXCEPT ![k] = IF k = "hard" THEN "off" ELSE "take"]
  /\ UNCHANGED <<tick, timers, cur, sem>>

(* rt_sem_take(&_soft_timer_sem, RT_WAITING_FOREVER) *)
Take ==
  /\ Runs("soft") /\ pc.soft = "take"
  /\ pc' = [pc EXCEPT !.soft = IF sem > 0 THEN "check" ELSE "wait"]
  /\ sem' = 0
  /\ UNCHANGED <<tick, timers, cur>>

(* rt_tick_increase.  The timer thread is not kept from a soft timer for    *)
(* longer than MaxLate ticks.                                               *)
Tick ==
  /\ pc.hard = "off"
  /\ \A t \in ToSet(list.soft) : ~ Due((expiry[t] + MaxLate) % Modulus)
  /\ tick' = (tick + 1) % Modulus
  /\ pc' = [pc EXCEPT !.hard = "soft"]
  /\ UNCHANGED <<timers, cur, sem>>

(* Mutant: off by one tick.                                                 *)
LookAtSoft_Less ==
  /\ pc.hard = "soft"
  /\ pc' = [pc EXCEPT !.hard = IF list.soft # <<>> /\ expiry[Head(list.soft)] < tick
                               THEN "release" ELSE "check"]
  /\ UNCHANGED <<tick, timers, cur, sem>>

(* rt_timer_check, first part.  It compares tick counts as numbers.         *)
LookAtSoft ==
  /\ pc.hard = "soft"
  /\ pc' = [pc EXCEPT !.hard = IF list.soft # <<>> /\ expiry[Head(list.soft)] <= tick
                               THEN "release" ELSE "check"]
  /\ UNCHANGED <<tick, timers, cur, sem>>

(* Mutant: the limit of the semaphore is not set.                           *)
Release_NoLimit ==
  /\ pc.hard = "release"
  /\ pc' = [hard |-> "check", soft |-> IF pc.soft = "wait" THEN "check" ELSE pc.soft]
  /\ sem' = IF pc.soft = "wait" THEN sem ELSE sem + 1
  /\ UNCHANGED <<tick, timers, cur>>

(* rt_sem_release(&_soft_timer_sem), whose value is limited to 1.           *)
Release ==
  /\ pc.hard = "release"
  /\ pc' = [hard |-> "check", soft |-> IF pc.soft = "wait" THEN "check" ELSE pc.soft]
  /\ sem' = IF pc.soft = "wait" THEN sem ELSE 1
  /\ UNCHANGED <<tick, timers, cur>>

-----------------------------------------------------------------------------
TimerNext ==
  \/ \E t \in Timer :
       \/ Start(t) \/ Stop(t) \/ SwitchKind(t) \/ Detach(t)
       \/ \E n \in Time : SetTime(t, n)
       \/ \E n \in Time, yes \in BOOLEAN : Reinit(t, n, yes)
  \/ \E k \in {"hard", "soft"} : Fire(k) \/ Return(k) \/ Done(k)
  \/ Take \/ Tick \/ LookAtSoft \/ Release

TimerSpec == TimerInit /\ [][TimerNext]_timerVars

(* Nothing tells the soft timers apart.                                     *)
Symmetry == Permutations(Soft)

-----------------------------------------------------------------------------
(* Properties. *)

Listed == ToSet(list.hard) \cup ToSet(list.soft)
InFlight == temp.hard \cup temp.soft

(* A timer is marked active exactly when it will go off (again) by itself:  *)
(* it is in the list of its kind, once, or a periodic one whose callback    *)
(* runs.  Stops, starts, detaches and changes before, during and after a    *)
(* callback leave no timer active in no list, or listed and inactive.       *)
ListsOK ==
  /\ IsInjective(list.hard) /\ IsInjective(list.soft)
  /\ Listed \cap InFlight = {}
  /\ active = Listed \cup (InFlight \cap periodic)
  /\ active \cup InFlight \subseteq live

(* No soft timer that is due is left while the timer thread waits: the tick *)
(* interrupt has woken it, although it compares tick counts as numbers and  *)
(* timers come and go between its look and the release.                     *)
SoftServed ==
  pc.hard = "off" /\ pc.soft = "wait" =>
    \A t \in ToSet(list.soft) : ~ Due(expiry[t])

(* The timers implement Alarms: in spite of wrapped tick counts and of      *)
(* calls during callbacks, each timer goes off when its time has come and   *)
(* not before, in order, and hard timers in the very tick.                  *)
Signed(x) == IF x % Modulus < Half + 1 THEN x % Modulus ELSE (x % Modulus) - Modulus

Abstract == INSTANCE Alarms WITH
  Alarm   <- Timer,
  Prompt  <- Hard,
  left    <- [t \in Listed |-> Signed(expiry[t] - tick)],
  ringing <- {cur.hard, cur.soft} \ {None}

Implements == Abstract!Spec
=============================================================================
