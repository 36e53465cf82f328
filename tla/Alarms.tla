------------------------------- MODULE Alarms -------------------------------
(***************************************************************************)
(* What the timers promise: alarms that count down with the clock.  An     *)
(* alarm goes off once its time has come, the earliest first, one after    *)
(* the other; a prompt alarm goes off before the clock moves on.           *)
(***************************************************************************)
EXTENDS Integers

CONSTANTS
  Alarm,     \* the alarms
  Prompt,    \* those that are never late
  Time       \* the times they are set to

VARIABLES
  left,      \* the time left to each alarm that is set
  ringing    \* the alarms that are going off

Peers(a) == IF a \in Prompt THEN Prompt ELSE Alarm \ Prompt

Init == left = <<>> /\ ringing = {}

Set(a) ==
  left' \in {[b \in DOMAIN left \cup {a} |-> IF b = a THEN n ELSE left[b]] : n \in Time}

Cancel(a) == left' = [b \in DOMAIN left \ {a} |-> left[b]]

GoOff(a) ==
  /\ a \in DOMAIN left /\ left[a] <= 0
  /\ \A b \in DOMAIN left \cap Peers(a) : left[a] <= left[b]
  /\ ringing \cap Peers(a) = {}
  /\ Cancel(a)
  /\ ringing' = ringing \cup {a}

(* An alarm may be set again as it stops ringing. *)
Stop(a) ==
  /\ a \in ringing
  /\ ringing' = ringing \ {a}
  /\ Set(a) \/ UNCHANGED left

Tick ==
  /\ \A a \in DOMAIN left \cap Prompt : left[a] > 0
  /\ ringing \cap Prompt = {}
  /\ left' = [a \in DOMAIN left |-> left[a] - 1]
  /\ UNCHANGED ringing

Next ==
  \/ \E a \in Alarm : \/ UNCHANGED ringing /\ (Cancel(a) \/ Set(a))
                      \/ GoOff(a) \/ Stop(a)
  \/ Tick

vars == <<left, ringing>>

Spec == Init /\ [][Next]_vars
=============================================================================
