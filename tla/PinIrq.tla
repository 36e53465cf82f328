------------------------------- MODULE PinIrq -------------------------------
(***************************************************************************)
(* Interrupts of pins: libraries/rt_drivers/drv_gpio.c over the EXINT      *)
(* lines of the chip.  The pins of one number, whatever their ports, share *)
(* a line; some lines share a vector, which is here the set of its lines.  *)
(*                                                                         *)
(* Each call, and each handler, is one step: they disable interrupts, and  *)
(* the handlers of lines do not nest in each other.  Who attaches a pin    *)
(* enables, disables and detaches it, and nobody else does: the code does  *)
(* not compare the pin with the one that is attached.                      *)
(***************************************************************************)
EXTENDS Naturals, FiniteSets

CONSTANTS
  Port, Line, \* a pin has a port and a line
  Edge,       \* the edges of a level, PIN_IRQ_MODE_RISING and _FALLING
  Null        \* no pin, no port

PinAssumption == Null \notin Port /\ Null \notin Port \X Line

VARIABLE pn

Pin == Port \X Line
LineOf(p) == p[2]

Mode == SUBSET Edge \ {{}}

(* tab is pin_irq_handler_tab (of a handler only whether there is one),     *)
(* mask pin_irq_enable_mask; inten, the polarity and the flags of EXINT;    *)
(* port the choice of the line's port in SCFG; on and pending the vectors   *)
(* that are enabled and pending in the NVIC.  In no code are enabled, the   *)
(* pins whose users have enabled them, and due, those of them that had an   *)
(* edge which their handler is to be told of.                               *)
TypeOK ==
  /\ pn.vector \in [Line -> SUBSET Line]
  /\ pn.tab \in [Line -> [pin : Pin \cup {Null}, mode : Mode \cup {{}}]]
  /\ {pn.mask, pn.inten, pn.flag} \subseteq SUBSET Line
  /\ pn.polarity \in [Line -> SUBSET Edge] /\ pn.port \in [Line -> Port \cup {Null}]
  /\ {pn.on, pn.pending} \subseteq SUBSET SUBSET Line
  /\ pn.enabled \subseteq Pin /\ pn.due \subseteq pn.enabled

Free == [pin |-> Null, mode |-> {}]

(* Lines 0 to 4 have a vector each, 5 to 9 and 10 to 15 share one.          *)
Init ==
  \E vector \in {[l \in Line |-> {l}], [l \in Line |-> Line]} :
    pn = [vector |-> vector, tab |-> [l \in Line |-> Free],
          mask |-> {}, inten |-> {}, flag |-> {},
          polarity |-> [l \in Line |-> {}], port |-> [l \in Line |-> Null],
          on |-> {}, pending |-> {},
          enabled |-> {}, due |-> {}]

-----------------------------------------------------------------------------
Attached(p) == pn.tab[LineOf(p)].pin = p

(* A line whose handler is taken refuses another pin.                       *)
Attach(p, mode) ==
  /\ pn.tab[LineOf(p)] = Free
  /\ pn' = [pn EXCEPT !.tab[LineOf(p)] = [pin |-> p, mode |-> mode]]

Detach(p) ==
  /\ Attached(p)
  /\ pn' = [pn EXCEPT !.tab[LineOf(p)] = Free, !.enabled = @ \ {p}, !.due = @ \ {p}]

(* A vector is pending when one of its lines has a flag and is not masked.  *)
Requested(s) ==
  [s EXCEPT !.pending = @ \cup {s.vector[l] : l \in s.flag \cap s.inten}]

IrqEnable(p) ==
  LET l == LineOf(p)
  IN  /\ Attached(p)
      /\ pn' = Requested(
           [pn EXCEPT !.port[l] = p[1], !.polarity[l] = pn.tab[l].mode,
                      !.inten = @ \cup {l}, !.mask = @ \cup {l},
                      !.on = @ \cup {pn.vector[l]}, !.enabled = @ \cup {p}])

(* Mutant: the vector is switched off although others of its lines are on.  *)
IrqDisable_Vector(p) ==
  LET l == LineOf(p)
  IN  /\ Attached(p)
      /\ pn' = [pn EXCEPT !.mask = @ \ {l}, !.inten = @ \ {l},
                          !.on = @ \ {pn.vector[l]},
                          !.enabled = @ \ {p}, !.due = @ \ {p}]

IrqDisable(p) ==
  LET l == LineOf(p)
      others == (pn.vector[l] \cap pn.mask) \ {l}
  IN  /\ Attached(p)
      /\ pn' = [pn EXCEPT !.mask = @ \ {l}, !.inten = @ \ {l},
                          !.on = IF others = {} THEN @ \ {pn.vector[l]} ELSE @,
                          !.enabled = @ \ {p}, !.due = @ \ {p}]

-----------------------------------------------------------------------------
(* The handler of a vector: of one line it looks at no flag; of several it  *)
(* serves those with a flag, even if they are masked.                       *)
Handler(v) ==
  LET served == IF Cardinality(v) = 1 THEN v ELSE v \cap pn.flag
  IN  /\ v \in pn.on \cap pn.pending
      /\ pn' = Requested(
           [pn EXCEPT !.pending = @ \ {v}, !.flag = @ \ served,
                      !.due = @ \ {pn.tab[l].pin : l \in served}])

(* An edge at a pin.  Whether a masked line keeps a flag is left open.      *)
Level(p, e) ==
  LET l == LineOf(p)
      seen == pn.port[l] = p[1] /\ e \in pn.polarity[l]
      told == [pn EXCEPT !.due = IF p \in pn.enabled /\ e \in pn.tab[l].mode
                                 THEN @ \cup {p} ELSE @]
  IN  \/ seen /\ pn' = Requested([told EXCEPT !.flag = @ \cup {l}])
      \/ ~ (seen /\ l \in pn.inten) /\ pn' = told

Next ==
  \/ \E p \in Pin : Detach(p) \/ IrqEnable(p) \/ IrqDisable(p)
  \/ \E p \in Pin, mode \in Mode : Attach(p, mode)
  \/ \E v \in {pn.vector[l] : l \in Line} : Handler(v)
  \/ \E p \in Pin, e \in Edge : Level(p, e)

Spec == Init /\ [][Next]_pn

-----------------------------------------------------------------------------
(* No edge is missed: whatever the users of the other pins of its line and  *)
(* its vector do, the handler of a pin that had an edge is about to run.    *)
EdgesTold ==
  \A p \in pn.due :
    /\ Attached(p) /\ LineOf(p) \in pn.flag
    /\ pn.vector[LineOf(p)] \in pn.on \cap pn.pending
=============================================================================
