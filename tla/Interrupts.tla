------------------------------- MODULE Interrupts -----------------------------
(***************************************************************************)
(* Hardware interrupts, from the line of a device to the handler: the boot *)
(* order of kmain (main.c), the pair of interrupt controllers (pic.c), the *)
(* gates and the dispatcher (idt.c, stubs.asm), the tick counter and       *)
(* timer_wait (timer.c).  Gates are interrupt gates: a handler runs with   *)
(* interrupts disabled and is never nested, but devices raise lines at any *)
(* time.  Exceptions, which stop the machine, are left out.                *)
(***************************************************************************)
EXTENDS Integers, FiniteSets

CONSTANTS
  Lines,       \* the lines that have a device: the timer 0, the keyboard 1, others
  MaxTicks,    \* bound: the tick counter stays there
  Waits        \* what timer_wait is called with

ASSUME LinesAssumption ==
  /\ {0, 1} \subseteq Lines /\ Lines \subseteq 0 .. 15 \ {2}
  /\ MaxTicks \in Nat /\ Waits \subseteq Nat

VARIABLES
  irr, imr, isr,  \* lines requested, masked, in service, on both controllers
  offset,         \* controller (1 or 2) -> its vector of line 0
  gates,          \* vectors with a gate that leads to its stub
  idt_loaded,
  enabled,        \* the processor takes interrupts (the flag IF)
  running,        \* the line whose handler runs, or NONE
  dispatched,     \* the number its stub passes to irq_handler
  pc,             \* where kmain is; afterwards, where timer_wait is
  timer_ticks,
  target          \* start_ticks + ticks of the timer_wait under way

pic == <<irr, imr, isr, offset>>
cpu == <<gates, idt_loaded, enabled, running, dispatched>>
vars == <<pic, cpu, pc, timer_ticks, target>>

NONE == -1
CASCADE_IRQ == 2

-----------------------------------------------------------------------------
\* The controllers.  A line of the second one asks through line 2 of the first.
Chip(line) == IF line < 8 THEN 1 ELSE 2
OnFirst(line) == IF line < 8 THEN line ELSE CASCADE_IRQ

\* Held back: by a mask, or by a line in service of the same or a higher priority.
Blocked(line) ==
  \/ {line, OnFirst(line)} \cap imr # {}
  \/ \E k \in isr : Chip(k) = 1 /\ k <= OnFirst(line)
  \/ \E k \in isr : Chip(line) = 2 /\ Chip(k) = 2 /\ k <= line

Ready == {line \in irr : ~ Blocked(line)}
Before(a, b) == OnFirst(a) < OnFirst(b) \/ (OnFirst(a) = OnFirst(b) /\ a < b)
Highest(line) == line \in Ready /\ \A other \in Ready \ {line} : Before(line, other)

\* A non-specific end of interrupt: the line of highest priority in service.
EndOf(chip, lines) ==
  {k \in lines : Chip(k) # chip \/ \E j \in lines : Chip(j) = chip /\ j < k}

\* pic_send_eoi: the second controller when the line is one of its lines, the
\* first one always.
AfterEoi_OnlySecond(irq, lines) ==      \* mutant: one controller or the other
  IF irq >= 8 THEN EndOf(2, lines) ELSE lines
AfterEoi(irq, lines) == EndOf(1, IF irq >= 8 THEN EndOf(2, lines) ELSE lines)

\* The low three bits of a vector offset are ignored: 47 stands for 40.
IgnoredBits == 8

Vector(line) == offset[Chip(line)] + (line % 8)

-----------------------------------------------------------------------------
\* The boot order of kmain and idt_init, as far as interrupts see it.
NextStep_EnableFirst ==                 \* mutant: sti before lidt
  [cli |-> "PIC_remap", PIC_remap |-> "set_descriptors", set_descriptors |-> "clear_masks",
   clear_masks |-> "sti", sti |-> "lidt", lidt |-> "init_timer", init_timer |-> "init_keyboard",
   init_keyboard |-> "sti_again", sti_again |-> "hcf"]
NextStep ==
  [cli |-> "PIC_remap", PIC_remap |-> "set_descriptors", set_descriptors |-> "clear_masks",
   clear_masks |-> "lidt", lidt |-> "sti", sti |-> "init_timer", init_timer |-> "init_keyboard",
   init_keyboard |-> "sti_again", sti_again |-> "hcf"]

\* kmain runs when no handler does.
At(step) == running = NONE /\ pc = step
Step(step) == At(step) /\ pc' = NextStep[step]

Cli == Step("cli") /\ enabled' = FALSE /\ UNCHANGED <<pic, gates, idt_loaded, running, dispatched, timer_ticks, target>>

\* Initialization words reset the controllers; "outb(PIC1_DATA, 0)" masks nothing.
PIC_remap(offset1, offset2) ==
  /\ Step("PIC_remap")
  /\ irr' = {} /\ isr' = {} /\ imr' = {}
  /\ offset' = [chip \in {1, 2} |->
       LET o == IF chip = 1 THEN offset1 ELSE offset2 IN o - (o % IgnoredBits)]
  /\ UNCHANGED <<cpu, timer_ticks, target>>

idt_set_descriptors ==
  /\ Step("set_descriptors")
  /\ gates' = 0 .. 47 \cup {128}
  /\ UNCHANGED <<pic, idt_loaded, enabled, running, dispatched, timer_ticks, target>>

IRQ_clear_masks ==
  /\ Step("clear_masks")
  /\ imr' = imr \ {0, 1}
  /\ UNCHANGED <<irr, isr, offset, cpu, timer_ticks, target>>

Lidt ==
  /\ Step("lidt")
  /\ idt_loaded' = TRUE
  /\ UNCHANGED <<pic, gates, enabled, running, dispatched, timer_ticks, target>>

Sti ==
  /\ Step("sti") \/ Step("sti_again")
  /\ enabled' = TRUE
  /\ UNCHANGED <<pic, gates, idt_loaded, running, dispatched, timer_ticks, target>>

init_timer == Step("init_timer") /\ UNCHANGED <<pic, cpu, timer_ticks, target>>
init_keyboard == Step("init_keyboard") /\ UNCHANGED <<pic, cpu, timer_ticks, target>>

\* kmain ends in a loop of hlt; code that runs there may wait for ticks.
timer_wait(ticks) ==
  /\ At("hcf")
  /\ timer_ticks + ticks <= MaxTicks
  /\ target' = timer_ticks + ticks
  /\ pc' = "check"
  /\ UNCHANGED <<pic, cpu, timer_ticks>>

\* The test of the loop, and then hlt, are two instructions.
Check ==
  /\ At("check")
  /\ pc' = IF timer_ticks < target THEN "hlt" ELSE "hcf"
  /\ UNCHANGED <<pic, cpu, timer_ticks, target>>

Hlt ==
  /\ At("hlt")
  /\ pc' = "halted"
  /\ UNCHANGED <<pic, cpu, timer_ticks, target>>

-----------------------------------------------------------------------------
\* The gates are interrupt gates (0x8E): the processor disables interrupts.
AfterGate_Trap == TRUE                  \* mutant: a trap gate
AfterGate == FALSE

\* A device raises its line.
Raise(line) ==
  /\ line \notin irr
  /\ irr' = irr \cup {line}
  /\ UNCHANGED <<imr, isr, offset, cpu, pc, timer_ticks, target>>

\* Between two instructions the processor takes the interrupt of highest priority
\* and goes through the gate of its vector; a vector without a gate goes nowhere.
Deliver ==
  /\ enabled
  /\ \E line \in irr :
       /\ Highest(line)
       /\ irr' = irr \ {line}
       /\ isr' = isr \cup {line, OnFirst(line)}
       /\ running' = line
       /\ dispatched' = IF idt_loaded /\ Vector(line) \in gates THEN Vector(line) - 32 ELSE NONE
  /\ enabled' = AfterGate
  /\ pc' = IF pc = "halted" THEN "check" ELSE pc
  /\ UNCHANGED <<imr, offset, gates, idt_loaded, timer_ticks, target>>

\* Lines that irq_handler acknowledges; the default case returns at once.
Acknowledged_Keyboard == {1}            \* mutant: the timer is not
Acknowledged == {0, 1}

on_irq0_Nothing(ticks) == ticks         \* mutant
on_irq0(ticks) == IF ticks < MaxTicks THEN ticks + 1 ELSE ticks

\* irq_handler and the return of its stub, which enables interrupts again.
irq_handler ==
  /\ running # NONE /\ dispatched # NONE
  /\ timer_ticks' = IF dispatched = 0 THEN on_irq0(timer_ticks) ELSE timer_ticks
  /\ isr' = IF dispatched \in Acknowledged THEN AfterEoi(dispatched, isr) ELSE isr
  /\ running' = NONE /\ dispatched' = NONE
  /\ enabled' = TRUE
  /\ UNCHANGED <<irr, imr, offset, gates, idt_loaded, pc, target>>

\* The boot loader enters with interrupts disabled; the controllers are at the
\* vectors of the firmware, with every line masked or none.
Init ==
  /\ irr = {} /\ isr = {} /\ imr \in {{}, Lines \cup {CASCADE_IRQ}}
  /\ offset = [chip \in {1, 2} |-> IF chip = 1 THEN 8 ELSE 112]
  /\ gates = {} /\ idt_loaded = FALSE
  /\ enabled = FALSE
  /\ running = NONE /\ dispatched = NONE
  /\ pc = "cli"
  /\ timer_ticks = 0 /\ target = 0

kmain ==
  \/ Cli \/ PIC_remap(32, 47) \/ idt_set_descriptors \/ IRQ_clear_masks \/ Lidt \/ Sti
  \/ init_timer \/ init_keyboard \/ Check \/ Hlt

Next ==
  \/ kmain
  \/ \E ticks \in Waits : timer_wait(ticks)
  \/ \E line \in Lines : Raise(line)
  \/ Deliver
  \/ irq_handler

\* The processor takes interrupts and finishes handlers, the timer is periodic, and
\* interrupts leave the interrupted code time to run: they come every few
\* milliseconds, so that it is not for ever kept from its next step.
Fairness == SF_vars(kmain) /\ WF_vars(Deliver) /\ WF_vars(irq_handler) /\ WF_vars(Raise(0))

Spec == Init /\ [][Next]_vars /\ Fairness

-----------------------------------------------------------------------------
TypeOK ==
  /\ irr \subseteq Lines /\ isr \cup imr \subseteq Lines \cup {CASCADE_IRQ}
  /\ offset[1] \in Nat /\ offset[2] \in Nat /\ gates \subseteq 0 .. 255
  /\ enabled \in BOOLEAN /\ idt_loaded \in BOOLEAN
  /\ running \in Lines \cup {NONE} /\ (enabled => running = NONE)
  /\ pc \in DOMAIN NextStep \cup {"hcf", "check", "hlt", "halted"}
  /\ timer_ticks \in 0 .. MaxTicks /\ target \in 0 .. MaxTicks

\* An interrupt of a line reaches irq_handler under the number of that line: no
\* interrupt is taken before there are gates, nor through the vector of another
\* line or of an exception.
DispatchedAsItself == running # NONE => dispatched = running

\* "Signal the PIC that an interrupt has been handled": between handlers nothing in
\* service holds back the timer or the keyboard, although the handlers of the other
\* lines never acknowledge them.
DevicesNotHeldBack == running = NONE /\ idt_loaded => ~ Blocked(0) /\ ~ Blocked(1)

\* Every tick that the timer raises is served, whatever the other devices do.
TimerServed == 0 \in irr ~> 0 \notin irr

\* "Blocks execution for a specified number of PIT ticks": and then returns, even
\* when the last tick comes between the test and hlt.
WaitEnds == pc = "check" ~> pc = "hcf"
=============================================================================
