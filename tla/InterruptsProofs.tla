--------------------------- MODULE InterruptsProofs --------------------------
(***************************************************************************)
(* For every set of lines that contains the timer and the keyboard: an     *)
(* interrupt reaches irq_handler under its own number, and between         *)
(* handlers nothing holds back the timer or the keyboard.  The invariant   *)
(* has three parts: what each step of the boot has established (Booted),   *)
(* that no handler runs before the boot enables interrupts (Quiet), and    *)
(* that the timer and the keyboard are in service only while their own     *)
(* handler runs (Served).                                                  *)
(***************************************************************************)
EXTENDS Interrupts, TLAPS

\* The steps of the boot, and the places after each of them.
Late == {"init_timer", "init_keyboard", "sti_again", "hcf", "check", "hlt", "halted"}
Loaded == {"sti"} \cup Late
Described == {"clear_masks", "lidt"} \cup Loaded
Remapped == {"set_descriptors"} \cup Described

Booted ==
  /\ pc \in {"cli", "PIC_remap"} \cup Remapped
  /\ pc \in Remapped => offset = [chip \in {1, 2} |-> IF chip = 1 THEN 32 ELSE 40]
  /\ pc \in Remapped => imr = {}
  /\ pc \in Described => gates = 0 .. 47 \cup {128}
  /\ idt_loaded <=> pc \in Loaded

Quiet ==
  /\ enabled \/ running # NONE => pc \in Late
  /\ running # NONE => dispatched = running
  /\ enabled => running = NONE

Served ==
  /\ isr \subseteq Lines \cup {CASCADE_IRQ}
  /\ pc \notin Late => isr \subseteq {}
  /\ isr \cap {0, 1} \subseteq {running}

Inv == TypeOK /\ Booted /\ Quiet /\ Served

-----------------------------------------------------------------------------
\* A line below 8 is one of the first controller, whose end of interrupt takes the
\* line of highest priority: line 0 if it is in service, or line 1 if line 0 is not.
LEMMA EndOfFirst ==
  ASSUME NEW lines \in SUBSET Nat, NEW irq \in {0, 1},
         irq \in lines, lines \cap {0, 1} \subseteq {irq}
  PROVE  AfterEoi(irq, lines) \cap {0, 1} = {} /\ AfterEoi(irq, lines) \subseteq lines
<1>1. AfterEoi(irq, lines) = EndOf(1, lines)
  BY DEF AfterEoi
<1>2. irq \notin EndOf(1, lines)
  BY DEF EndOf, Chip
<1> QED  BY <1>1, <1>2 DEF EndOf

\* The interrupt of a line goes through the gate 32 + line.
LEMMA VectorOfLine ==
  ASSUME NEW line \in 0 .. 15, offset = [chip \in {1, 2} |-> IF chip = 1 THEN 32 ELSE 40]
  PROVE  Vector(line) = 32 + line
<1>1. CASE line < 8
  BY <1>1 DEF Chip, Vector
<1>2. CASE line >= 8
  <2>1. line % 8 = line - 8
    BY <1>2
  <2> QED  BY <1>2, <2>1 DEF Chip, Vector
<1> QED  BY <1>1, <1>2

LEMMA InitInv == Init => Inv
<1> SUFFICES ASSUME Init PROVE Inv
  OBVIOUS
<1>1. imr \subseteq Lines \cup {CASCADE_IRQ} /\ irr = {} /\ isr = {}
  BY DEF Init
<1>2. offset[1] \in Nat /\ offset[2] \in Nat
  BY DEF Init
<1>3. /\ pc = "cli" /\ pc \in DOMAIN NextStep
      /\ gates = {} /\ idt_loaded = FALSE /\ enabled = FALSE
      /\ running = NONE /\ timer_ticks = 0 /\ target = 0
  BY DEF Init, NextStep
<1>4. TypeOK
  <2>1. enabled \in BOOLEAN /\ idt_loaded \in BOOLEAN
    BY <1>3, Zenon
  <2>2. 0 \in 0 .. MaxTicks
    BY LinesAssumption
  <2> QED  BY <1>1, <1>2, <1>3, <2>1, <2>2 DEF TypeOK
<1>5. Booted /\ Quiet /\ Served
  BY <1>1, <1>3 DEF Booted, Quiet, Served, Late, Loaded, Described, Remapped
<1> QED  BY <1>4, <1>5 DEF Inv

-----------------------------------------------------------------------------
\* The order of the boot, as equations.
LEMMA BootOrder ==
  /\ NextStep["cli"] = "PIC_remap" /\ NextStep["PIC_remap"] = "set_descriptors"
  /\ NextStep["set_descriptors"] = "clear_masks" /\ NextStep["clear_masks"] = "lidt"
  /\ NextStep["lidt"] = "sti" /\ NextStep["sti"] = "init_timer"
  /\ NextStep["init_timer"] = "init_keyboard" /\ NextStep["init_keyboard"] = "sti_again"
  /\ NextStep["sti_again"] = "hcf"
  /\ DOMAIN NextStep = {"cli", "PIC_remap", "set_descriptors", "clear_masks", "lidt", "sti",
                        "init_timer", "init_keyboard", "sti_again"}
BY DEF NextStep

\* The two flags stay Boolean: each step assigns a Boolean or leaves them alone.
LEMMA Flags ==
  ASSUME TypeOK, Next
  PROVE  enabled' \in BOOLEAN /\ idt_loaded' \in BOOLEAN
<1>1. CASE kmain
  <2>1. \/ UNCHANGED <<enabled, idt_loaded>>
        \/ enabled' = FALSE /\ UNCHANGED idt_loaded
        \/ enabled' = TRUE /\ UNCHANGED idt_loaded
        \/ idt_loaded' = TRUE /\ UNCHANGED enabled
    BY <1>1 DEF kmain, Cli, PIC_remap, idt_set_descriptors, IRQ_clear_masks, Lidt, Sti, init_timer,
      init_keyboard, Check, Hlt, cpu
  <2> QED  BY <2>1, Zenon DEF TypeOK
<1>2. CASE (\E ticks \in Waits : timer_wait(ticks)) \/ (\E line \in Lines : Raise(line))
  <2>1. UNCHANGED <<enabled, idt_loaded>>
    BY <1>2 DEF timer_wait, Raise, cpu
  <2> QED  BY <2>1, Zenon DEF TypeOK
<1>3. CASE Deliver
  BY <1>3, Zenon DEF Deliver, AfterGate, TypeOK
<1>4. CASE irq_handler
  BY <1>4, Zenon DEF irq_handler, TypeOK
<1> QED  BY <1>1, <1>2, <1>3, <1>4 DEF Next

\* The steps of kmain preserve the invariant: each establishes what the places after
\* it know of the boot.
LEMMA BootStep ==
  ASSUME Inv, kmain
  PROVE  Inv'
<1> USE BootOrder DEF Inv, Step, At, pic, cpu, TypeOK, Booted, Quiet, Served, Late, Loaded,
      Described, Remapped
<1>0. enabled' \in BOOLEAN /\ idt_loaded' \in BOOLEAN
  BY Flags DEF Next
<1>1. CASE Cli
  BY <1>0, <1>1 DEF Cli
<1>2. CASE idt_set_descriptors
  BY <1>0, <1>2 DEF idt_set_descriptors
<1>3. CASE IRQ_clear_masks
  BY <1>0, <1>3 DEF IRQ_clear_masks
<1>4. CASE Lidt
  BY <1>0, <1>4 DEF Lidt
<1>5. CASE Sti
  BY <1>0, <1>5 DEF Sti
<1>6. CASE init_timer \/ init_keyboard
  BY <1>0, <1>6 DEF init_timer, init_keyboard
<1>7. CASE PIC_remap(32, 47)
  <2>1. offset' = [chip \in {1, 2} |-> IF chip = 1 THEN 32 ELSE 40]
    BY <1>7 DEF PIC_remap, IgnoredBits
  <2> QED  BY <1>0, <1>7, <2>1 DEF PIC_remap
<1>8. CASE Check \/ Hlt
  BY <1>0, <1>8 DEF Check, Hlt
<1> QED  BY <1>1, <1>2, <1>3, <1>4, <1>5, <1>6, <1>7, <1>8 DEF kmain

\* So do the call of timer_wait and a device that raises its line.
LEMMA WaitStep ==
  ASSUME Inv, NEW ticks \in Waits, timer_wait(ticks)
  PROVE  Inv'
<1> USE BootOrder DEF Inv, At, pic, cpu, Late, Loaded, Described, Remapped, timer_wait
<1>1. target' \in 0 .. MaxTicks
  BY LinesAssumption DEF TypeOK
<1>2. enabled' \in BOOLEAN /\ idt_loaded' \in BOOLEAN
  BY Flags DEF Next
<1> QED  BY <1>1, <1>2 DEF TypeOK, Booted, Quiet, Served

LEMMA RaiseStep ==
  ASSUME Inv, NEW line \in Lines, Raise(line)
  PROVE  Inv'
<1>1. enabled' \in BOOLEAN /\ idt_loaded' \in BOOLEAN
  BY Flags DEF Next, Inv
<1> QED  BY <1>1 DEF Raise, cpu, Inv, TypeOK, Booted, Quiet, Served

-----------------------------------------------------------------------------
\* An interrupt is taken only where the boot has prepared everything, and a line that
\* enters service is not held back by the timer or the keyboard, nor stands for one.
LEMMA DeliverStep ==
  ASSUME Inv, Deliver
  PROVE  Inv'
<1> USE BootOrder DEF Inv
<1>1. PICK line \in irr :
        /\ Highest(line)
        /\ irr' = irr \ {line}
        /\ isr' = isr \cup {line, OnFirst(line)}
        /\ running' = line
        /\ dispatched' = IF idt_loaded /\ Vector(line) \in gates THEN Vector(line) - 32 ELSE NONE
  BY DEF Deliver
<1>2. enabled' = FALSE /\ enabled /\ UNCHANGED <<imr, offset, gates, idt_loaded, timer_ticks, target>>
  BY DEF Deliver, AfterGate
<1>3. line \in Lines /\ line \in 0 .. 15 /\ line # 2 /\ line # NONE
  BY <1>1, LinesAssumption DEF TypeOK, NONE
<1>4. pc \in Late /\ pc' \in Late
  BY <1>2 DEF Deliver, Quiet, Late
<1>5. dispatched' = line
  <2>1. offset = [chip \in {1, 2} |-> IF chip = 1 THEN 32 ELSE 40]
    BY <1>4 DEF Booted, Remapped, Described, Loaded
  <2>2. Vector(line) = 32 + line
    BY <1>3, <2>1, VectorOfLine
  <2>3. idt_loaded /\ gates = 0 .. 47 \cup {128}
    BY <1>4 DEF Booted, Described, Loaded
  <2>4. Vector(line) \in gates /\ Vector(line) - 32 = line
    BY <1>3, <2>2, <2>3
  <2> QED  BY <1>1, <2>3, <2>4, Zenon
<1>6. isr' \cap {0, 1} \subseteq {line}
  <2>1. isr \cap {0, 1} = {}
    BY <1>2 DEF Quiet, Served, NONE
  <2>2. OnFirst(line) \notin {0, 1} \ {line}
    BY <1>3 DEF OnFirst, CASCADE_IRQ
  <2> QED  BY <1>1, <2>1, <2>2
<1>7. isr' \subseteq Lines \cup {CASCADE_IRQ}
  BY <1>1, <1>3 DEF TypeOK, OnFirst
<1>8. enabled' \in BOOLEAN /\ idt_loaded' \in BOOLEAN
  BY Flags DEF Next
<1> QED  BY <1>1, <1>2, <1>3, <1>4, <1>5, <1>6, <1>7, <1>8
      DEF TypeOK, Booted, Quiet, Served, Late, Loaded, Described, Remapped

\* The handler of the timer or of the keyboard ends the service of its own line; the
\* others leave in service only lines that hold back neither.
LEMMA HandlerStep ==
  ASSUME Inv, irq_handler
  PROVE  Inv'
<1> USE BootOrder DEF Inv
<1>1. dispatched = running /\ running \in Lines /\ pc \in Late
  BY DEF irq_handler, Quiet, TypeOK
<1>2. isr \in SUBSET Nat
  BY LinesAssumption DEF Served, CASCADE_IRQ
<1>3. isr' \cap {0, 1} = {} /\ isr' \subseteq isr
  <2>1. CASE running \in {0, 1} /\ running \in isr
    BY <1>1, <1>2, <2>1, EndOfFirst DEF irq_handler, Acknowledged, Served
  <2>2. CASE running \in {0, 1} /\ running \notin isr
    BY <1>1, <2>2 DEF irq_handler, Acknowledged, Served, AfterEoi, EndOf
  <2>3. CASE running \notin {0, 1}
    BY <1>1, <2>3 DEF irq_handler, Acknowledged, Served
  <2> QED  BY <2>1, <2>2, <2>3
<1>4. timer_ticks' \in 0 .. MaxTicks
  BY LinesAssumption DEF irq_handler, on_irq0, TypeOK
<1>5. enabled' \in BOOLEAN /\ idt_loaded' \in BOOLEAN
  BY Flags DEF Next
<1> QED  BY <1>1, <1>3, <1>4, <1>5
      DEF irq_handler, TypeOK, Booted, Quiet, Served, Late, Loaded, Described, Remapped, NONE

LEMMA InvInductive == Inv /\ [Next]_vars => Inv'
<1> SUFFICES ASSUME Inv, [Next]_vars PROVE Inv'
  OBVIOUS
<1>1. CASE Next
  BY <1>1, BootStep, WaitStep, RaiseStep, DeliverStep, HandlerStep DEF Next
<1>2. CASE UNCHANGED vars
  BY <1>2 DEF vars, pic, cpu, Inv, TypeOK, Booted, Quiet, Served
<1> QED  BY <1>1, <1>2

LEMMA Invariant == Spec => []Inv
BY InitInv, InvInductive, PTL DEF Spec

-----------------------------------------------------------------------------
\* The vectors, masks and flags stay in range, and interrupts are disabled while a
\* handler runs: handlers are never nested.
THEOREM TypeCorrect == Spec => []TypeOK
BY Invariant, PTL DEF Inv

\* An interrupt reaches irq_handler under the number of its own line, from the first
\* one on: the remapping with 47, the gates and the table register precede it.
THEOREM Dispatch == Spec => []DispatchedAsItself
<1>1. Inv => DispatchedAsItself
  BY DEF Inv, Quiet, DispatchedAsItself
<1> QED  BY <1>1, Invariant, PTL

\* Between handlers the timer and the keyboard are not held back, however many lines
\* without a handler are in service for ever.
THEOREM NotHeldBack == Spec => []DevicesNotHeldBack
<1>1. Inv => DevicesNotHeldBack
  <2> SUFFICES ASSUME Inv, running = NONE, idt_loaded, NEW line \in {0, 1}
               PROVE  ~ Blocked(line)
    BY DEF DevicesNotHeldBack
  <2>1. imr = {}
    BY DEF Inv, Booted, Loaded, Described, Remapped
  <2>2. isr \in SUBSET Nat /\ isr \cap {0, 1} = {}
    BY LinesAssumption DEF Inv, Served, NONE, CASCADE_IRQ
  <2>3. OnFirst(line) = line /\ Chip(line) = 1
    BY DEF OnFirst, Chip
  <2> QED  BY <2>1, <2>2, <2>3 DEF Blocked
<1> QED  BY <1>1, Invariant, PTL
=============================================================================
