-------------------------------- MODULE Keyboard ------------------------------
(***************************************************************************)
(* The keyboard, kernel/src/x86_64/interrupts/keyboard.c.  init_keyboard   *)
(* talks to the device by polling, while keyboard_handler runs for every   *)
(* byte the controller receives: idt_init has enabled interrupts before.   *)
(* The controller has a one-byte buffer in each direction; reading its     *)
(* empty output buffer returns the latest byte again.                      *)
(***************************************************************************)
EXTENDS Integers, Sequences, FiniteSets

CONSTANTS
  Attempts,     \* how often kb_send tries (10)
  Timeout,      \* polls of a wait (100000)
  MaxKeys       \* bound: key events after init_keyboard

ASSUME KeyboardAssumption == {Attempts, Timeout} \subseteq Nat \ {0} /\ MaxKeys \in Nat

\* Bytes from the keyboard: answers to commands, and scan codes.
ACK == 250
RESEND == 254
BAT == 170                              \* the scan code of a left shift released as well
LSHIFT == 42
CAPS == 58
LETTER == 30
Release(scancode) == scancode + 128
Scancodes == {LSHIFT, CAPS, LETTER}
Bytes == {ACK, RESEND, BAT} \cup Scancodes \cup {Release(s) : s \in Scancodes}

\* Bytes to the controller and to the keyboard.
DISABLE == 173
ENABLE == 174
RESET == 255
SCAN == 244
NONE == 0

VARIABLES
  pc,           \* the instruction of init_keyboard to execute
  attempt,      \* the count of kb_send
  timeout,      \* the count of the wait under way
  input,        \* the controller's input buffer
  full, data,   \* its output buffer: the status bit, the byte at the data port
  irq,          \* line 1 is requested
  interface,    \* the controller listens to the keyboard
  queue,        \* what the keyboard has to send
  shift_held, caps_lock,
  down, typed,  \* history: keys that are down, key events after init_keyboard
  lost          \* history: bytes sent over before the controller had taken them

controller == <<input, full, data, irq, interface>>
user == <<down, typed>>
modifiers == <<shift_held, caps_lock>>
vars == <<pc, attempt, timeout, controller, queue, modifiers, user, lost>>

-----------------------------------------------------------------------------
\* init_keyboard as a program over kb_flush, the waits and kb_send.
Op(name) == [op |-> name, byte |-> NONE]
Out(byte) == [op |-> "out", byte |-> byte]
kb_flush == <<Op("flush"), Op("discard")>>
kb_send(cmd) == <<Op("wait_write"), Out(cmd), Op("wait_read"), Op("response")>>

Program_NoEnable ==                     \* mutant: never enabled again
  kb_flush \o <<Op("wait_write"), Out(DISABLE)>> \o kb_flush \o kb_flush
    \o kb_send(RESET) \o <<Op("wait_read"), Op("in")>> \o kb_flush \o kb_send(SCAN) \o kb_flush
Program ==
  kb_flush \o <<Op("wait_write"), Out(DISABLE)>> \o kb_flush \o <<Op("wait_write"), Out(ENABLE)>>
    \o kb_flush \o kb_send(RESET) \o <<Op("wait_read"), Op("in")>>
    \o kb_flush \o kb_send(SCAN) \o kb_flush
Done == Len(Program) + 1

\* A wait gives up when its count is used up; its caller does not hear of it, and
\* reads or sends the byte all the same.
Expired_Never(count) == FALSE           \* mutant: no timeout
Expired(count) == count = 0

Goto(target) == pc' = target /\ timeout' = Timeout
Wait(ready) ==
  /\ IF ready \/ Expired(timeout - 1) THEN Goto(pc + 1)
     ELSE pc' = pc /\ timeout' = IF timeout > 1 THEN timeout - 1 ELSE timeout
  /\ UNCHANGED <<attempt, controller>>

\* kb_send tries again after any byte that is not the acknowledgement.
TriesAgain(resp) == resp # ACK /\ attempt + 1 < Attempts

\* inb(KB_DATA_PORT)
ReadData == full' = FALSE /\ UNCHANGED <<input, data, irq, interface>>

init_keyboard ==
  /\ pc # Done
  /\ LET op == Program[pc].op
     IN
     \/ op = "flush" /\ Goto(IF full THEN pc + 1 ELSE pc + 2) /\ UNCHANGED <<attempt, controller>>
     \/ op = "discard" /\ ReadData /\ Goto(pc - 1) /\ UNCHANGED attempt
     \/ op = "wait_write" /\ Wait(input = NONE)
     \/ op = "wait_read" /\ Wait(full)
     \/ op = "in" /\ ReadData /\ Goto(pc + 1) /\ UNCHANGED attempt
     \/ /\ op = "out" /\ input' = Program[pc].byte
        /\ Goto(pc + 1) /\ UNCHANGED <<attempt, full, data, irq, interface>>
     \/ /\ op = "response" /\ ReadData
        /\ IF TriesAgain(data)
           THEN Goto(pc - 3) /\ attempt' = attempt + 1
           ELSE Goto(pc + 1) /\ attempt' = 0
  /\ lost' = IF Program[pc].op = "out" THEN lost \cup ({input} \ {NONE}) ELSE lost
  /\ UNCHANGED <<queue, modifiers, user>>

\* The interrupt: nothing when the program was faster, else one byte.  Letters
\* are looked up in tables that are all zero, so that nothing is written for them.
Available_Input == input # NONE         \* mutant: the other status bit
Available == full
Toggles_Always(pressed) == TRUE         \* mutant: on release as well
Toggles(pressed) == pressed
keyboard_handler ==
  /\ irq
  /\ irq' = FALSE
  /\ LET pressed  == data < 128
         scancode == data % 128
     IN  IF ~ Available THEN UNCHANGED <<full, modifiers>>
         ELSE /\ full' = FALSE
              /\ shift_held' = IF scancode \in {42, 54} THEN pressed ELSE shift_held
              /\ caps_lock' = IF scancode = 58 /\ Toggles(pressed) THEN ~ caps_lock ELSE caps_lock
  /\ UNCHANGED <<pc, attempt, timeout, input, data, interface, queue, user, lost>>

-----------------------------------------------------------------------------
\* The controller takes its own commands, and passes others to the keyboard, which
\* acknowledges a command or asks for it again; a reset drops what it had to send.
TakeCommand ==
  /\ input # NONE
  /\ input' = NONE
  /\ interface' = CASE input = DISABLE -> FALSE [] input = ENABLE -> TRUE [] OTHER -> interface
  /\ queue' \in CASE input = RESET -> {<<ACK, BAT>>, queue \o <<RESEND>>}
                  [] input = SCAN -> {queue \o <<ACK>>, queue \o <<RESEND>>}
                  [] OTHER -> {queue}
  /\ UNCHANGED <<pc, attempt, timeout, full, data, irq, modifiers, user, lost>>

\* The next byte from the keyboard fills the output buffer and raises line 1.
Transfer ==
  /\ interface /\ ~ full /\ queue # <<>>
  /\ full' = TRUE /\ data' = Head(queue) /\ queue' = Tail(queue)
  /\ irq' = TRUE
  /\ UNCHANGED <<pc, attempt, timeout, input, interface, modifiers, user, lost>>

\* Somebody presses or releases a key.
Key(scancode) ==
  /\ pc = Done /\ input = NONE
  /\ Len(typed) < MaxKeys
  /\ LET byte == IF scancode \in down THEN Release(scancode) ELSE scancode
     IN  queue' = queue \o <<byte>> /\ typed' = typed \o <<byte>>
  /\ down' = IF scancode \in down THEN down \ {scancode} ELSE down \cup {scancode}
  /\ UNCHANGED <<pc, attempt, timeout, controller, modifiers, lost>>

\* The boot menu may have left a byte in the controller.
Init ==
  /\ pc = 1 /\ attempt = 0 /\ timeout = Timeout
  /\ input = NONE /\ interface = TRUE
  /\ full \in BOOLEAN /\ data \in {LETTER, Release(LETTER)} /\ irq = full
  /\ queue \in {<<>>, <<Release(LETTER)>>}
  /\ shift_held = FALSE /\ caps_lock = FALSE
  /\ down = {} /\ typed = <<>> /\ lost = {}

Next ==
  \/ init_keyboard \/ keyboard_handler
  \/ TakeCommand \/ Transfer
  \/ \E scancode \in Scancodes : Key(scancode)

\* The processor executes and takes interrupts; the devices answer some time.
Fairness ==
  WF_vars(init_keyboard) /\ WF_vars(keyboard_handler) /\ WF_vars(TakeCommand) /\ WF_vars(Transfer)

Spec == Init /\ [][Next]_vars /\ Fairness

-----------------------------------------------------------------------------
\* init_keyboard comes to its end, also when the interrupt handler takes the bytes
\* it is polling for, and when the keyboard asks for a command again and again.
InitEnds == <>(pc = Done)

\* At the end the controller listens to the keyboard: "Re-enable keyboard interface"
\* is undone by no later command, by no retry and by no wait for an answer that gives
\* up.  One thing undoes it: the controller has taken DISABLE, and is then too slow to
\* take ENABLE before kb_wait_write gives up and the next command is sent over it.
InterfaceEnabled == (pc = Done) ~> interface \/ (ENABLE \in lost /\ DISABLE \notin lost)

\* A byte never stays in the controller, where it would block all that follow: it
\* is read by the program or by the handler, whoever comes first.
BufferDrains == full ~> ~ full

\* "Keyboard state tracking": once everything typed has arrived, the handler knows
\* the keys that are down and the parity of Caps Lock, whatever bytes of the
\* initialization it was given in between.
Presses(scancode) == Cardinality({k \in 1 .. Len(typed) : typed[k] = scancode})
ModifiersTrack ==
  pc = Done /\ input = NONE /\ queue = <<>> /\ ~ full =>
    /\ shift_held = (LSHIFT \in down)
    /\ caps_lock = (Presses(CAPS) % 2 = 1)
=============================================================================
