----------------------------- MODULE KeyboardProofs ---------------------------
(***************************************************************************)
(* The handler's modifiers follow the keys, for every bound of the waits,  *)
(* the attempts and the key events.  The inductive invariant looks at the  *)
(* bytes that are on their way: once the handler has taken them, in their  *)
(* order, it is where the user is.  What may still arrive from before the  *)
(* first key event can release the shift key, but neither press it nor     *)
(* touch Caps Lock.                                                        *)
(***************************************************************************)
EXTENDS Keyboard, FiniteSetTheorems, FunctionTheorems, SequenceTheorems, TLAPS

-----------------------------------------------------------------------------
(* Counting in a sequence.                                                 *)

Count(s, b) == Cardinality({k \in 1 .. Len(s) : s[k] = b})

LEMMA CountType ==
  ASSUME NEW s \in Seq(Nat), NEW b
  PROVE  Count(s, b) \in Nat /\ IsFiniteSet({k \in 1 .. Len(s) : s[k] = b})
<1>1. IsFiniteSet(1 .. Len(s))
  BY FS_Interval, Len(s) \in Int, 1 \in Int
<1>2. {k \in 1 .. Len(s) : s[k] = b} \in SUBSET (1 .. Len(s))
  OBVIOUS
<1>3. IsFiniteSet({k \in 1 .. Len(s) : s[k] = b})
  BY <1>1, <1>2, FS_Subset
<1> QED  BY <1>3, FS_CardinalityType DEF Count

LEMMA CountEmpty ==
  ASSUME NEW b
  PROVE  Count(<<>>, b) = 0
<1>1. {k \in 1 .. Len(<<>>) : <<>>[k] = b} = {}
  OBVIOUS
<1> QED  BY <1>1, FS_EmptySet DEF Count

LEMMA CountAppend ==
  ASSUME NEW s \in Seq(Nat), NEW x \in Nat, NEW b
  PROVE  Count(s \o <<x>>, b) = IF x = b THEN Count(s, b) + 1 ELSE Count(s, b)
<1> DEFINE t == s \o <<x>>
           S == {k \in 1 .. Len(s) : s[k] = b}
           T == {k \in 1 .. Len(t) : t[k] = b}
<1>1. /\ t \in Seq(Nat) /\ Len(t) = Len(s) + 1 /\ Len(s) \in Nat
      /\ t[Len(s) + 1] = x /\ \A k \in 1 .. Len(s) : t[k] = s[k]
  OBVIOUS
<1>2. IsFiniteSet(S) /\ Len(s) + 1 \notin S
  <2>1. IsFiniteSet(S)
    BY CountType
  <2> QED  BY <1>1, <2>1
<1> HIDE DEF t
<1>3. CASE x = b
  <2>1. T = S \cup {Len(s) + 1}
    BY <1>1, <1>3
  <2> QED  BY <1>2, <1>3, <2>1, FS_AddElement DEF Count, t
<1>4. CASE x # b
  <2>1. T = S
    BY <1>1, <1>4
  <2> QED  BY <1>4, <2>1 DEF Count, t
<1> QED  BY <1>3, <1>4

LEMMA CountTail ==
  ASSUME NEW s \in Seq(Nat), s # <<>>, NEW b
  PROVE  Count(s, b) = IF Head(s) = b THEN Count(Tail(s), b) + 1 ELSE Count(Tail(s), b)
<1> DEFINE t == Tail(s)
           S == {k \in 1 .. Len(s) : s[k] = b}
           T == {k \in 1 .. Len(t) : t[k] = b}
           f == [k \in T |-> k + 1]
<1>1. /\ t \in Seq(Nat) /\ Len(t) = Len(s) - 1 /\ Len(s) \in Nat \ {0}
      /\ \A k \in 1 .. Len(t) : t[k] = s[k + 1]
      /\ Head(s) = s[1]
  BY HeadTailProperties
<1>2. IsFiniteSet(S) /\ IsFiniteSet(T)
  BY <1>1, CountType
<1> HIDE DEF t
<1>3. f \in [T -> S \ {1}]
  <2>1. \A k \in T : k + 1 \in S /\ k + 1 # 1
    BY <1>1
  <2> QED  BY <2>1
<1>4. \A i, j \in T : f[i] = f[j] => i = j
  BY <1>1
<1>5. \A k \in S \ {1} : \E j \in T : f[j] = k
  <2> SUFFICES ASSUME NEW k \in S \ {1} PROVE k - 1 \in T /\ f[k - 1] = k
    OBVIOUS
  <2>1. k - 1 \in 1 .. Len(t) /\ (k - 1) + 1 = k
    BY <1>1
  <2>2. t[k - 1] = s[k]
    BY <1>1, <2>1
  <2> QED  BY <2>1, <2>2
<1>6. f \in Bijection(T, S \ {1})
  BY <1>3, <1>4, <1>5 DEF Bijection, Injection, Surjection, IsInjective
<1>7. ExistsBijection(T, S \ {1})
  BY <1>6 DEF ExistsBijection
<1>8. Cardinality(S \ {1}) = Cardinality(T)
  BY <1>2, <1>7, FS_Bijection
<1>9. Cardinality(S \ {1}) = IF 1 \in S THEN Cardinality(S) - 1 ELSE Cardinality(S)
  BY <1>2, FS_RemoveElement
<1>10. 1 \in S <=> Head(s) = b
  BY <1>1
<1>11. Cardinality(S) \in Nat /\ Cardinality(T) \in Nat
  BY <1>2, FS_CardinalityType
<1> HIDE DEF S, T, f
<1>12. Cardinality(S) = IF Head(s) = b THEN Cardinality(T) + 1 ELSE Cardinality(T)
  BY <1>8, <1>9, <1>10, <1>11
<1> QED  BY <1>12 DEF Count, S, T, t

-----------------------------------------------------------------------------
(* The invariant.                                                          *)

\* What the handler will be given, if nobody else takes it.
Pending == (IF full THEN <<data>> ELSE <<>>) \o queue

\* The bytes that set shift_held.
IsShift(b) == b % 128 \in {42, 54}

\* Once the handler has had the bytes s, shift_held is what the last of them says,
\* or what it was.
ShiftSettles(s, held, final) ==
  /\ \A k \in 1 .. Len(s) :
       IsShift(s[k]) /\ (\A j \in k + 1 .. Len(s) : ~ IsShift(s[j])) => (final <=> s[k] < 128)
  /\ (\A k \in 1 .. Len(s) : ~ IsShift(s[k])) => (final <=> held)

\* And caps_lock has changed with each press among them, the last being the press n.
CapsSettles(s, caps, n) == \E m \in Nat : n = m + Count(s, CAPS) /\ (caps <=> m % 2 = 1)

\* Bytes from before the first key event.
Early(s) == \A k \in 1 .. Len(s) : (IsShift(s[k]) => s[k] >= 128) /\ s[k] # CAPS

ProofTypeOK ==
  /\ full \in BOOLEAN /\ shift_held \in BOOLEAN /\ caps_lock \in BOOLEAN
  /\ data \in Nat /\ queue \in Seq(Nat) /\ typed \in Seq(Nat) /\ down \subseteq Scancodes

IInv ==
  /\ ProofTypeOK
  /\ typed # <<>> => pc = Done /\ input = NONE
  /\ typed = <<>> => down = {} /\ ~ shift_held /\ ~ caps_lock /\ Early(Pending)
  /\ ShiftSettles(Pending, shift_held, LSHIFT \in down)
  /\ CapsSettles(Pending, caps_lock, Presses(CAPS))

\* Before the first key event there is nothing to settle.
LEMMA EarlySettles ==
  ASSUME NEW s \in Seq(Nat), Early(s), NEW held \in BOOLEAN, ~ held, NEW caps \in BOOLEAN, ~ caps
  PROVE  ShiftSettles(s, held, FALSE) /\ CapsSettles(s, caps, 0)
<1>1. ShiftSettles(s, held, FALSE)
  BY DEF ShiftSettles, Early
<1>2. Count(s, CAPS) = 0
  <2>1. {k \in 1 .. Len(s) : s[k] = CAPS} = {}
    BY DEF Early
  <2> QED  BY <2>1, FS_EmptySet DEF Count
<1>3. 0 = 0 + Count(s, CAPS) /\ (caps <=> 0 % 2 = 1) /\ 0 \in Nat
  BY <1>2
<1> QED  BY <1>1, <1>3 DEF CapsSettles

LEMMA NoPresses == typed = <<>> => Presses(CAPS) = 0
<1> SUFFICES ASSUME typed = <<>> PROVE Presses(CAPS) = 0
  OBVIOUS
<1>1. Presses(CAPS) = Count(<<>>, CAPS)
  BY DEF Presses, Count
<1> QED  BY <1>1, CountEmpty

\* The invariant as long as nobody has typed.
EarlyState ==
  ProofTypeOK /\ typed = <<>> /\ down = {} /\ ~ shift_held /\ ~ caps_lock /\ Early(Pending)

LEMMA EarlyInvariant == EarlyState => IInv
<1> SUFFICES ASSUME EarlyState PROVE IInv
  OBVIOUS
<1>1. Pending \in Seq(Nat)
  BY DEF EarlyState, ProofTypeOK, Pending
<1>2. ShiftSettles(Pending, shift_held, FALSE) /\ CapsSettles(Pending, caps_lock, 0)
  BY <1>1, EarlySettles DEF EarlyState, ProofTypeOK
<1>3. (LSHIFT \in down) = FALSE /\ Presses(CAPS) = 0
  BY NoPresses DEF EarlyState
<1> QED  BY <1>2, <1>3 DEF EarlyState, IInv

\* The handler takes the first byte.
LEMMA TakeSettles ==
  ASSUME NEW s \in Seq(Nat), s # <<>>, NEW held \in BOOLEAN, NEW final \in BOOLEAN,
         NEW caps \in BOOLEAN, NEW n \in Nat,
         ShiftSettles(s, held, final), CapsSettles(s, caps, n)
  PROVE  /\ ShiftSettles(Tail(s), IF IsShift(Head(s)) THEN Head(s) < 128 ELSE held, final)
         /\ CapsSettles(Tail(s), IF Head(s) = CAPS THEN ~ caps ELSE caps, n)
<1> DEFINE t == Tail(s)
<1>1. /\ t \in Seq(Nat) /\ Len(t) = Len(s) - 1 /\ Len(s) \in Nat \ {0} /\ Len(t) \in Nat
      /\ \A k \in 1 .. Len(t) : t[k] = s[k + 1]
      /\ Head(s) = s[1] /\ s[1] \in Nat
  BY HeadTailProperties
<1> HIDE DEF t
<1>2. ASSUME NEW k \in 1 .. Len(t), IsShift(t[k]), \A j \in k + 1 .. Len(t) : ~ IsShift(t[j])
      PROVE  final <=> t[k] < 128
  <2>1. k + 1 \in 1 .. Len(s) /\ s[k + 1] = t[k]
    BY <1>1
  <2>2. ASSUME NEW j \in (k + 1) + 1 .. Len(s) PROVE ~ IsShift(s[j])
    <3>1. j - 1 \in k + 1 .. Len(t) /\ j - 1 \in 1 .. Len(t) /\ (j - 1) + 1 = j
      BY <1>1
    <3>2. t[j - 1] = s[j]
      BY <1>1, <3>1
    <3> QED  BY <1>2, <3>1, <3>2
  <2> QED  BY <1>2, <2>1, <2>2 DEF ShiftSettles
<1>3. ASSUME \A k \in 1 .. Len(t) : ~ IsShift(t[k])
      PROVE  final <=> IF IsShift(Head(s)) THEN Head(s) < 128 ELSE held
  <2>1. ASSUME NEW j \in 1 + 1 .. Len(s) PROVE ~ IsShift(s[j])
    <3>1. j - 1 \in 1 .. Len(t) /\ (j - 1) + 1 = j
      BY <1>1
    <3> QED  BY <1>1, <1>3, <3>1
  <2>2. CASE IsShift(s[1])
    <3>1. 1 \in 1 .. Len(s)
      BY <1>1
    <3> QED  BY <1>1, <2>1, <2>2, <3>1 DEF ShiftSettles
  <2>3. CASE ~ IsShift(s[1])
    <3>1. \A k \in 1 .. Len(s) : k = 1 \/ k \in 1 + 1 .. Len(s)
      BY <1>1
    <3> QED  BY <1>1, <2>1, <2>3, <3>1 DEF ShiftSettles
  <2> QED  BY <2>2, <2>3
<1>4. ShiftSettles(t, IF IsShift(Head(s)) THEN Head(s) < 128 ELSE held, final)
  BY <1>2, <1>3 DEF ShiftSettles
<1>5. CapsSettles(t, IF Head(s) = CAPS THEN ~ caps ELSE caps, n)
  <2>1. PICK m \in Nat : n = m + Count(s, CAPS) /\ (caps <=> m % 2 = 1)
    BY DEF CapsSettles
  <2>2. Count(t, CAPS) \in Nat
    BY <1>1, CountType
  <2>3. CASE Head(s) = CAPS
    <3>1. n = (m + 1) + Count(t, CAPS)
      BY <2>1, <2>2, <2>3, CountTail DEF t
    <3>2. ((m + 1) % 2 = 1) <=> ~ (m % 2 = 1)
      OBVIOUS
    <3> QED  BY <2>1, <2>3, <3>1, <3>2, m + 1 \in Nat DEF CapsSettles
  <2>4. CASE Head(s) # CAPS
    <3>1. n = m + Count(t, CAPS)
      BY <2>1, <2>4, CountTail DEF t
    <3> QED  BY <2>1, <2>4, <3>1 DEF CapsSettles
  <2> QED  BY <2>3, <2>4
<1> QED  BY <1>4, <1>5 DEF t

\* The user adds one at the end.
LEMMA TypeSettles ==
  ASSUME NEW s \in Seq(Nat), NEW b \in Nat, NEW held \in BOOLEAN, NEW final \in BOOLEAN,
         NEW caps \in BOOLEAN, NEW n \in Nat,
         ShiftSettles(s, held, final), CapsSettles(s, caps, n)
  PROVE  /\ ShiftSettles(s \o <<b>>, held, IF IsShift(b) THEN b < 128 ELSE final)
         /\ CapsSettles(s \o <<b>>, caps, IF b = CAPS THEN n + 1 ELSE n)
<1> DEFINE t == s \o <<b>>
<1>1. /\ t \in Seq(Nat) /\ Len(t) = Len(s) + 1 /\ Len(s) \in Nat
      /\ t[Len(s) + 1] = b /\ \A k \in 1 .. Len(s) : t[k] = s[k]
  OBVIOUS
<1> HIDE DEF t
<1>2. ShiftSettles(t, held, IF IsShift(b) THEN b < 128 ELSE final)
  <2>1. CASE IsShift(b)
    <3>1. ASSUME NEW k \in 1 .. Len(t), \A j \in k + 1 .. Len(t) : ~ IsShift(t[j])
          PROVE  k = Len(t)
      <4> SUFFICES ASSUME k # Len(t) PROVE FALSE
        OBVIOUS
      <4>1. Len(t) \in k + 1 .. Len(t)
        BY <1>1
      <4> QED  BY <1>1, <2>1, <3>1, <4>1
    <3>2. Len(t) \in 1 .. Len(t) /\ t[Len(t)] = b
      BY <1>1
    <3> QED  BY <2>1, <3>1, <3>2 DEF ShiftSettles
  <2>2. CASE ~ IsShift(b)
    <3>1. ASSUME NEW k \in 1 .. Len(t), IsShift(t[k]), \A j \in k + 1 .. Len(t) : ~ IsShift(t[j])
          PROVE  final <=> t[k] < 128
      <4>1. k \in 1 .. Len(s) /\ t[k] = s[k]
        BY <1>1, <2>2, <3>1
      <4>2. \A j \in k + 1 .. Len(s) : ~ IsShift(s[j])
        BY <1>1, <3>1, <4>1
      <4> QED  BY <3>1, <4>1, <4>2 DEF ShiftSettles
    <3>2. ASSUME \A k \in 1 .. Len(t) : ~ IsShift(t[k]) PROVE final <=> held
      <4>1. \A k \in 1 .. Len(s) : ~ IsShift(s[k])
        BY <1>1, <3>2
      <4> QED  BY <4>1 DEF ShiftSettles
    <3> QED  BY <2>2, <3>1, <3>2 DEF ShiftSettles
  <2> QED  BY <2>1, <2>2
<1>3. CapsSettles(t, caps, IF b = CAPS THEN n + 1 ELSE n)
  <2>1. PICK m \in Nat : n = m + Count(s, CAPS) /\ (caps <=> m % 2 = 1)
    BY DEF CapsSettles
  <2>2. Count(t, CAPS) = IF b = CAPS THEN Count(s, CAPS) + 1 ELSE Count(s, CAPS)
    BY CountAppend DEF t
  <2>3. Count(s, CAPS) \in Nat
    BY CountType
  <2>4. (IF b = CAPS THEN n + 1 ELSE n) = m + Count(t, CAPS)
    BY <2>1, <2>2, <2>3
  <2> QED  BY <2>1, <2>4 DEF CapsSettles
<1> QED  BY <1>2, <1>3 DEF t

-----------------------------------------------------------------------------
(* The steps.                                                              *)

LEMMA InitInvariant == Init => IInv
<1> SUFFICES ASSUME Init PROVE IInv
  OBVIOUS
<1>1. /\ full \in BOOLEAN /\ data \in {30, 158} /\ queue \in {<<>>, <<158>>}
      /\ shift_held = FALSE /\ caps_lock = FALSE /\ down = {} /\ typed = <<>>
  BY DEF Init, LETTER, Release
<1>2. ProofTypeOK
  <2>1. <<>> \in Seq(Nat) /\ <<158>> \in Seq(Nat)
    OBVIOUS
  <2>2. queue \in Seq(Nat) /\ typed \in Seq(Nat)
    BY <1>1, <2>1
  <2>3. data \in Nat /\ down \subseteq Scancodes
    BY <1>1
  <2>4. shift_held \in BOOLEAN /\ caps_lock \in BOOLEAN
    BY <1>1
  <2> QED  BY <1>1, <2>2, <2>3, <2>4 DEF ProofTypeOK
<1>3. \A k \in 1 .. Len(Pending) : Pending[k] \in {30, 158}
  <2>1. \A k \in 1 .. Len(queue) : queue[k] \in {30, 158}
    <3>1. CASE queue = <<>>
      BY <3>1
    <3>2. CASE queue = <<158>>
      BY <3>2
    <3> QED  BY <1>1, <3>1, <3>2
  <2>2. queue \in Seq(Nat) /\ data \in Nat
    BY <1>2 DEF ProofTypeOK
  <2>3. CASE full
    <3>1. Pending = <<data>> \o queue
      BY <2>3 DEF Pending
    <3>2. \A k \in 1 .. Len(Pending) :
            Pending[k] = data \/ (k - 1 \in 1 .. Len(queue) /\ Pending[k] = queue[k - 1])
      BY <2>2, <3>1
    <3> QED  BY <1>1, <2>1, <3>2
  <2>4. CASE ~ full
    <3>1. Pending = queue
      BY <2>2, <2>4 DEF Pending
    <3> QED  BY <2>1, <3>1
  <2> QED  BY <1>1, <2>3, <2>4
<1>4. ~ IsShift(30) /\ ~ IsShift(158) /\ CAPS = 58
  BY DEF IsShift, CAPS
<1>5. Early(Pending)
  BY <1>3, <1>4 DEF Early
<1> QED  BY <1>1, <1>2, <1>5, EarlyInvariant DEF EarlyState

\* The polling program touches nothing but the data register, and only before the
\* first key event.
LEMMA ProgramStep ==
  ASSUME IInv, init_keyboard
  PROVE  IInv'
<1>1. /\ pc # Done /\ UNCHANGED <<queue, shift_held, caps_lock, down, typed, data>>
      /\ full' = full \/ full' = FALSE
  BY DEF init_keyboard, ReadData, Wait, controller, modifiers, user
<1>2. /\ ProofTypeOK /\ typed = <<>> /\ down = {} /\ ~ shift_held /\ ~ caps_lock /\ Early(Pending)
  BY <1>1 DEF IInv
<1>3. ProofTypeOK'
  BY <1>1, <1>2 DEF ProofTypeOK
<1>4. Early(Pending')
  <2>1. CASE full' = full
    BY <1>1, <1>2, <2>1 DEF Pending
  <2>2. CASE full /\ ~ full'
    <3>1. Pending = <<data>> \o queue /\ Pending' = queue /\ queue \in Seq(Nat) /\ data \in Nat
      BY <1>1, <1>2, <2>2 DEF Pending, ProofTypeOK
    <3>2. /\ Len(Pending) = Len(queue) + 1
          /\ \A k \in 1 .. Len(queue) : k + 1 \in 1 .. Len(Pending) /\ Pending[k + 1] = queue[k]
      BY <3>1
    <3> QED  BY <1>2, <3>1, <3>2 DEF Early
  <2> QED  BY <1>1, <1>2, <2>1, <2>2 DEF ProofTypeOK
<1>5. Early(Pending)'
  BY <1>4 DEF Early
<1>6. EarlyState'
  BY <1>1, <1>2, <1>3, <1>5 DEF EarlyState
<1> QED  BY <1>6, EarlyInvariant, PTL

\* The handler takes the byte in the buffer, if there is one.
LEMMA HandlerStep ==
  ASSUME IInv, keyboard_handler
  PROVE  IInv'
<1>1. ProofTypeOK /\ UNCHANGED <<pc, input, data, queue, down, typed>>
  BY DEF keyboard_handler, IInv, user
<1>2. CASE ~ full
  <2>1. UNCHANGED <<full, shift_held, caps_lock>>
    BY <1>2 DEF keyboard_handler, Available, modifiers
  <2>2. UNCHANGED <<pc, input, full, data, queue, shift_held, caps_lock, down, typed>>
    BY <1>1, <2>1
  <2> QED  BY <2>2 DEF IInv, ProofTypeOK, Pending, Presses
<1>3. CASE full
  <2>1. /\ Pending = <<data>> \o queue /\ queue \in Seq(Nat) /\ data \in Nat
    BY <1>1, <1>3 DEF Pending, ProofTypeOK
  <2>2. Pending \in Seq(Nat) /\ Pending # <<>> /\ Head(Pending) = data /\ Tail(Pending) = queue
    BY <2>1
  <2>3. full' = FALSE /\ Pending' = queue
    <3>1. full' = FALSE
      BY <1>3 DEF keyboard_handler, Available
    <3> QED  BY <1>1, <2>1, <3>1 DEF Pending
  <2>4. shift_held' = IF IsShift(data) THEN data < 128 ELSE shift_held
    BY <1>3 DEF keyboard_handler, Available, IsShift
  <2>5. caps_lock' = IF data = CAPS THEN ~ caps_lock ELSE caps_lock
    <3>1. (data % 128 = 58 /\ data < 128) <=> data = 58
      <4>1. data \in Nat
        BY <2>1
      <4> QED  BY ONLY <4>1
    <3> QED  BY <1>3, <3>1 DEF keyboard_handler, Available, Toggles, CAPS
  <2>6. ProofTypeOK'
    <3>1. shift_held' \in BOOLEAN /\ caps_lock' \in BOOLEAN
      <4>1. shift_held \in BOOLEAN /\ caps_lock \in BOOLEAN
        BY <1>1 DEF ProofTypeOK
      <4>2. shift_held' \in BOOLEAN
        <5>1. (data < 128) \in BOOLEAN
          BY <2>1
        <5> QED  BY <2>4, <4>1, <5>1, Zenon
      <4>3. caps_lock' \in BOOLEAN
        BY <2>5, <4>1, Zenon
      <4> QED  BY <4>2, <4>3
    <3> QED  BY <1>1, <2>3, <3>1 DEF ProofTypeOK
  <2>7. Presses(CAPS)' = Presses(CAPS) /\ Presses(CAPS) \in Nat
    <3>1. Presses(CAPS) = Count(typed, CAPS)
      BY DEF Presses, Count
    <3> QED  BY <1>1, <3>1, CountType DEF Presses, ProofTypeOK
  <2>8. /\ ShiftSettles(Tail(Pending), IF IsShift(Head(Pending)) THEN Head(Pending) < 128 ELSE shift_held, LSHIFT \in down)
        /\ CapsSettles(Tail(Pending), IF Head(Pending) = CAPS THEN ~ caps_lock ELSE caps_lock, Presses(CAPS))
    <3>1. (LSHIFT \in down) \in BOOLEAN /\ shift_held \in BOOLEAN /\ caps_lock \in BOOLEAN
      BY <1>1 DEF ProofTypeOK
    <3>2. ShiftSettles(Pending, shift_held, LSHIFT \in down) /\ CapsSettles(Pending, caps_lock, Presses(CAPS))
      BY DEF IInv
    <3> QED  BY <2>2, <2>7, <3>1, <3>2, TakeSettles
  <2>9. ShiftSettles(Pending', shift_held', LSHIFT \in down') /\ CapsSettles(Pending', caps_lock', Presses(CAPS)')
    BY <1>1, <2>2, <2>3, <2>4, <2>5, <2>7, <2>8
  <2>10. typed = <<>> => ~ shift_held' /\ ~ caps_lock' /\ Early(Pending')
    <3> SUFFICES ASSUME typed = <<>> PROVE ~ shift_held' /\ ~ caps_lock' /\ Early(Pending')
      OBVIOUS
    <3>1. Early(Pending) /\ ~ shift_held /\ ~ caps_lock
      BY DEF IInv
    <3>2. /\ Pending[1] = data /\ 1 \in 1 .. Len(Pending)
          /\ \A k \in 1 .. Len(queue) : k + 1 \in 1 .. Len(Pending) /\ Pending[k + 1] = queue[k]
      BY <2>1
    <3>3. Early(queue)
      BY <3>1, <3>2 DEF Early
    <3>4. (IsShift(data) => data >= 128) /\ data # CAPS
      BY <3>1, <3>2 DEF Early
    <3>5. IsShift(data) => ~ (data < 128)
      BY <2>1, <3>4
    <3>6. ~ shift_held'
      BY <2>4, <3>1, <3>5, Zenon
    <3>7. ~ caps_lock'
      BY <2>5, <3>1, <3>4, Zenon
    <3> QED  BY <2>3, <3>3, <3>6, <3>7
  <2>11. /\ typed' # <<>> => pc' = Done /\ input' = NONE
         /\ typed' = <<>> => down' = {}
    BY <1>1 DEF IInv
  <2> QED  BY <1>1, <2>6, <2>9, <2>10, <2>11 DEF IInv, Early, ShiftSettles, CapsSettles
<1> QED  BY <1>1, <1>2, <1>3 DEF ProofTypeOK

\* The byte at the head of the queue moves to the buffer.
LEMMA TransferStep ==
  ASSUME IInv, Transfer
  PROVE  IInv'
<1>1. /\ ~ full /\ queue # <<>> /\ full' = TRUE /\ data' = Head(queue) /\ queue' = Tail(queue)
      /\ UNCHANGED <<pc, input, shift_held, caps_lock, down, typed>>
  BY DEF Transfer, modifiers, user
<1>2. ProofTypeOK
  BY DEF IInv
<1>3. queue \in Seq(Nat) /\ Head(queue) \in Nat /\ Tail(queue) \in Seq(Nat) /\ queue = <<Head(queue)>> \o Tail(queue)
  BY <1>1, <1>2 DEF ProofTypeOK
<1>4. Pending' = Pending
  <2>1. Pending = queue
    BY <1>1, <1>3 DEF Pending
  <2>2. Pending' = <<Head(queue)>> \o Tail(queue)
    BY <1>1 DEF Pending
  <2> QED  BY <1>3, <2>1, <2>2
<1>5. ProofTypeOK'
  BY <1>1, <1>2, <1>3 DEF ProofTypeOK
<1>6. Presses(CAPS)' = Presses(CAPS)
  BY <1>1 DEF Presses
<1>7. /\ ShiftSettles(Pending, shift_held, LSHIFT \in down)'
      /\ CapsSettles(Pending, caps_lock, Presses(CAPS))'
      /\ typed' = <<>> => Early(Pending)'
  BY <1>1, <1>4, <1>6 DEF IInv, ShiftSettles, CapsSettles, Early
<1> QED  BY <1>1, <1>5, <1>7 DEF IInv

\* A command may drop the queue and adds answers to it, before the first key event.
LEMMA CommandStep ==
  ASSUME IInv, TakeCommand
  PROVE  IInv'
<1>1. /\ input # NONE /\ UNCHANGED <<pc, full, data, shift_held, caps_lock, down, typed>>
      /\ queue' \in {<<ACK, BAT>>, queue \o <<RESEND>>, queue \o <<ACK>>, queue}
  BY DEF TakeCommand, modifiers, user
<1>2. ProofTypeOK /\ typed = <<>> /\ down = {} /\ ~ shift_held /\ ~ caps_lock /\ Early(Pending)
  BY <1>1 DEF IInv
<1>3. /\ queue \in Seq(Nat) /\ data \in Nat /\ full \in BOOLEAN
      /\ ACK = 250 /\ BAT = 170 /\ RESEND = 254 /\ CAPS = 58
  BY <1>2 DEF ProofTypeOK, ACK, BAT, RESEND, CAPS
<1>4. queue' \in Seq(Nat) /\ \A k \in 1 .. Len(queue') :
        \/ queue'[k] \in {ACK, BAT, RESEND}
        \/ k \in 1 .. Len(queue) /\ queue'[k] = queue[k]
  <2>1. CASE queue' = <<ACK, BAT>>
    BY <1>3, <2>1
  <2>2. CASE queue' = queue \o <<RESEND>>
    BY <1>3, <2>2
  <2>3. CASE queue' = queue \o <<ACK>>
    BY <1>3, <2>3
  <2>4. CASE queue' = queue
    BY <1>3, <2>4
  <2> QED  BY <1>1, <2>1, <2>2, <2>3, <2>4
<1>5. Early(Pending')
  <2>1. \A k \in 1 .. Len(queue) : (IsShift(queue[k]) => queue[k] >= 128) /\ queue[k] # CAPS
    <3>1. CASE full
      <4>1. /\ Pending = <<data>> \o queue
            /\ \A k \in 1 .. Len(queue) : k + 1 \in 1 .. Len(Pending) /\ Pending[k + 1] = queue[k]
        BY <1>3, <3>1, SMTT(30) DEF Pending
      <4> QED  BY <1>2, <4>1 DEF Early
    <3>2. CASE ~ full
      BY <1>2, <1>3, <3>2 DEF Pending, Early
    <3> QED  BY <3>1, <3>2
  <2>2. \A k \in 1 .. Len(queue') : (IsShift(queue'[k]) => queue'[k] >= 128) /\ queue'[k] # CAPS
    <3>1. \A b \in {ACK, BAT, RESEND} : (IsShift(b) => b >= 128) /\ b # CAPS
      BY <1>3 DEF IsShift
    <3> QED  BY <1>4, <2>1, <3>1
  <2>3. CASE full
    <3>1. (IsShift(data) => data >= 128) /\ data # CAPS
      <4>1. Pending[1] = data /\ 1 \in 1 .. Len(Pending)
        BY <1>3, <2>3 DEF Pending
      <4> QED  BY <1>2, <4>1 DEF Early
    <3>2. Pending' = <<data>> \o queue'
      BY <1>1, <2>3 DEF Pending
    <3>3. \A k \in 1 .. Len(Pending') :
            \/ Pending'[k] = data
            \/ k - 1 \in 1 .. Len(queue') /\ Pending'[k] = queue'[k - 1]
      BY <1>3, <1>4, <3>2
    <3> QED  BY <2>2, <3>1, <3>3 DEF Early
  <2>4. CASE ~ full
    <3>1. Pending' = queue'
      BY <1>1, <1>4, <2>4 DEF Pending
    <3> QED  BY <2>2, <3>1 DEF Early
  <2> QED  BY <2>3, <2>4
<1>6. ProofTypeOK'
  BY <1>1, <1>2, <1>4 DEF ProofTypeOK
<1>7. EarlyState'
  BY <1>1, <1>2, <1>5, <1>6 DEF EarlyState, Early
<1> QED  BY <1>7, EarlyInvariant, PTL

\* A key event goes to the end of what is on its way.
LEMMA KeyStep ==
  ASSUME IInv, NEW scancode \in Scancodes, Key(scancode)
  PROVE  IInv'
<1> DEFINE byte == IF scancode \in down THEN Release(scancode) ELSE scancode
<1>1. /\ pc = Done /\ input = NONE
      /\ queue' = queue \o <<byte>> /\ typed' = typed \o <<byte>>
      /\ down' = IF scancode \in down THEN down \ {scancode} ELSE down \cup {scancode}
      /\ UNCHANGED <<pc, input, full, data, shift_held, caps_lock>>
  BY DEF Key, controller, modifiers
<1>2. ProofTypeOK
  BY DEF IInv
<1>3. /\ queue \in Seq(Nat) /\ typed \in Seq(Nat) /\ data \in Nat /\ down \subseteq Scancodes
      /\ full \in BOOLEAN /\ shift_held \in BOOLEAN /\ caps_lock \in BOOLEAN
  BY <1>2 DEF ProofTypeOK
<1>4. scancode \in {30, 42, 58} /\ LSHIFT = 42 /\ CAPS = 58 /\ Release(scancode) = scancode + 128
  BY DEF Scancodes, LSHIFT, CAPS, LETTER, Release
<1>5. byte \in Nat /\ (byte = CAPS <=> scancode = CAPS /\ scancode \notin down)
      /\ (IsShift(byte) <=> scancode = LSHIFT) /\ (byte < 128 <=> scancode \notin down)
  BY <1>4 DEF IsShift
<1> HIDE DEF byte
<1>6. Pending \in Seq(Nat) /\ Pending' = Pending \o <<byte>>
  <2>1. CASE full
    BY <1>1, <1>3, <1>5, <2>1 DEF Pending
  <2>2. CASE ~ full
    BY <1>1, <1>3, <1>5, <2>2 DEF Pending
  <2> QED  BY <2>1, <2>2
<1>7. Presses(CAPS) \in Nat /\ Presses(CAPS)' = IF byte = CAPS THEN Presses(CAPS) + 1 ELSE Presses(CAPS)
  <2>1. Presses(CAPS) = Count(typed, CAPS) /\ Presses(CAPS)' = Count(typed', CAPS)
    BY DEF Presses, Count
  <2>2. Count(typed, CAPS) \in Nat
    BY <1>3, CountType
  <2>3. typed \in Seq(Nat) /\ byte \in Nat
    BY <1>3, <1>5
  <2>4. Count(typed \o <<byte>>, CAPS) = IF byte = CAPS THEN Count(typed, CAPS) + 1 ELSE Count(typed, CAPS)
    BY ONLY <2>3, CountAppend
  <2> QED  BY <1>1, <2>1, <2>2, <2>4
<1>8. (LSHIFT \in down') <=> IF IsShift(byte) THEN byte < 128 ELSE LSHIFT \in down
  BY <1>1, <1>4, <1>5
<1>9. /\ ShiftSettles(Pending \o <<byte>>, shift_held, IF IsShift(byte) THEN byte < 128 ELSE LSHIFT \in down)
      /\ CapsSettles(Pending \o <<byte>>, caps_lock, IF byte = CAPS THEN Presses(CAPS) + 1 ELSE Presses(CAPS))
  <2>1. (LSHIFT \in down) \in BOOLEAN
    OBVIOUS
  <2>2. ShiftSettles(Pending, shift_held, LSHIFT \in down) /\ CapsSettles(Pending, caps_lock, Presses(CAPS))
    BY DEF IInv
  <2>3. /\ Pending \in Seq(Nat) /\ byte \in Nat /\ Presses(CAPS) \in Nat
        /\ shift_held \in BOOLEAN /\ caps_lock \in BOOLEAN
    BY <1>3, <1>5, <1>6, <1>7
  <2> QED  BY ONLY <2>1, <2>2, <2>3, TypeSettles, ZenonT(40)
<1>10. ShiftSettles(Pending, shift_held, LSHIFT \in down)'
  BY <1>1, <1>6, <1>8, <1>9 DEF ShiftSettles
<1>11. CapsSettles(Pending, caps_lock, Presses(CAPS))'
  BY <1>1, <1>6, <1>7, <1>9 DEF CapsSettles
<1>12. ProofTypeOK'
  <2>1. queue' \in Seq(Nat) /\ typed' \in Seq(Nat) /\ down' \subseteq Scancodes
    BY <1>1, <1>3, <1>5
  <2> QED  BY <1>1, <1>3, <2>1 DEF ProofTypeOK
<1>13. typed' # <<>>
  BY <1>1, <1>3, <1>5
<1> QED  BY <1>1, <1>10, <1>11, <1>12, <1>13 DEF IInv

LEMMA NextInvariant == IInv /\ [Next]_vars => IInv'
<1> SUFFICES ASSUME IInv, [Next]_vars PROVE IInv'
  OBVIOUS
<1>1. CASE UNCHANGED vars
  BY <1>1 DEF IInv, ProofTypeOK, Pending, Presses, vars, controller, modifiers, user
<1> QED
  BY <1>1, ProgramStep, HandlerStep, CommandStep, TransferStep, KeyStep DEF Next

\* Once everything typed has arrived, the handler knows which keys are down and how
\* often Caps Lock was pressed, however the initialization and its interrupts went.
THEOREM Modifiers == Spec => []ModifiersTrack
<1>1. IInv => ModifiersTrack
  <2> SUFFICES ASSUME IInv, queue = <<>>, ~ full
               PROVE  shift_held = (LSHIFT \in down) /\ caps_lock = (Presses(CAPS) % 2 = 1)
    BY DEF ModifiersTrack
  <2>1. Pending = <<>> /\ shift_held \in BOOLEAN /\ caps_lock \in BOOLEAN
    BY DEF Pending, IInv, ProofTypeOK
  <2>2. shift_held <=> LSHIFT \in down
    BY <2>1 DEF IInv, ShiftSettles
  <2>3. caps_lock <=> Presses(CAPS) % 2 = 1
    <3>1. PICK m \in Nat : Presses(CAPS) = m + Count(Pending, CAPS) /\ (caps_lock <=> m % 2 = 1)
      BY DEF IInv, CapsSettles
    <3>2. Presses(CAPS) = m
      BY <2>1, <3>1, CountEmpty
    <3> QED  BY <3>1, <3>2
  <2> QED  BY <2>1, <2>2, <2>3
<1> QED  BY <1>1, InitInvariant, NextInvariant, PTL DEF Spec

-----------------------------------------------------------------------------
(* Whether the controller listens to the keyboard when init_keyboard ends: *)
(* each wait before may have given up, and what has to be shown is that    *)
(* only sending over ENABLE itself leaves the interface disabled.          *)

\* Where the program sends a byte, and which.
Sends == [k \in {4, 8, 12, 20} |->
            CASE k = 4 -> DISABLE [] k = 8 -> ENABLE [] k = 12 -> RESET [] k = 20 -> SCAN]

\* The program written out.
Listing ==
  <<Op("flush"), Op("discard"), Op("wait_write"), Out(DISABLE),
    Op("flush"), Op("discard"), Op("wait_write"), Out(ENABLE),
    Op("flush"), Op("discard"), Op("wait_write"), Out(RESET),
    Op("wait_read"), Op("response"), Op("wait_read"), Op("in"),
    Op("flush"), Op("discard"), Op("wait_write"), Out(SCAN),
    Op("wait_read"), Op("response"), Op("flush"), Op("discard")>>

\* A piece of the program: n instructions, the first of them at place m + 1.
Names == {"flush", "discard", "wait_write", "wait_read", "in", "out", "response"}
Instruction == [op : Names, byte : Nat]
IsPiece(t, m, n) ==
  t \in Seq(Instruction) /\ Len(t) = n /\ \A k \in 1 .. n : t[k] = Listing[m + k]

LEMMA NextPiece ==
  ASSUME NEW m \in Nat, NEW n \in Nat, NEW s, NEW t, IsPiece(s, 0, m), IsPiece(t, m, n)
  PROVE  IsPiece(s \o t, 0, m + n)
<1>1. /\ s \in Seq(Instruction) /\ Len(s) = m /\ \A k \in 1 .. m : s[k] = Listing[0 + k]
      /\ t \in Seq(Instruction) /\ Len(t) = n /\ \A k \in 1 .. n : t[k] = Listing[m + k]
  BY DEF IsPiece
<1>2. s \o t \in Seq(Instruction) /\ Len(s \o t) = m + n
  BY <1>1
<1>3. ASSUME NEW k \in 1 .. m + n PROVE (s \o t)[k] = Listing[0 + k]
  <2>1. CASE k \in 1 .. m
    BY <1>1, <2>1
  <2>2. CASE k \notin 1 .. m
    <3>1. k - m \in 1 .. n /\ m + (k - m) = 0 + k /\ k > m
      BY <2>2
    <3>2. t[k - m] = Listing[0 + k]
      BY <1>1, <3>1
    <3>3. (s \o t)[k] = t[k - m]
      BY <1>1, <3>1, ConcatProperties
    <3> QED  BY <3>2, <3>3
  <2> QED  BY <2>1, <2>2
<1> QED  BY <1>2, <1>3 DEF IsPiece

\* init_keyboard does what is listed.
LEMMA Listed == Len(Program) = 24 /\ \A k \in 1 .. 24 : Program[k] = Listing[k]
<1> DEFINE DisableInterface == <<Op("wait_write"), Out(DISABLE)>>
           EnableInterface == <<Op("wait_write"), Out(ENABLE)>>
           SelfTest == <<Op("wait_read"), Op("in")>>
<1>1. /\ Op("flush") \in Instruction /\ Op("discard") \in Instruction /\ Op("in") \in Instruction
      /\ Op("wait_write") \in Instruction /\ Op("wait_read") \in Instruction
      /\ Op("response") \in Instruction
  BY DEF Op, Instruction, Names, NONE
<1>2. /\ Out(DISABLE) \in Instruction /\ Out(ENABLE) \in Instruction
      /\ Out(RESET) \in Instruction /\ Out(SCAN) \in Instruction
  BY DEF Out, Instruction, Names, DISABLE, ENABLE, RESET, SCAN
<1>3. \A m \in {0, 4, 8, 16, 22} : IsPiece(kb_flush, m, 2)
  BY <1>1 DEF IsPiece, kb_flush, Listing
<1>4. IsPiece(DisableInterface, 2, 2) /\ IsPiece(EnableInterface, 6, 2) /\ IsPiece(SelfTest, 14, 2)
  BY <1>1, <1>2 DEF IsPiece, Listing
<1>5. IsPiece(kb_send(RESET), 10, 4) /\ IsPiece(kb_send(SCAN), 18, 4)
  BY <1>1, <1>2 DEF IsPiece, kb_send, Listing
<1> HIDE DEF DisableInterface, EnableInterface, SelfTest
<1> DEFINE P4 == kb_flush \o DisableInterface
           P6 == P4 \o kb_flush
           P8 == P6 \o EnableInterface
           P10 == P8 \o kb_flush
           P14 == P10 \o kb_send(RESET)
           P16 == P14 \o SelfTest
           P18 == P16 \o kb_flush
           P22 == P18 \o kb_send(SCAN)
           P24 == P22 \o kb_flush
<1>6. IsPiece(P4, 0, 4)
  <2>1. IsPiece(P4, 0, 2 + 2)
    BY <1>3, <1>4, NextPiece
  <2> QED  BY <2>1
<1> HIDE DEF P4
<1>7. IsPiece(P6, 0, 6)
  <2>1. IsPiece(P6, 0, 4 + 2)
    BY <1>3, <1>6, NextPiece
  <2> QED  BY <2>1
<1> HIDE DEF P6
<1>8. IsPiece(P8, 0, 8)
  <2>1. IsPiece(P8, 0, 6 + 2)
    BY <1>4, <1>7, NextPiece
  <2> QED  BY <2>1
<1> HIDE DEF P8
<1>9. IsPiece(P10, 0, 10)
  <2>1. IsPiece(P10, 0, 8 + 2)
    BY <1>3, <1>8, NextPiece
  <2> QED  BY <2>1
<1> HIDE DEF P10
<1>10. IsPiece(P14, 0, 14)
  <2>1. IsPiece(P14, 0, 10 + 4)
    BY <1>5, <1>9, NextPiece
  <2> QED  BY <2>1
<1> HIDE DEF P14
<1>11. IsPiece(P16, 0, 16)
  <2>1. IsPiece(P16, 0, 14 + 2)
    BY <1>10, <1>4, NextPiece
  <2> QED  BY <2>1
<1> HIDE DEF P16
<1>12. IsPiece(P18, 0, 18)
  <2>1. IsPiece(P18, 0, 16 + 2)
    BY <1>11, <1>3, NextPiece
  <2> QED  BY <2>1
<1> HIDE DEF P18
<1>13. IsPiece(P22, 0, 22)
  <2>1. IsPiece(P22, 0, 18 + 4)
    BY <1>12, <1>5, NextPiece
  <2> QED  BY <2>1
<1> HIDE DEF P22
<1>14. IsPiece(P24, 0, 24)
  <2>1. IsPiece(P24, 0, 22 + 2)
    BY <1>13, <1>3, NextPiece
  <2> QED  BY <2>1
<1> HIDE DEF P24
<1>15. Program = P24
  BY DEF Program, P4, P6, P8, P10, P14, P16, P18, P22, P24, DisableInterface, EnableInterface, SelfTest
<1>16. \A k \in 1 .. 24 : P24[k] = Listing[k]
  <2>1. \A k \in 1 .. 24 : 0 + k = k
    OBVIOUS
  <2> QED  BY <1>14, <2>1 DEF IsPiece
<1> QED  BY <1>14, <1>15, <1>16 DEF IsPiece

\* The instructions by their places.
LEMMA Places ==
  /\ Len(Program) = 24
  /\ \A k \in 1 .. 24 :
       /\ Program[k].op = "flush" <=> k \in {1, 5, 9, 17, 23}
       /\ Program[k].op = "discard" <=> k \in {2, 6, 10, 18, 24}
       /\ Program[k].op = "wait_write" <=> k \in {3, 7, 11, 19}
       /\ Program[k].op = "wait_read" <=> k \in {13, 15, 21}
       /\ Program[k].op = "in" <=> k = 16
       /\ Program[k].op = "out" <=> k \in {4, 8, 12, 20}
       /\ Program[k].op = "response" <=> k \in {14, 22}
  /\ \A k \in {4, 8, 12, 20} : Program[k].byte = Sends[k]
<1>1. \A k \in 1 .. 24 : k \in {1, 2, 3, 4, 5, 6, 7, 8, 9, 10, 11, 12, 13, 14, 15, 16, 17, 18, 19, 20, 21, 22, 23, 24}
  OBVIOUS
<1> QED
  BY <1>1, Listed DEF Listing, Op, Out, Sends

\* Before ENABLE is sent the interface may be disabled, if the controller has taken
\* DISABLE; afterwards ENABLE is on its way, or taken, or was sent over, and it can
\* itself have been sent over a DISABLE the controller had not taken.
Disables ==
  pc < 9 => /\ input \in {NONE, DISABLE} /\ lost = {}
            /\ pc < 5 => input = NONE /\ interface
            /\ interface \/ input = NONE
Enables ==
  pc >= 9 => /\ input # DISABLE
             /\ DISABLE \in lost => interface
             /\ interface \/ input = ENABLE \/ ENABLE \in lost
Listens ==
  /\ pc \in 1 .. Done /\ timeout \in Nat
  /\ Disables /\ Enables
  /\ pc >= 13 => input # ENABLE

LEMMA ListensInit == Init => Listens
  BY Places, KeyboardAssumption DEF Init, Listens, Disables, Enables, Done

\* A byte is sent whether the controller has taken the last or not.
LEMMA ListensProgram ==
  ASSUME Listens, init_keyboard
  PROVE  Listens'
<1>1. /\ Done = 25 /\ pc \in 1 .. 24 /\ timeout \in Nat /\ Timeout \in Nat /\ interface' = interface
  BY Places, KeyboardAssumption DEF Done, Listens, init_keyboard, ReadData, Wait, controller
<1>2. CASE Program[pc].op = "out"
  <2>1. /\ pc \in {4, 8, 12, 20} /\ input' = Sends[pc] /\ pc' = pc + 1 /\ timeout' = Timeout
        /\ lost' = lost \cup ({input} \ {NONE})
    BY <1>1, <1>2, Places DEF init_keyboard, Goto
  <2>2. CASE pc = 4
    <3>1. input' = DISABLE /\ pc' = 5
      BY <2>1, <2>2 DEF Sends
    <3>2. input = NONE /\ lost = {} /\ interface
      BY <2>2 DEF Listens, Disables
    <3> QED
      BY <1>1, <2>1, <3>1, <3>2 DEF Listens, Disables, Enables
  <2>3. CASE pc = 8
    <3>1. input' = ENABLE /\ pc' = 9
      BY <2>1, <2>3 DEF Sends
    <3>2. lost = {} /\ (interface \/ input = NONE)
      BY <2>3 DEF Listens, Disables
    <3>3. DISABLE \in lost' => interface
      BY <2>1, <3>2 DEF NONE, DISABLE
    <3> QED
      BY <1>1, <2>1, <3>1, <3>3 DEF Listens, Disables, Enables, ENABLE, DISABLE
  <2>4. CASE pc \in {12, 20}
    <3>1. input' # DISABLE /\ input' # ENABLE /\ pc' \in {13, 21}
      BY <2>1, <2>4 DEF Sends, ENABLE, DISABLE, RESET, SCAN
    <3>2. /\ input # DISABLE /\ (DISABLE \in lost => interface)
          /\ interface \/ input = ENABLE \/ ENABLE \in lost
      BY <2>4 DEF Listens, Enables
    <3>3. ENABLE # NONE
      BY DEF ENABLE, NONE
    <3>4. (DISABLE \in lost' => interface) /\ (interface \/ ENABLE \in lost')
      BY <2>1, <3>2, <3>3
    <3> QED
      BY <1>1, <2>1, <3>1, <3>4 DEF Listens, Disables, Enables
  <2> QED
    BY <2>1, <2>2, <2>3, <2>4
<1>3. CASE Program[pc].op # "out"
  <2>1. input' = input /\ lost' = lost /\ timeout' \in Nat
    BY <1>1, <1>3 DEF init_keyboard, Wait, Goto, ReadData, controller
  <2>2. \/ pc' = pc
        \/ pc' = pc + 1 /\ pc \in 1 .. 24 \ {4, 8, 12, 20}
        \/ pc' = pc + 2 /\ pc \in {1, 5, 9, 17, 23}
        \/ pc' = pc - 1 /\ pc \in {2, 6, 10, 18, 24}
        \/ pc' = pc - 3 /\ pc \in {14, 22}
    BY <1>1, <1>3, Places DEF init_keyboard, Wait, Goto, ReadData, controller
  <2>3. /\ pc' \in 1 .. 25 /\ (pc' < 5 <=> pc < 5) /\ (pc' < 9 <=> pc < 9)
        /\ (pc' >= 13 => pc >= 13)
    BY <1>1, <2>2
  <2> QED
    BY <1>1, <2>1, <2>3 DEF Listens, Disables, Enables
<1> QED
  BY <1>2, <1>3

LEMMA ListensNext == Listens /\ [Next]_vars => Listens'
<1> SUFFICES ASSUME Listens, [Next]_vars PROVE Listens'
  OBVIOUS
<1>1. CASE init_keyboard
  BY <1>1, ListensProgram
<1>2. CASE TakeCommand
  <2>1. /\ UNCHANGED <<pc, timeout, lost>> /\ input # NONE /\ input' = NONE
        /\ input = ENABLE => interface'
        /\ input # DISABLE /\ interface => interface'
    BY <1>2 DEF TakeCommand, ENABLE, DISABLE
  <2> QED  BY <2>1, Places DEF Listens, Disables, Enables, NONE, ENABLE, DISABLE, Done
<1>3. CASE ~ init_keyboard /\ ~ TakeCommand
  <2>1. UNCHANGED <<pc, timeout, input, interface, lost>>
    BY <1>3 DEF Next, keyboard_handler, Transfer, Key, vars, controller
  <2> QED  BY <2>1 DEF Listens, Disables, Enables
<1> QED  BY <1>1, <1>2, <1>3

\* At the end of init_keyboard, and ever after, the controller listens to the keyboard,
\* unless it took DISABLE and ENABLE was sent over before it took that: no other wait
\* that gives up, no retry and no byte taken by the handler leaves it disabled.
THEOREM Listening ==
  Spec => /\ [](pc = Done => interface \/ (ENABLE \in lost /\ DISABLE \notin lost))
          /\ InterfaceEnabled
<1>1. Listens => (pc = Done => interface \/ (ENABLE \in lost /\ DISABLE \notin lost))
  BY Places DEF Listens, Enables, Done
<1> QED  BY <1>1, ListensInit, ListensNext, PTL DEF Spec, InterfaceEnabled
=============================================================================
