---------------------------- MODULE TerminalProofs ----------------------------
(***************************************************************************)
(* The terminal is a screen, whatever it is given to print.  The invariant *)
(* (Drawn) says of the context that its numbers and colours are in range,  *)
(* that each item of the queue and its cell lead to each other, and that   *)
(* the picture shows the grid everywhere but under the old cursor.  It is  *)
(* proved of flanterm_write from the inside out: pushing a cell, the loops *)
(* of the drawing routines, each control sequence, the parser's step on a  *)
(* byte, and the bytes of a text.  Whatever they draw goes to the queue    *)
(* and leaves what is painted (Draws, Acts); painting it is what a flush   *)
(* does (Refreshed).                                                       *)
(***************************************************************************)
EXTENDS Terminal, NatLemmas, FiniteSetTheorems, FunctionTheorems

-----------------------------------------------------------------------------
(* The invariant, in parts.                                                *)

\* The fields that the proof speaks of.
Fields == {
  "autoflush", "cursor_enabled", "control_sequence", "osc", "rrr", "unicode_remaining", "g_select",
  "esc_values", "number", "filler", "saved_cursor_x", "saved_cursor_y", "current_primary",
  "current_bg", "scroll_top_margin", "scroll_bottom_margin", "text_fg", "text_bg", "cursor_x",
  "cursor_y", "old_cursor_x", "old_cursor_y", "grid", "picture", "queue", "map", "saved" }
SavedFields == {"text_fg", "text_bg", "cursor_x", "cursor_y", "current_primary", "current_bg"}

Shaped(s) == Fields \subseteq DOMAIN s

Item == [at : Cells, c : Characters]
Rows == (0 .. ROWS - 1) \cup (0 .. COLS - 1)
Palette == (0 .. 7) \cup {NONE}

\* What waits: each item of the queue is the one its cell leads to.
Queued(s) ==
  /\ s.queue \in Seq(Item) /\ s.map \in [Cells -> Nat] /\ s.grid \in [Cells -> Characters]
  /\ \A k \in 1 .. Len(s.queue) : s.map[s.queue[k].at] = k
  /\ \A i \in Cells : s.map[i] # 0 => /\ s.map[i] \in 1 .. Len(s.queue)
                                      /\ s.queue[s.map[i]].at = i

Placing(s) == s.cursor_x \in Nat /\ s.cursor_y \in Rows

\* While lines are inserted the region starts at the row of the cursor.
Region(s) == s.scroll_top_margin \in 0 .. ROWS - 1 /\ s.scroll_bottom_margin \in 1 .. ROWS

Inky(s) ==
  /\ s.text_fg \in Colours /\ s.text_bg \in Colours
  /\ s.current_primary \in Palette /\ s.current_bg \in Palette

Storing(s) ==
  /\ SavedFields \subseteq DOMAIN s.saved /\ Inky(s.saved) /\ Placing(s.saved)
  /\ s.saved_cursor_x \in Nat /\ s.saved_cursor_y \in Nat

Parsed(s) ==
  /\ s.autoflush \in BOOLEAN /\ s.osc \in BOOLEAN /\ s.control_sequence \in BOOLEAN
  /\ s.rrr \in BOOLEAN /\ ~ (s.osc /\ s.control_sequence)
  /\ s.esc_values \in Seq(Nat) /\ s.number \in Nat /\ s.filler \in Nat
  /\ Len(s.esc_values) + (IF s.rrr THEN 1 ELSE 0) <= FLANTERM_MAX_ESC_VALUES
  /\ s.unicode_remaining \in 0 .. 3 /\ s.g_select \in 0 .. 2

Sane(s) ==
  Shaped(s) /\ Queued(s) /\ Placing(s) /\ Region(s) /\ Inky(s) /\ Storing(s) /\ Parsed(s)

\* What is painted, which text does not touch.
Painting(s) == <<s.grid, s.picture, s.old_cursor_x, s.old_cursor_y>>

\* From s, t is reached by drawing, which leaves all but the queue and the cursor.
Draws(s, t) ==
  /\ Sane(t) /\ Painting(t) = Painting(s)
  /\ t.scroll_top_margin = s.scroll_top_margin /\ t.scroll_bottom_margin = s.scroll_bottom_margin

\* The members of Fields, one by one: what a set is known to hold.
LEMMA InFields ==
  /\ "autoflush" \in Fields /\ "cursor_enabled" \in Fields /\ "control_sequence" \in Fields
  /\ "osc" \in Fields /\ "rrr" \in Fields /\ "unicode_remaining" \in Fields
  /\ "g_select" \in Fields /\ "esc_values" \in Fields /\ "number" \in Fields
  /\ "filler" \in Fields /\ "saved_cursor_x" \in Fields /\ "saved_cursor_y" \in Fields
  /\ "current_primary" \in Fields /\ "current_bg" \in Fields /\ "scroll_top_margin" \in Fields
  /\ "scroll_bottom_margin" \in Fields /\ "text_fg" \in Fields /\ "text_bg" \in Fields
  /\ "cursor_x" \in Fields /\ "cursor_y" \in Fields /\ "old_cursor_x" \in Fields
  /\ "old_cursor_y" \in Fields /\ "grid" \in Fields /\ "picture" \in Fields
  /\ "queue" \in Fields /\ "map" \in Fields /\ "saved" \in Fields
  BY DEF Fields

\* The queue does not bear on the other parts of the invariant.
LEMMA QueueFrame ==
  ASSUME NEW s, Sane(s), NEW t, NEW queue, NEW map,
         t = [s EXCEPT !.queue = queue, !.map = map], Queued(t)
  PROVE  Draws(s, t)
<1>1. Fields \subseteq DOMAIN s
  BY DEF Sane, Shaped
<1>2. /\ t.autoflush = s.autoflush /\ t.control_sequence = s.control_sequence /\ t.osc = s.osc
      /\ t.rrr = s.rrr /\ t.unicode_remaining = s.unicode_remaining /\ t.g_select = s.g_select
      /\ t.esc_values = s.esc_values /\ t.number = s.number /\ t.filler = s.filler
      /\ t.saved_cursor_x = s.saved_cursor_x /\ t.saved_cursor_y = s.saved_cursor_y
      /\ t.current_primary = s.current_primary /\ t.current_bg = s.current_bg
      /\ t.scroll_top_margin = s.scroll_top_margin
      /\ t.scroll_bottom_margin = s.scroll_bottom_margin
      /\ t.text_fg = s.text_fg /\ t.text_bg = s.text_bg
      /\ t.cursor_x = s.cursor_x /\ t.cursor_y = s.cursor_y
      /\ t.old_cursor_x = s.old_cursor_x /\ t.old_cursor_y = s.old_cursor_y
      /\ t.grid = s.grid /\ t.picture = s.picture /\ t.saved = s.saved
  BY <1>1, InFields
<1>3. Shaped(t)
  BY <1>1 DEF Shaped
<1>4. Placing(t) /\ Region(t) /\ Inky(t)
  BY <1>2 DEF Sane, Placing, Region, Inky
<1>5. Storing(t)
  BY <1>2 DEF Sane, Storing
<1>6. Parsed(t)
  BY <1>2 DEF Sane, Parsed
<1> QED  BY <1>2, <1>3, <1>4, <1>5, <1>6 DEF Draws, Sane, Painting

\* A push gives a cell an item, or replaces the one it has.
LEMMA PushDraws ==
  ASSUME NEW s, Sane(s), NEW i \in Cells, NEW c \in Characters
  PROVE  Draws(s, push_to_queue(s, i, c))
<1> DEFINE q == s.queue
           n == Len(q)
<1>1. Fields \subseteq DOMAIN s
  BY DEF Sane, Shaped
<1>2. /\ q \in Seq(Item) /\ s.map \in [Cells -> Nat] /\ s.grid \in [Cells -> Characters]
      /\ \A k \in 1 .. n : s.map[q[k].at] = k
      /\ \A j \in Cells : s.map[j] # 0 => s.map[j] \in 1 .. n /\ q[s.map[j]].at = j
  BY DEF Sane, Queued
<1>3. CASE s.map[i] # 0
  <2> DEFINE k0 == s.map[i]
             q1 == [q EXCEPT ![k0] = [at |-> i, c |-> c]]
             t == [s EXCEPT !.queue = q1, !.map = s.map]
  <2>1. k0 \in 1 .. n /\ q[k0].at = i /\ q[k0] \in Item
    BY <1>2, <1>3
  <2>2. push_to_queue(s, i, c) = [s EXCEPT !.queue = [q EXCEPT ![k0] = [q[k0] EXCEPT !.c = c]]]
    BY <1>3 DEF push_to_queue
  <2>3. [q[k0] EXCEPT !.c = c] = [at |-> i, c |-> c]
    BY <2>1 DEF Item
  <2>4. push_to_queue(s, i, c) = t
    BY <1>1, <2>2, <2>3, InFields
  <2>5. /\ q1 \in Seq(Item) /\ Len(q1) = n
        /\ \A k \in 1 .. n : q1[k].at = q[k].at
    BY <1>2, <2>1 DEF Item
  <2>6. t.queue = q1 /\ t.map = s.map /\ t.grid = s.grid
    BY <1>1, InFields
  <2> HIDE DEF t, q1
  <2>7. Queued(t)
    BY <1>2, <2>5, <2>6 DEF Queued
  <2> QED  BY <2>4, <2>7, QueueFrame DEF t
<1>4. CASE s.map[i] = 0 /\ c = s.grid[i]
  BY <1>4 DEF push_to_queue, Draws
<1>5. CASE s.map[i] = 0 /\ c # s.grid[i]
  <2> DEFINE q1 == Append(q, [at |-> i, c |-> c])
             m1 == [s.map EXCEPT ![i] = n + 1]
             t == [s EXCEPT !.queue = q1, !.map = m1]
  <2>1. push_to_queue(s, i, c) = t
    BY <1>5 DEF push_to_queue, Queue
  <2>2. /\ q1 \in Seq(Item) /\ Len(q1) = n + 1 /\ n \in Nat
        /\ \A k \in 1 .. n : q1[k] = q[k] /\ q[k] \in Item
        /\ q1[n + 1] = [at |-> i, c |-> c]
    <3>1. [at |-> i, c |-> c] \in Item
      BY DEF Item
    <3> QED  BY <1>2, <3>1
  <2>3. m1 \in [Cells -> Nat] /\ m1[i] = n + 1 /\ \A j \in Cells \ {i} : m1[j] = s.map[j]
    BY <1>2, <2>2
  <2>4. t.queue = q1 /\ t.map = m1 /\ t.grid = s.grid
    BY <1>1, InFields
  <2> HIDE DEF t, q1, m1
  <2>5. \A k \in 1 .. n + 1 : m1[q1[k].at] = k
    <3> SUFFICES ASSUME NEW k \in 1 .. n + 1 PROVE m1[q1[k].at] = k
      OBVIOUS
    <3>1. CASE k = n + 1
      BY <2>2, <2>3, <3>1
    <3>2. CASE k # n + 1
      <4>1. k \in 1 .. n /\ q1[k] = q[k] /\ q[k] \in Item
        BY <2>2, <3>2
      <4>2. q[k].at \in Cells /\ s.map[q[k].at] = k
        BY <1>2, <4>1 DEF Item
      <4>3. q[k].at # i
        BY <1>5, <4>1, <4>2
      <4> QED  BY <2>3, <4>1, <4>2, <4>3
    <3> QED  BY <3>1, <3>2
  <2>6. \A j \in Cells : m1[j] # 0 => m1[j] \in 1 .. n + 1 /\ q1[m1[j]].at = j
    BY <1>2, <2>2, <2>3
  <2>7. Queued(t)
    BY <1>2, <2>2, <2>3, <2>4, <2>5, <2>6 DEF Queued
  <2> QED  BY <2>1, <2>7, QueueFrame DEF t
<1> QED  BY <1>2, <1>3, <1>4, <1>5

\* The character under a place, and what the pen writes.
LEMMA ContentType ==
  ASSUME NEW s, Sane(s), NEW i \in Cells
  PROVE  Content(s, i) \in Characters
<1>1. /\ s.queue \in Seq(Item) /\ s.map \in [Cells -> Nat] /\ s.grid \in [Cells -> Characters]
      /\ s.map[i] # 0 => s.map[i] \in 1 .. Len(s.queue)
  BY DEF Sane, Queued
<1>2. CASE s.map[i] # 0
  <2>1. s.queue[s.map[i]] \in Item
    BY <1>1, <1>2
  <2> QED  BY <1>2, <2>1 DEF Content, Item
<1> QED  BY <1>1, <1>2 DEF Content

LEMMA GlyphType ==
  ASSUME NEW s, Sane(s), NEW c \in 0 .. 255
  PROVE  Glyph(s, c) \in Characters
  BY DEF Sane, Inky, Glyph, Characters

LEMMA DrawsTransitive ==
  ASSUME NEW s, NEW t, NEW u, Draws(s, t), Draws(t, u)
  PROVE  Draws(s, u)
  BY DEF Draws

-----------------------------------------------------------------------------
(* Cells.                                                                  *)

\* A product grows with its first factor.
LEMMA Rising ==
  ASSUME NEW a \in Int, NEW b \in Int, a <= b, NEW c \in Nat
  PROVE  a * c \in Int /\ b * c \in Int /\ a * c <= b * c
  BY SMT

\* A place of the screen is a cell.
LEMMA CellType ==
  ASSUME NEW x, NEW y, OnScreen(x, y)
  PROVE  Cell(x, y) \in Cells /\ x \in Nat /\ y \in Nat
<1>1. /\ COLS \in Nat \ {0} /\ ROWS \in Nat \ {0}
      /\ x \in Nat /\ y \in Nat /\ x <= COLS - 1 /\ y <= ROWS - 1
  BY FramebufferAssumption DEF OnScreen
<1>2. 0 <= y * COLS /\ y * COLS <= (ROWS - 1) * COLS /\ y * COLS \in Int
  BY <1>1, Rising, 0 * COLS = 0
<1>3. (ROWS - 1) * COLS = COLS * ROWS - COLS
  BY <1>1
<1> QED  BY <1>1, <1>2, <1>3 DEF Cell, Cells

\* The cells of the region, counted from the left end of its first row.
LEMMA RegionCells ==
  ASSUME NEW top \in 0 .. ROWS - 1, NEW bottom \in 1 .. ROWS
  PROVE  /\ COLS \in Nat /\ top * COLS \in Nat /\ bottom * COLS \in Nat
         /\ COLS <= bottom * COLS /\ bottom * COLS <= COLS * ROWS /\ COLS * ROWS \in Nat
         /\ top * COLS + COLS <= COLS * ROWS
         /\ (top + 1) * COLS = top * COLS + COLS
         /\ (bottom - 1) * COLS = bottom * COLS - COLS
         /\ (bottom - top - 1) * COLS = bottom * COLS - top * COLS - COLS
<1>1. /\ COLS \in Nat /\ ROWS \in Nat /\ top \in Nat /\ bottom \in Nat
      /\ 0 <= top /\ top + 1 <= ROWS /\ 1 <= bottom /\ bottom <= ROWS
  BY FramebufferAssumption
<1>2. /\ (top + 1) * COLS = top * COLS + COLS
      /\ (bottom - 1) * COLS = bottom * COLS - COLS
      /\ (bottom - top - 1) * COLS = bottom * COLS - top * COLS - COLS
      /\ 1 * COLS = COLS /\ 0 * COLS = 0 /\ ROWS * COLS = COLS * ROWS
  BY <1>1
<1>3. 0 * COLS <= top * COLS /\ top * COLS \in Int
  BY <1>1, Rising
<1>4. 1 * COLS <= bottom * COLS /\ bottom * COLS \in Int
  BY <1>1, Rising
<1>5. bottom * COLS <= ROWS * COLS /\ ROWS * COLS \in Int
  BY <1>1, Rising
<1>6. (top + 1) * COLS <= ROWS * COLS
  BY <1>1, Rising
<1> QED  BY <1>1, <1>2, <1>3, <1>4, <1>5, <1>6

-----------------------------------------------------------------------------
(* Loops.                                                                  *)

\* What the loops do in a turn: kind says which loop, a holds what it reads.
Turn(kind, a, r, k) ==
  CASE kind = "blank" -> push_to_queue(r, a.first + k - 1, a.c)
    [] kind = "scroll" -> push_to_queue(r, (a + k - 1) - COLS, Content(r, a + k - 1))
    [] kind = "revscroll" -> push_to_queue(r, (a - k) + COLS, Content(r, a - k))
    [] kind = "spaces" -> flanterm_fb_raw_putchar(r, SPACE)
    [] kind = "wide" -> flanterm_fb_raw_putchar(r, IF k = 1 THEN Replacement ELSE SPACE)
    [] kind = "insert" ->
         flanterm_fb_raw_putchar(
           Moved(flanterm_fb_move_character(r, (COLS - k) + a.n, a.y, COLS - k, a.y), COLS - k, a.y),
           SPACE)
    [] kind = "delete" ->
         flanterm_fb_move_character(r, (a.x + a.n + k - 1) - a.n, a.y, a.x + a.n + k - 1, a.y)
    [] kind = "open" -> flanterm_fb_move_character(r, COLS - k + 1, a, COLS - k, a)
    [] kind = "down" -> flanterm_fb_scroll(r)
    [] kind = "up" -> flanterm_fb_revscroll(r)
    [] kind = "sgr" ->
         IF r.i > Len(a) \/ Width(a, r.i) = 0 THEN r
         ELSE [i |-> r.i + Width(a, r.i),
               s |-> IF a[r.i] \in {38, 48} THEN Coloured(r.s, a, r.i) ELSE Attribute(r.s, a[r.i])]
    [] kind = "write" -> flanterm_putchar(r, a[k])

Turns(w, kind, a, s, n) ==
  w = [k \in 0 .. n |-> IF k = 0 THEN s ELSE Turn(kind, a, w[k - 1], k)]

\* A loop has a meaning: the function of its turns exists.
LEMMA TurnsExist ==
  ASSUME NEW kind, NEW a, NEW s, NEW n \in Nat
  PROVE  \E w : Turns(w, kind, a, s, n)
<1> DEFINE G(w, k) == IF k = 0 THEN s ELSE Turn(kind, a, w[k - 1], k)
           Built == {m \in Nat : \E w : w = [k \in 0 .. m |-> G(w, k)]}
<1>1. 0 \in Built
  <2> DEFINE w == [k \in 0 .. 0 |-> s]
  <2>1. \A k \in 0 .. 0 : G(w, k) = s
    OBVIOUS
  <2> HIDE DEF G
  <2>2. w = [k \in 0 .. 0 |-> G(w, k)]
    BY <2>1
  <2> QED  BY <2>2
<1>2. ASSUME NEW m \in Built PROVE m + 1 \in Built
  <2>1. m \in Nat
    OBVIOUS
  <2>2. PICK w : w = [k \in 0 .. m |-> G(w, k)]
    OBVIOUS
  <2> DEFINE x == [k \in 0 .. m + 1 |-> IF k <= m THEN w[k] ELSE Turn(kind, a, w[m], m + 1)]
  <2>3. ASSUME NEW k \in 0 .. m + 1 PROVE x[k] = G(x, k)
    <3>1. CASE k = 0
      <4>1. w[k] = s
        BY <2>1, <2>2, <3>1
      <4> QED  BY <2>1, <3>1, <4>1
    <3>2. CASE k # 0 /\ k <= m
      <4>1. w[k] = Turn(kind, a, w[k - 1], k)
        BY <2>1, <2>2, <3>2
      <4>2. x[k - 1] = w[k - 1] /\ x[k] = w[k]
        BY <2>1, <3>2
      <4> QED  BY <3>2, <4>1, <4>2
    <3>3. CASE k = m + 1
      <4>1. x[k - 1] = w[m] /\ x[k] = Turn(kind, a, w[m], m + 1)
        BY <2>1, <3>3
      <4> QED  BY <2>1, <3>3, <4>1
    <3> QED  BY <2>1, <3>1, <3>2, <3>3
  <2> HIDE DEF G
  <2>4. x = [k \in 0 .. m + 1 |-> G(x, k)]
    BY <2>3
  <2> HIDE DEF x
  <2> QED  BY <2>1, <2>4
<1> HIDE DEF Built, G
<1>3. Built = Nat
  BY <1>1, <1>2, SetInduction DEF Built
<1> QED  BY <1>3 DEF Built, G, Turns

\* What holds before the first turn and is kept by each holds after the last.
LEMMA TurnsKeep ==
  ASSUME NEW n \in Nat, NEW K \in SUBSET Nat, 0 \in K, \A k \in 1 .. n : k - 1 \in K => k \in K
  PROVE  n \in K
<1> DEFINE S == {k \in Nat : k <= n => k \in K}
<1>1. \A k \in S : k + 1 \in S
  OBVIOUS
<1>2. 0 \in S
  OBVIOUS
<1> HIDE DEF S
<1>3. S = Nat
  BY <1>1, <1>2, SetInduction DEF S
<1> QED  BY <1>3 DEF S

\* A loop draws when each of its turns does.
LEMMA LoopDraws ==
  ASSUME NEW s, Sane(s), NEW n \in Nat, NEW W, W[0] = s,
         \A k \in 1 .. n : Sane(W[k - 1]) => Draws(W[k - 1], W[k])
  PROVE  Draws(s, W[n])
<1> DEFINE K == {k \in Nat : Draws(s, W[k])}
<1>1. 0 \in K
  BY DEF Draws
<1>2. ASSUME NEW k \in 1 .. n, k - 1 \in K PROVE k \in K
  <2>1. Draws(s, W[k - 1])
    BY <1>2
  <2>2. Draws(W[k - 1], W[k])
    BY <2>1 DEF Draws
  <2> QED  BY <2>1, <2>2, DrawsTransitive
<1> HIDE DEF K
<1>3. n \in K
  BY <1>1, <1>2, TurnsKeep DEF K
<1> QED  BY <1>3 DEF K

-----------------------------------------------------------------------------
(* Drawing.                                                                *)

\* Blanks in a row of cells, and the two directions of scrolling.
LEMMA BlankDraws ==
  ASSUME NEW s, Sane(s), NEW first \in Int, NEW n \in Int,
         \A k \in 1 .. n : first + k - 1 \in Cells
  PROVE  Draws(s, Blank(s, first, n))
<1> DEFINE c == Glyph(s, SPACE)
           a == [first |-> first, c |-> c]
           W == CHOOSE w : w = [k \in 0 .. n |-> IF k = 0 THEN s
                                  ELSE push_to_queue(w[k - 1], first + k - 1, c)]
<1>1. c \in Characters
  BY GlyphType DEF SPACE
<1>2. CASE n <= 0
  BY <1>2 DEF Blank, Loop, Draws
<1>3. CASE n > 0
  <2>1. n \in Nat
    BY <1>3
  <2> HIDE DEF a
  <2>2. PICK w : Turns(w, "blank", a, s, n)
    BY <2>1, TurnsExist
  <2>3. w = [k \in 0 .. n |-> IF k = 0 THEN s ELSE push_to_queue(w[k - 1], first + k - 1, c)]
    BY <2>2 DEF Turns, Turn, a
  <2>4. W = [k \in 0 .. n |-> IF k = 0 THEN s ELSE push_to_queue(W[k - 1], first + k - 1, c)]
    BY <2>3
  <2>5. Blank(s, first, n) = W[n]
    BY <1>3 DEF Blank, Loop
  <2> HIDE DEF W, c
  <2>6. W[0] = s /\ \A k \in 1 .. n : W[k] = push_to_queue(W[k - 1], first + k - 1, c)
    BY <2>1, <2>4
  <2> HIDE DEF W
  <2>7. Draws(s, W[n])
    BY <1>1, <2>1, <2>6, PushDraws, LoopDraws
  <2> QED  BY <2>5, <2>7
<1> QED  BY <1>2, <1>3

LEMMA ScrollDraws ==
  ASSUME NEW s, Sane(s)
  PROVE  Draws(s, flanterm_fb_scroll(s))
<1> DEFINE top == s.scroll_top_margin
           bottom == s.scroll_bottom_margin
           n == (bottom - top - 1) * COLS
           first == (top + 1) * COLS
           last == (bottom - 1) * COLS
           i(k) == first + k - 1
           W == CHOOSE w : w = [k \in 0 .. n |-> IF k = 0 THEN s
                                  ELSE push_to_queue(w[k - 1], i(k) - COLS, Content(w[k - 1], i(k)))]
           moved == IF n <= 0 THEN s ELSE W[n]
<1>1. top \in 0 .. ROWS - 1 /\ bottom \in 1 .. ROWS
  BY DEF Sane, Region
<1>2. /\ n \in Int /\ COLS \in Nat
      /\ \A k \in 1 .. n : i(k) \in Cells /\ i(k) - COLS \in Cells
      /\ last \in Int /\ \A k \in 1 .. COLS : last + k - 1 \in Cells
  BY <1>1, RegionCells DEF Cells
<1>3. flanterm_fb_scroll(s) = Blank(moved, last, COLS)
  BY DEF flanterm_fb_scroll, Loop
<1>4. Draws(s, moved)
  <2>1. CASE n <= 0
    BY <2>1 DEF Draws
  <2>2. CASE n > 0
    <3>1. n \in Nat
      BY <1>2, <2>2
    <3> HIDE DEF n, first, last
    <3>2. PICK w : Turns(w, "scroll", first, s, n)
      BY <3>1, TurnsExist
    <3>3. w = [k \in 0 .. n |-> IF k = 0 THEN s
                ELSE push_to_queue(w[k - 1], i(k) - COLS, Content(w[k - 1], i(k)))]
      BY <3>2 DEF Turns, Turn
    <3> HIDE DEF i
    <3>4. W = [k \in 0 .. n |-> IF k = 0 THEN s
                ELSE push_to_queue(W[k - 1], i(k) - COLS, Content(W[k - 1], i(k)))]
      BY <3>3
    <3> HIDE DEF W
    <3>5. /\ W[0] = s
          /\ \A k \in 1 .. n :
               W[k] = push_to_queue(W[k - 1], i(k) - COLS, Content(W[k - 1], i(k)))
      BY <3>1, <3>4
    <3>6. ASSUME NEW k \in 1 .. n, Sane(W[k - 1]) PROVE Draws(W[k - 1], W[k])
      BY <1>2, <3>5, <3>6, PushDraws, ContentType
    <3> QED  BY <2>2, <3>1, <3>5, <3>6, LoopDraws
  <2> QED  BY <1>2, <2>1, <2>2
<1> HIDE DEF moved, first, last
<1>5. Sane(moved)
  BY <1>4 DEF Draws
<1>6. Draws(moved, Blank(moved, last, COLS))
  BY <1>2, <1>5, BlankDraws
<1> QED  BY <1>3, <1>4, <1>6, DrawsTransitive

LEMMA RevscrollDraws ==
  ASSUME NEW s, Sane(s)
  PROVE  Draws(s, flanterm_fb_revscroll(s))
<1> DEFINE top == s.scroll_top_margin
           bottom == s.scroll_bottom_margin
           n == (bottom - top - 1) * COLS
           first == top * COLS
           last == (bottom - 1) * COLS
           i(k) == last - k
           W == CHOOSE w : w = [k \in 0 .. n |-> IF k = 0 THEN s
                                  ELSE push_to_queue(w[k - 1], i(k) + COLS, Content(w[k - 1], i(k)))]
           moved == IF n <= 0 THEN s ELSE W[n]
<1>1. top \in 0 .. ROWS - 1 /\ bottom \in 1 .. ROWS
  BY DEF Sane, Region
<1>2. /\ n \in Int /\ COLS \in Nat
      /\ \A k \in 1 .. n : i(k) \in Cells /\ i(k) + COLS \in Cells
      /\ first \in Int /\ \A k \in 1 .. COLS : first + k - 1 \in Cells
  BY <1>1, RegionCells DEF Cells
<1>3. flanterm_fb_revscroll(s) = Blank(moved, first, COLS)
  BY DEF flanterm_fb_revscroll, Loop
<1>4. Draws(s, moved)
  <2>1. CASE n <= 0
    BY <2>1 DEF Draws
  <2>2. CASE n > 0
    <3>1. n \in Nat
      BY <1>2, <2>2
    <3> HIDE DEF n, first, last
    <3>2. PICK w : Turns(w, "revscroll", last, s, n)
      BY <3>1, TurnsExist
    <3>3. w = [k \in 0 .. n |-> IF k = 0 THEN s
                ELSE push_to_queue(w[k - 1], i(k) + COLS, Content(w[k - 1], i(k)))]
      BY <3>2 DEF Turns, Turn
    <3> HIDE DEF i
    <3>4. W = [k \in 0 .. n |-> IF k = 0 THEN s
                ELSE push_to_queue(W[k - 1], i(k) + COLS, Content(W[k - 1], i(k)))]
      BY <3>3
    <3> HIDE DEF W
    <3>5. /\ W[0] = s
          /\ \A k \in 1 .. n :
               W[k] = push_to_queue(W[k - 1], i(k) + COLS, Content(W[k - 1], i(k)))
      BY <3>1, <3>4
    <3>6. ASSUME NEW k \in 1 .. n, Sane(W[k - 1]) PROVE Draws(W[k - 1], W[k])
      BY <1>2, <3>5, <3>6, PushDraws, ContentType
    <3> QED  BY <2>2, <3>1, <3>5, <3>6, LoopDraws
  <2> QED  BY <1>2, <2>1, <2>2
<1> HIDE DEF moved, first, last
<1>5. Sane(moved)
  BY <1>4 DEF Draws
<1>6. Draws(moved, Blank(moved, first, COLS))
  <2>1. COLS \in Int /\ first \in Int /\ \A k \in 1 .. COLS : first + k - 1 \in Cells
    BY <1>2
  <2> QED  BY <1>5, <2>1, BlankDraws
<1> QED  BY <1>3, <1>4, <1>6, DrawsTransitive

-----------------------------------------------------------------------------
(* The cursor.                                                             *)

\* The cursor can be moved to any place of the screen, or behind a line's end.
LEMMA CursorFrame ==
  ASSUME NEW s, Sane(s), NEW x \in Nat, NEW y \in Rows,
         NEW t, t = [s EXCEPT !.cursor_x = x, !.cursor_y = y]
  PROVE  Draws(s, t) /\ t.cursor_x = x /\ t.cursor_y = y
<1>1. Fields \subseteq DOMAIN s
  BY DEF Sane, Shaped
<1>2. /\ t.autoflush = s.autoflush /\ t.control_sequence = s.control_sequence /\ t.osc = s.osc
      /\ t.rrr = s.rrr /\ t.unicode_remaining = s.unicode_remaining /\ t.g_select = s.g_select
      /\ t.esc_values = s.esc_values /\ t.number = s.number /\ t.filler = s.filler
      /\ t.saved_cursor_x = s.saved_cursor_x /\ t.saved_cursor_y = s.saved_cursor_y
      /\ t.current_primary = s.current_primary /\ t.current_bg = s.current_bg
      /\ t.scroll_top_margin = s.scroll_top_margin
      /\ t.scroll_bottom_margin = s.scroll_bottom_margin
      /\ t.text_fg = s.text_fg /\ t.text_bg = s.text_bg
      /\ t.cursor_x = x /\ t.cursor_y = y
      /\ t.old_cursor_x = s.old_cursor_x /\ t.old_cursor_y = s.old_cursor_y
      /\ t.grid = s.grid /\ t.picture = s.picture /\ t.saved = s.saved
      /\ t.queue = s.queue /\ t.map = s.map
  BY <1>1, InFields
<1>3. Shaped(t)
  BY <1>1 DEF Shaped
<1>4. Placing(t) /\ Region(t) /\ Inky(t)
  BY <1>2 DEF Sane, Placing, Region, Inky
<1>5. Storing(t)
  BY <1>2 DEF Sane, Storing
<1>6. Parsed(t)
  BY <1>2 DEF Sane, Parsed
<1>7. Queued(t)
  BY <1>2 DEF Sane, Queued
<1> QED  BY <1>2, <1>3, <1>4, <1>5, <1>6, <1>7 DEF Draws, Sane, Painting

LEMMA CursorXFrame ==
  ASSUME NEW s, Sane(s), NEW x \in Nat
  PROVE  Draws(s, [s EXCEPT !.cursor_x = x])
<1>1. Fields \subseteq DOMAIN s /\ s.cursor_y \in Rows
  BY DEF Sane, Shaped, Placing
<1>2. [s EXCEPT !.cursor_x = x] = [s EXCEPT !.cursor_x = x, !.cursor_y = s.cursor_y]
  BY <1>1, InFields
<1> QED  BY <1>1, <1>2, CursorFrame

LEMMA CursorYFrame ==
  ASSUME NEW s, Sane(s), NEW y \in Rows
  PROVE  Draws(s, [s EXCEPT !.cursor_y = y])
<1>1. Fields \subseteq DOMAIN s /\ s.cursor_x \in Nat
  BY DEF Sane, Shaped, Placing
<1>2. [s EXCEPT !.cursor_y = y] = [s EXCEPT !.cursor_x = s.cursor_x, !.cursor_y = y]
  BY <1>1, InFields
<1> QED  BY <1>1, <1>2, CursorFrame

\* Where the cursor is said to be is on the screen.
LEMMA PositionType ==
  ASSUME NEW s, Sane(s)
  PROVE  GetX(s) \in 0 .. COLS - 1 /\ GetY(s) \in 0 .. ROWS - 1
<1>1. s.cursor_x \in Nat /\ s.cursor_y \in Nat
  BY FramebufferAssumption DEF Sane, Placing, Rows
<1> QED  BY <1>1, FramebufferAssumption DEF GetX, GetY, Least

\* The two ways in which sequences move it.
LEMMA MovedDraws ==
  ASSUME NEW s, Sane(s), NEW x \in Int, NEW y \in Int
  PROVE  Draws(s, Moved(s, x, y))
<1> DEFINE a == IF x < 0 THEN 0 ELSE Least(x, COLS - 1)
           b == IF y < 0 THEN 0 ELSE Least(y, ROWS - 1)
<1>1. a \in Nat /\ b \in Rows
  BY FramebufferAssumption DEF Least, Rows
<1>2. Moved(s, x, y) = [s EXCEPT !.cursor_x = a, !.cursor_y = b]
  BY DEF Moved, flanterm_fb_set_cursor_pos
<1> HIDE DEF a, b
<1> QED  BY <1>1, <1>2, CursorFrame

LEMMA StayDraws ==
  ASSUME NEW s, Sane(s), NEW t, Sane(t)
  PROVE  Draws(t, Stay(t, s))
<1>1. GetX(s) \in Int /\ GetY(s) \in Int
  BY PositionType, FramebufferAssumption
<1> QED  BY <1>1, MovedDraws DEF Stay

-----------------------------------------------------------------------------
(* Drawing.                                                                *)

\* What fb.c draws.
LEMMA PutDraws ==
  ASSUME NEW s, Sane(s), NEW c \in Characters, NEW x, NEW y
  PROVE  Draws(s, Put(s, c, x, y))
<1>1. CASE OnScreen(x, y)
  BY <1>1, CellType, PushDraws DEF Put
<1>2. CASE ~ OnScreen(x, y)
  BY <1>2 DEF Put, Draws
<1> QED  BY <1>1, <1>2

LEMMA MoveCharacterDraws ==
  ASSUME NEW s, Sane(s), NEW new_x, NEW new_y, NEW old_x, NEW old_y
  PROVE  Draws(s, flanterm_fb_move_character(s, new_x, new_y, old_x, old_y))
<1>1. CASE OnScreen(old_x, old_y)
  <2>1. Content(s, Cell(old_x, old_y)) \in Characters
    BY <1>1, CellType, ContentType
  <2> QED  BY <1>1, <2>1, PutDraws DEF flanterm_fb_move_character
<1>2. CASE ~ OnScreen(old_x, old_y)
  BY <1>2 DEF flanterm_fb_move_character, Draws
<1> QED  BY <1>1, <1>2

LEMMA ClearDraws ==
  ASSUME NEW s, Sane(s), NEW move \in BOOLEAN
  PROVE  Draws(s, flanterm_fb_clear(s, move))
<1> DEFINE r == Blank(s, 0, COLS * ROWS)
           t == [r EXCEPT !.cursor_x = 0, !.cursor_y = 0]
<1>1. COLS * ROWS \in Int /\ \A k \in 1 .. COLS * ROWS : 0 + k - 1 \in Cells
  <2>1. COLS * ROWS \in Int
    BY FramebufferAssumption
  <2> QED  BY <2>1 DEF Cells
<1>2. Draws(s, r)
  BY <1>1, BlankDraws
<1>3. Sane(r)
  BY <1>2 DEF Draws
<1>4. 0 \in Rows
  BY FramebufferAssumption DEF Rows
<1>5. flanterm_fb_clear(s, move) = IF move THEN t ELSE r
  BY DEF flanterm_fb_clear
<1> HIDE DEF r
<1>6. Draws(r, t)
  BY <1>3, <1>4, CursorFrame
<1> HIDE DEF t
<1> QED  BY <1>2, <1>5, <1>6, DrawsTransitive

LEMMA NextLineDraws ==
  ASSUME NEW s, Sane(s)
  PROVE  Draws(s, NextLine(s))
<1> DEFINE y == s.cursor_y + 1
           s1 == [s EXCEPT !.cursor_x = 0]
           y1 == IF y = s.scroll_bottom_margin THEN Least(s1.cursor_y, COLS - 1) ELSE Least(y, COLS - 1)
           s2 == [s1 EXCEPT !.cursor_y = y1]
<1>1. Draws(s, s1)
  BY CursorXFrame
<1>2. Sane(s1)
  BY <1>1 DEF Draws
<1>3. s.cursor_y \in Nat /\ s1.cursor_y \in Nat
  BY <1>2, FramebufferAssumption DEF Sane, Placing, Rows
<1>4. NextLine(s) = IF y = s.scroll_bottom_margin THEN flanterm_fb_scroll(s2) ELSE s2
  BY DEF NextLine
<1> HIDE DEF s1
<1>5. y1 \in Rows
  BY <1>3, FramebufferAssumption DEF Rows, Least
<1> HIDE DEF y1, y
<1>6. Draws(s1, s2)
  BY <1>2, <1>5, CursorYFrame
<1> HIDE DEF s2
<1>7. Draws(s, s2) /\ Sane(s2)
  BY <1>1, <1>6, DrawsTransitive DEF Draws
<1>8. Draws(s2, flanterm_fb_scroll(s2))
  BY <1>7, ScrollDraws
<1> QED  BY <1>4, <1>7, <1>8, DrawsTransitive

LEMMA PutcharDraws ==
  ASSUME NEW s, Sane(s), NEW c \in 0 .. 255
  PROVE  Draws(s, flanterm_fb_raw_putchar(s, c))
<1> DEFINE wraps == /\ s.cursor_x >= COLS
                    /\ s.cursor_y < s.scroll_bottom_margin - 1 \/ s.scroll_enabled
           s1 == IF wraps THEN NextLine(s) ELSE s
           s2 == Put(s1, Glyph(s1, c), s1.cursor_x, s1.cursor_y)
           x == s2.cursor_x + 1
<1>1. flanterm_fb_raw_putchar(s, c) = [s2 EXCEPT !.cursor_x = x]
  BY DEF flanterm_fb_raw_putchar
<1>2. Draws(s, s1)
  BY NextLineDraws DEF Draws
<1>3. Sane(s1)
  BY <1>2 DEF Draws
<1> HIDE DEF s1
<1>4. Draws(s1, s2)
  BY <1>3, GlyphType, PutDraws
<1>5. Sane(s2)
  BY <1>4 DEF Draws
<1> HIDE DEF s2
<1>6. x \in Nat
  BY <1>5 DEF Sane, Placing
<1> HIDE DEF x
<1>7. Draws(s2, [s2 EXCEPT !.cursor_x = x])
  BY <1>5, <1>6, CursorXFrame
<1> QED  BY <1>1, <1>2, <1>4, <1>7, DrawsTransitive

-----------------------------------------------------------------------------
(* Loops that draw.                                                        *)

\* Blanks are printed, so that they wrap and scroll.
LEMMA SpacesDraws ==
  ASSUME NEW s, Sane(s), NEW n \in Int
  PROVE  Draws(s, Spaces(s, n))
<1> DEFINE W == CHOOSE w : w = [k \in 0 .. n |-> IF k = 0 THEN s
                                  ELSE flanterm_fb_raw_putchar(w[k - 1], SPACE)]
<1>1. CASE n <= 0
  BY <1>1 DEF Spaces, Loop, Draws
<1>2. CASE n > 0
  <2>1. n \in Nat
    BY <1>2
  <2>2. PICK w : Turns(w, "spaces", 0, s, n)
    BY <2>1, TurnsExist
  <2>3. w = [k \in 0 .. n |-> IF k = 0 THEN s ELSE flanterm_fb_raw_putchar(w[k - 1], SPACE)]
    BY <2>2 DEF Turns, Turn
  <2>4. W = [k \in 0 .. n |-> IF k = 0 THEN s ELSE flanterm_fb_raw_putchar(W[k - 1], SPACE)]
    BY <2>3
  <2>5. Spaces(s, n) = W[n]
    BY <1>2 DEF Spaces, Loop
  <2> HIDE DEF W
  <2>6. W[0] = s /\ \A k \in 1 .. n : W[k] = flanterm_fb_raw_putchar(W[k - 1], SPACE)
    BY <2>1, <2>4
  <2>7. \A k \in 1 .. n : Sane(W[k - 1]) => Draws(W[k - 1], W[k])
    BY <2>6, PutcharDraws, SPACE \in 0 .. 255 DEF SPACE
  <2> QED  BY <2>1, <2>5, <2>6, <2>7, LoopDraws
<1> QED  BY <1>1, <1>2

\* A character that has no glyph prints as many others as it is wide.
LEMMA SubstitutedDraws ==
  ASSUME NEW s, Sane(s), NEW n \in Int
  PROVE  Draws(s, Substituted(s, n))
<1> DEFINE c(k) == IF k = 1 THEN Replacement ELSE SPACE
           W == CHOOSE w : w = [k \in 0 .. n |-> IF k = 0 THEN s
                                  ELSE flanterm_fb_raw_putchar(w[k - 1], c(k))]
<1>1. CASE n <= 0
  BY <1>1 DEF Substituted, Loop, Draws
<1>2. CASE n > 0
  <2>1. n \in Nat
    BY <1>2
  <2>2. PICK w : Turns(w, "wide", 0, s, n)
    BY <2>1, TurnsExist
  <2>3. w = [k \in 0 .. n |-> IF k = 0 THEN s ELSE flanterm_fb_raw_putchar(w[k - 1], c(k))]
    BY <2>2 DEF Turns, Turn
  <2>4. W = [k \in 0 .. n |-> IF k = 0 THEN s ELSE flanterm_fb_raw_putchar(W[k - 1], c(k))]
    BY <2>3
  <2>5. \A k : c(k) \in 0 .. 255
    BY DEF Replacement, SPACE
  <2>6. Substituted(s, n) = W[n]
    BY <1>2 DEF Substituted, Loop
  <2> HIDE DEF W, c
  <2>7. W[0] = s /\ \A k \in 1 .. n : W[k] = flanterm_fb_raw_putchar(W[k - 1], c(k))
    BY <2>1, <2>4
  <2>8. \A k \in 1 .. n : Sane(W[k - 1]) => Draws(W[k - 1], W[k])
    BY <2>5, <2>7, PutcharDraws
  <2>9. Draws(s, W[n])
    BY <2>1, <2>7, <2>8, LoopDraws
  <2> QED  BY <2>6, <2>9
<1> QED  BY <1>1, <1>2

\* What makes room in a line, or closes it.
LEMMA OpenedDraws ==
  ASSUME NEW s, Sane(s)
  PROVE  Draws(s, Opened(s))
<1> DEFINE y == GetY(s)
           n == COLS - GetX(s)
           W == CHOOSE w : w = [k \in 0 .. n |-> IF k = 0 THEN s
                  ELSE flanterm_fb_move_character(w[k - 1], COLS - k + 1, y, COLS - k, y)]
<1>1. n \in Nat /\ ~ (n <= 0)
  BY PositionType, FramebufferAssumption
<1>2. Opened(s) = IF s.insert_mode THEN W[n] ELSE s
  BY <1>1 DEF Opened, Loop
<1> HIDE DEF n, y
<1>3. PICK w : Turns(w, "open", y, s, n)
  BY <1>1, TurnsExist
<1>4. w = [k \in 0 .. n |-> IF k = 0 THEN s
             ELSE flanterm_fb_move_character(w[k - 1], COLS - k + 1, y, COLS - k, y)]
  BY <1>3 DEF Turns, Turn
<1>5. W = [k \in 0 .. n |-> IF k = 0 THEN s
             ELSE flanterm_fb_move_character(W[k - 1], COLS - k + 1, y, COLS - k, y)]
  BY <1>4
<1> HIDE DEF W
<1>6. /\ W[0] = s
      /\ \A k \in 1 .. n :
           W[k] = flanterm_fb_move_character(W[k - 1], COLS - k + 1, y, COLS - k, y)
  BY <1>1, <1>5
<1>7. \A k \in 1 .. n : Sane(W[k - 1]) => Draws(W[k - 1], W[k])
  BY <1>6, MoveCharacterDraws
<1>8. Draws(s, W[n])
  BY <1>1, <1>6, <1>7, LoopDraws
<1> QED  BY <1>2, <1>8 DEF Draws

LEMMA InsertCharactersDraws ==
  ASSUME NEW s, Sane(s), NEW m
  PROVE  Draws(s, InsertCharacters(s, m))
<1> DEFINE y == GetY(s)
           n == COLS - GetX(s)
           a == [n |-> m, y |-> y]
           step(r, k) ==
             flanterm_fb_raw_putchar(
               Moved(flanterm_fb_move_character(r, (COLS - k) + m, y, COLS - k, y), COLS - k, y),
               SPACE)
           W == CHOOSE w : w = [k \in 0 .. n |-> IF k = 0 THEN s ELSE step(w[k - 1], k)]
<1>1. n \in Nat /\ ~ (n <= 0) /\ y \in Int
  BY PositionType, FramebufferAssumption
<1>2. InsertCharacters(s, m) = Stay(W[n], s)
  BY <1>1 DEF InsertCharacters, Loop
<1>3. ASSUME NEW r, Sane(r), NEW k \in Int PROVE Draws(r, step(r, k))
  <2> DEFINE r1 == flanterm_fb_move_character(r, (COLS - k) + m, y, COLS - k, y)
             r2 == Moved(r1, COLS - k, y)
  <2>1. Draws(r, r1) /\ Sane(r1)
    BY <1>3, MoveCharacterDraws DEF Draws
  <2> HIDE DEF r1
  <2>2. COLS - k \in Int
    BY FramebufferAssumption
  <2>3. Draws(r1, r2) /\ Sane(r2)
    BY <1>1, <2>1, <2>2, MovedDraws DEF Draws
  <2> HIDE DEF r2
  <2>4. Draws(r2, flanterm_fb_raw_putchar(r2, SPACE))
    BY <2>3, PutcharDraws, SPACE \in 0 .. 255 DEF SPACE
  <2>5. Draws(r, r2)
    BY <2>1, <2>3, DrawsTransitive
  <2> QED  BY <2>4, <2>5, DrawsTransitive DEF r1, r2
<1> HIDE DEF n, y, a
<1>4. PICK w : Turns(w, "insert", a, s, n)
  BY <1>1, TurnsExist
<1>5. w = [k \in 0 .. n |-> IF k = 0 THEN s ELSE step(w[k - 1], k)]
  <2>1. a.n = m /\ a.y = y
    BY DEF a
  <2> QED  BY <1>4, <2>1 DEF Turns, Turn
<1> HIDE DEF step
<1>6. W = [k \in 0 .. n |-> IF k = 0 THEN s ELSE step(W[k - 1], k)]
  BY <1>5
<1> HIDE DEF W
<1>7. W[0] = s /\ \A k \in 1 .. n : W[k] = step(W[k - 1], k)
  BY <1>1, <1>6
<1>8. \A k \in 1 .. n : Sane(W[k - 1]) => Draws(W[k - 1], W[k])
  BY <1>3, <1>7
<1>9. Draws(s, W[n])
  BY <1>1, <1>7, <1>8, LoopDraws
<1>10. Draws(W[n], Stay(W[n], s))
  BY <1>9, StayDraws DEF Draws
<1> QED  BY <1>2, <1>9, <1>10, DrawsTransitive

LEMMA EraseCharactersDraws ==
  ASSUME NEW s, Sane(s), NEW n \in Int
  PROVE  Draws(s, EraseCharacters(s, n))
<1>1. Least(n, COLS) \in Int
  BY FramebufferAssumption DEF Least
<1> QED  BY <1>1, SpacesDraws DEF EraseCharacters

LEMMA DeleteCharactersDraws ==
  ASSUME NEW s, Sane(s), NEW m \in Int
  PROVE  Draws(s, DeleteCharacters(s, m))
<1> DEFINE x == GetX(s)
           y == GetY(s)
           n == COLS - x - m
           a == [n |-> m, x |-> x, y |-> y]
           step(r, k) ==
             flanterm_fb_move_character(r, (x + m + k - 1) - m, y, x + m + k - 1, y)
           W == CHOOSE w : w = [k \in 0 .. n |-> IF k = 0 THEN s ELSE step(w[k - 1], k)]
           moved == IF n <= 0 THEN s ELSE W[n]
           placed == Moved(moved, COLS - m, y)
           erased == EraseCharacters(placed, m)
<1>1. n \in Int /\ x \in Int /\ y \in Int /\ COLS - m \in Int
  BY PositionType, FramebufferAssumption
<1>2. DeleteCharacters(s, m) = Stay(erased, s)
  BY DEF DeleteCharacters, Loop
<1> HIDE DEF n, x, y, a
<1>3. Draws(s, moved)
  <2>1. CASE n <= 0
    BY <2>1 DEF Draws
  <2>2. CASE n > 0
    <3>1. n \in Nat
      BY <1>1, <2>2
    <3>2. PICK w : Turns(w, "delete", a, s, n)
      BY <3>1, TurnsExist
    <3>3. w = [k \in 0 .. n |-> IF k = 0 THEN s ELSE step(w[k - 1], k)]
      <4>1. a.n = m /\ a.x = x /\ a.y = y
        BY DEF a
      <4> QED  BY <3>2, <4>1 DEF Turns, Turn
    <3>4. \A r, k : Sane(r) => Draws(r, step(r, k))
      BY MoveCharacterDraws
    <3> HIDE DEF step
    <3>5. W = [k \in 0 .. n |-> IF k = 0 THEN s ELSE step(W[k - 1], k)]
      BY <3>3
    <3> HIDE DEF W
    <3>6. W[0] = s /\ \A k \in 1 .. n : W[k] = step(W[k - 1], k)
      BY <3>1, <3>5
    <3>7. \A k \in 1 .. n : Sane(W[k - 1]) => Draws(W[k - 1], W[k])
      BY <3>4, <3>6
    <3> QED  BY <2>2, <3>1, <3>6, <3>7, LoopDraws
  <2> QED  BY <1>1, <2>1, <2>2
<1> HIDE DEF moved
<1>4. Draws(moved, placed)
  BY <1>1, <1>3, MovedDraws DEF Draws
<1>5. Draws(s, placed) /\ Sane(placed)
  BY <1>3, <1>4, DrawsTransitive DEF Draws
<1> HIDE DEF placed
<1>6. Draws(placed, erased)
  BY <1>5, EraseCharactersDraws
<1>7. Draws(s, erased) /\ Sane(erased)
  BY <1>5, <1>6, DrawsTransitive DEF Draws
<1> HIDE DEF erased
<1>8. Draws(erased, Stay(erased, s))
  BY <1>7, StayDraws
<1> QED  BY <1>2, <1>7, <1>8, DrawsTransitive

LEMMA DeleteLinesDraws ==
  ASSUME NEW s, Sane(s), NEW m \in Int
  PROVE  Draws(s, DeleteLines(s, m))
<1> DEFINE n == Least(m, ROWS)
           W == CHOOSE w : w = [k \in 0 .. n |-> IF k = 0 THEN s ELSE flanterm_fb_scroll(w[k - 1])]
<1>1. n \in Int
  BY FramebufferAssumption DEF Least
<1>2. DeleteLines(s, m) = IF n <= 0 THEN s ELSE W[n]
  BY DEF DeleteLines, Loop
<1> HIDE DEF n
<1>3. CASE n <= 0
  BY <1>2, <1>3 DEF Draws
<1>4. CASE n > 0
  <2>1. n \in Nat
    BY <1>1, <1>4
  <2>2. PICK w : Turns(w, "down", 0, s, n)
    BY <2>1, TurnsExist
  <2>3. w = [k \in 0 .. n |-> IF k = 0 THEN s ELSE flanterm_fb_scroll(w[k - 1])]
    BY <2>2 DEF Turns, Turn
  <2>4. W = [k \in 0 .. n |-> IF k = 0 THEN s ELSE flanterm_fb_scroll(W[k - 1])]
    BY <2>3
  <2> HIDE DEF W
  <2>5. W[0] = s /\ \A k \in 1 .. n : W[k] = flanterm_fb_scroll(W[k - 1])
    BY <2>1, <2>4
  <2>6. \A k \in 1 .. n : Sane(W[k - 1]) => Draws(W[k - 1], W[k])
    BY <2>5, ScrollDraws
  <2> QED  BY <1>2, <1>4, <2>1, <2>5, <2>6, LoopDraws
<1> QED  BY <1>1, <1>3, <1>4

-----------------------------------------------------------------------------
(* The margins.                                                            *)

\* From s, t is reached by setting the margins.
Bounded(s, t, top, bottom) ==
  /\ Sane(t) /\ Painting(t) = Painting(s)
  /\ t.scroll_top_margin = top /\ t.scroll_bottom_margin = bottom

\* A margin can be set to any row that leaves a region.
LEMMA MarginFrame ==
  ASSUME NEW s, Sane(s), NEW top \in 0 .. ROWS - 1, NEW bottom \in 1 .. ROWS,
         NEW t, t = [s EXCEPT !.scroll_top_margin = top, !.scroll_bottom_margin = bottom]
  PROVE  Bounded(s, t, top, bottom)
<1>1. Fields \subseteq DOMAIN s
  BY DEF Sane, Shaped
<1>2. /\ t.autoflush = s.autoflush /\ t.control_sequence = s.control_sequence /\ t.osc = s.osc
      /\ t.rrr = s.rrr /\ t.unicode_remaining = s.unicode_remaining /\ t.g_select = s.g_select
      /\ t.esc_values = s.esc_values /\ t.number = s.number /\ t.filler = s.filler
      /\ t.saved_cursor_x = s.saved_cursor_x /\ t.saved_cursor_y = s.saved_cursor_y
      /\ t.current_primary = s.current_primary /\ t.current_bg = s.current_bg
      /\ t.scroll_top_margin = top /\ t.scroll_bottom_margin = bottom
      /\ t.text_fg = s.text_fg /\ t.text_bg = s.text_bg
      /\ t.cursor_x = s.cursor_x /\ t.cursor_y = s.cursor_y
      /\ t.old_cursor_x = s.old_cursor_x /\ t.old_cursor_y = s.old_cursor_y
      /\ t.grid = s.grid /\ t.picture = s.picture /\ t.saved = s.saved
      /\ t.queue = s.queue /\ t.map = s.map
  BY <1>1, InFields
<1>3. Shaped(t)
  BY <1>1 DEF Shaped
<1>4. Placing(t) /\ Region(t) /\ Inky(t)
  BY <1>2 DEF Sane, Placing, Region, Inky
<1>5. Storing(t)
  BY <1>2 DEF Sane, Storing
<1>6. Parsed(t)
  BY <1>2 DEF Sane, Parsed
<1>7. Queued(t)
  BY <1>2 DEF Sane, Queued
<1> QED  BY <1>2, <1>3, <1>4, <1>5, <1>6, <1>7 DEF Bounded, Sane, Painting

LEMMA TopFrame ==
  ASSUME NEW s, Sane(s), NEW top \in 0 .. ROWS - 1,
         NEW t, t = [s EXCEPT !.scroll_top_margin = top]
  PROVE  Bounded(s, t, top, s.scroll_bottom_margin)
<1>1. Fields \subseteq DOMAIN s /\ s.scroll_bottom_margin \in 1 .. ROWS
  BY DEF Sane, Shaped, Region
<1>2. t = [s EXCEPT !.scroll_top_margin = top, !.scroll_bottom_margin = s.scroll_bottom_margin]
  BY <1>1, InFields
<1> QED  BY <1>1, <1>2, MarginFrame

\* Lines are inserted with the row of the cursor for the top margin, which is put back.
LEMMA InsertLinesDraws ==
  ASSUME NEW s, Sane(s), NEW m \in Int
  PROVE  Draws(s, InsertLines(s, m))
<1> DEFINE n == Least(m, ROWS)
           b == [s EXCEPT !.scroll_top_margin = GetY(s)]
           W == CHOOSE w : w = [k \in 0 .. n |-> IF k = 0 THEN b
                                  ELSE flanterm_fb_revscroll(w[k - 1])]
           r == IF n <= 0 THEN b ELSE W[n]
           t == [r EXCEPT !.scroll_top_margin = s.scroll_top_margin]
<1>1. n \in Int
  BY FramebufferAssumption DEF Least
<1>2. InsertLines(s, m) = t
  BY DEF InsertLines, Loop
<1>3. Bounded(s, b, GetY(s), s.scroll_bottom_margin)
  BY PositionType, TopFrame
<1> HIDE DEF n, b
<1>4. Draws(b, r)
  <2>1. CASE n <= 0
    BY <1>3, <2>1 DEF Draws, Bounded
  <2>2. CASE n > 0
    <3>1. n \in Nat
      BY <1>1, <2>2
    <3>2. PICK w : Turns(w, "up", 0, b, n)
      BY <3>1, TurnsExist
    <3>3. w = [k \in 0 .. n |-> IF k = 0 THEN b ELSE flanterm_fb_revscroll(w[k - 1])]
      BY <3>2 DEF Turns, Turn
    <3>4. W = [k \in 0 .. n |-> IF k = 0 THEN b ELSE flanterm_fb_revscroll(W[k - 1])]
      BY <3>3
    <3> HIDE DEF W
    <3>5. W[0] = b /\ \A k \in 1 .. n : W[k] = flanterm_fb_revscroll(W[k - 1])
      BY <3>1, <3>4
    <3>6. \A k \in 1 .. n : Sane(W[k - 1]) => Draws(W[k - 1], W[k])
      BY <3>5, RevscrollDraws
    <3> QED  BY <1>3, <2>2, <3>1, <3>5, <3>6, LoopDraws DEF Bounded
  <2> QED  BY <1>1, <2>1, <2>2
<1> HIDE DEF r
<1>5. Sane(r) /\ Painting(r) = Painting(b) /\ r.scroll_bottom_margin = b.scroll_bottom_margin
  BY <1>4 DEF Draws
<1>6. s.scroll_top_margin \in 0 .. ROWS - 1
  BY DEF Sane, Region
<1>7. Bounded(r, t, s.scroll_top_margin, r.scroll_bottom_margin)
  BY <1>5, <1>6, TopFrame
<1> QED  BY <1>2, <1>3, <1>5, <1>7 DEF Draws, Bounded

-----------------------------------------------------------------------------
(* The invariant, and what an operator does that keeps it and leaves what  *)
(* is painted.                                                             *)

Good(s) == Sane(s) /\ s.scroll_top_margin + Least(2, ROWS) <= s.scroll_bottom_margin

Acts(s, t) == Good(t) /\ Painting(t) = Painting(s)

\* To draw is to act, and acting is a preorder.
LEMMA DrawsActs ==
  ASSUME NEW s, Good(s), NEW t, Draws(s, t)
  PROVE  Acts(s, t)
  BY DEF Good, Draws, Acts

LEMMA ActsTransitive ==
  ASSUME NEW s, NEW t, NEW u, Acts(s, t), Acts(t, u)
  PROVE  Acts(s, u)
  BY DEF Acts

LEMMA ActsSelf ==
  ASSUME NEW s, Good(s)
  PROVE  Acts(s, s)
  BY DEF Acts

-----------------------------------------------------------------------------
(* Movements and editing.                                                  *)

\* Up and down, as far as the margin when the cursor starts inside.
LEMMA CursorUpDraws ==
  ASSUME NEW s, Sane(s), NEW x \in Int, NEW n \in Int
  PROVE  Draws(s, CursorUp(s, x, n))
<1> DEFINE y == GetY(s)
           dest == y - Least(n, y)
           touches == {s.scroll_top_margin, s.scroll_bottom_margin} \cap dest .. y # {}
           row == IF touches /\ dest < s.scroll_top_margin THEN s.scroll_top_margin ELSE dest
<1>1. CursorUp(s, x, n) = Moved(s, x, row)
  BY DEF CursorUp
<1>2. y \in Int /\ s.scroll_top_margin \in Int
  BY PositionType, FramebufferAssumption DEF Sane, Region
<1> HIDE DEF y, touches
<1>3. row \in Int
  BY <1>2 DEF Least
<1> HIDE DEF row
<1> QED  BY <1>1, <1>3, MovedDraws

LEMMA CursorDownDraws ==
  ASSUME NEW s, Sane(s), NEW x \in Int, NEW n \in Int
  PROVE  Draws(s, CursorDown(s, x, n))
<1> DEFINE y == GetY(s)
           dest == Least(y + n, ROWS - 1)
           touches == {s.scroll_top_margin, s.scroll_bottom_margin} \cap y .. dest # {}
           row == IF touches /\ dest >= s.scroll_bottom_margin
                  THEN s.scroll_bottom_margin - 1 ELSE dest
<1>1. CursorDown(s, x, n) = Moved(s, x, row)
  BY DEF CursorDown
<1>2. y \in Int /\ s.scroll_bottom_margin \in Int /\ ROWS \in Int
  BY PositionType, FramebufferAssumption DEF Sane, Region
<1> HIDE DEF y, touches
<1>3. row \in Int
  BY <1>2 DEF Least
<1> HIDE DEF row
<1> QED  BY <1>1, <1>3, MovedDraws

LEMMA IndexDraws ==
  ASSUME NEW s, Sane(s), NEW x \in Int
  PROVE  Draws(s, Index(s, x))
<1> DEFINE y == GetY(s)
           r == flanterm_fb_scroll(s)
<1>1. y \in Int /\ y + 1 \in Int
  BY PositionType, FramebufferAssumption
<1>2. Index(s, x) = IF y = s.scroll_bottom_margin - 1 THEN Moved(r, x, y) ELSE Moved(s, x, y + 1)
  BY DEF Index
<1>3. Draws(s, r) /\ Sane(r)
  BY ScrollDraws DEF Draws
<1> HIDE DEF y, r
<1>4. Draws(s, Moved(s, x, y + 1)) /\ Draws(r, Moved(r, x, y))
  BY <1>1, <1>3, MovedDraws
<1> QED  BY <1>2, <1>3, <1>4, DrawsTransitive

LEMMA ReverseIndexDraws ==
  ASSUME NEW s, Sane(s)
  PROVE  Draws(s, ReverseIndex(s))
<1> DEFINE y == GetY(s)
           r == flanterm_fb_revscroll(s)
<1>1. y \in Int /\ y - 1 \in Int
  BY PositionType, FramebufferAssumption
<1>2. ReverseIndex(s) = IF y = s.scroll_top_margin THEN Moved(r, 0, y) ELSE Moved(s, 0, y - 1)
  BY DEF ReverseIndex
<1>3. Draws(s, r) /\ Sane(r)
  BY RevscrollDraws DEF Draws
<1> HIDE DEF y, r
<1>4. Draws(s, Moved(s, 0, y - 1)) /\ Draws(r, Moved(r, 0, y))
  BY <1>1, <1>3, MovedDraws
<1> QED  BY <1>2, <1>3, <1>4, DrawsTransitive

\* Blanks and back to the old place.
LEMMA SpacesStayDraws ==
  ASSUME NEW s, Sane(s), NEW r, Draws(s, r), NEW n \in Int
  PROVE  Draws(s, Stay(Spaces(r, n), s))
<1>1. Sane(r)
  BY DEF Draws
<1>2. Draws(r, Spaces(r, n))
  BY <1>1, SpacesDraws
<1>3. Draws(Spaces(r, n), Stay(Spaces(r, n), s))
  BY <1>2, StayDraws DEF Draws
<1> QED  BY <1>2, <1>3, DrawsTransitive

\* To the end, from the start, or all.
LEMMA EraseDisplayDraws ==
  ASSUME NEW s, Sane(s), NEW mode
  PROVE  Draws(s, EraseDisplay(s, mode))
<1> DEFINE here == Cell(GetX(s), GetY(s))
<1>1. here \in Int /\ COLS * ROWS - here \in Int /\ here + 1 \in Int
  <2>1. here \in Int /\ COLS * ROWS \in Int
    BY PositionType, FramebufferAssumption DEF Cell
  <2> HIDE DEF here
  <2> QED  BY <2>1
<1> HIDE DEF here
<1>2. CASE mode = 0
  <2>1. EraseDisplay(s, mode) = Stay(Spaces(s, COLS * ROWS - here), s)
    BY <1>2 DEF EraseDisplay, here
  <2>2. Draws(s, s)
    BY DEF Draws
  <2> QED  BY <1>1, <2>1, <2>2, SpacesStayDraws
<1>3. CASE mode = 1
  <2>1. EraseDisplay(s, mode) = Stay(Spaces(Moved(s, 0, 0), here + 1), s)
    BY <1>3 DEF EraseDisplay, here
  <2>2. Draws(s, Moved(s, 0, 0))
    BY MovedDraws
  <2> QED  BY <1>1, <2>1, <2>2, SpacesStayDraws
<1>4. CASE mode \in {2, 3}
  <2>1. EraseDisplay(s, mode) = flanterm_fb_clear(s, FALSE)
    BY <1>4 DEF EraseDisplay
  <2> QED  BY <2>1, ClearDraws
<1>5. CASE mode \notin {0, 1, 2, 3}
  BY <1>5 DEF EraseDisplay, Draws
<1> QED  BY <1>2, <1>3, <1>4, <1>5

LEMMA EraseLineDraws ==
  ASSUME NEW s, Sane(s), NEW mode
  PROVE  Draws(s, EraseLine(s, mode))
<1>1. GetX(s) \in Int /\ GetY(s) \in Int /\ COLS \in Int /\ COLS - GetX(s) \in Int
  BY PositionType, FramebufferAssumption
<1>2. Draws(s, s) /\ Draws(s, Moved(s, 0, GetY(s)))
  BY <1>1, MovedDraws DEF Draws
<1>3. CASE mode = 0
  <2>1. EraseLine(s, mode) = Stay(Spaces(s, COLS - GetX(s)), s)
    BY <1>3 DEF EraseLine
  <2> QED  BY <1>1, <1>2, <2>1, SpacesStayDraws
<1>4. CASE mode = 1
  <2>1. EraseLine(s, mode) = Spaces(Moved(s, 0, GetY(s)), GetX(s))
    BY <1>4 DEF EraseLine
  <2>2. Sane(Moved(s, 0, GetY(s)))
    BY <1>2 DEF Draws
  <2>3. Draws(Moved(s, 0, GetY(s)), Spaces(Moved(s, 0, GetY(s)), GetX(s)))
    BY <1>1, <2>2, SpacesDraws
  <2> QED  BY <1>2, <2>1, <2>3, DrawsTransitive
<1>5. CASE mode = 2
  <2>1. EraseLine(s, mode) = Stay(Spaces(Moved(s, 0, GetY(s)), COLS), s)
    BY <1>5 DEF EraseLine
  <2> QED  BY <1>1, <1>2, <2>1, SpacesStayDraws
<1>6. CASE mode \notin {0, 1, 2}
  BY <1>6 DEF EraseLine, Draws
<1> QED  BY <1>3, <1>4, <1>5, <1>6

\* The region has two lines at least, if the screen has them.
LEMMA SetMarginsActs ==
  ASSUME NEW s, Good(s), NEW top \in Nat \ {0}, NEW bottom \in Nat \ {0}
  PROVE  Acts(s, SetMargins(s, top, bottom))
<1> DEFINE good == bottom <= ROWS /\ top < bottom
           a == IF good THEN top - 1 ELSE 0
           b == IF good THEN bottom ELSE ROWS
           t == [s EXCEPT !.scroll_top_margin = a, !.scroll_bottom_margin = b]
<1>1. SetMargins(s, top, bottom) = Moved(t, 0, 0)
  BY DEF SetMargins
<1>2. a \in 0 .. ROWS - 1 /\ b \in 1 .. ROWS /\ a + Least(2, ROWS) <= b
  BY FramebufferAssumption DEF Least
<1> HIDE DEF a, b
<1>3. Bounded(s, t, a, b)
  BY <1>2, MarginFrame DEF Good
<1> HIDE DEF t
<1>4. Acts(s, t)
  BY <1>2, <1>3 DEF Bounded, Acts, Good
<1>5. Draws(t, Moved(t, 0, 0))
  BY <1>4, MovedDraws DEF Acts, Good
<1> QED  BY <1>1, <1>4, <1>5, DrawsActs, ActsTransitive DEF Acts

-----------------------------------------------------------------------------
(* What leaves some parts of the context leaves what is said of them.      *)

SameDrawing(s, t) ==
  /\ t.grid = s.grid /\ t.picture = s.picture /\ t.queue = s.queue /\ t.map = s.map
  /\ t.old_cursor_x = s.old_cursor_x /\ t.old_cursor_y = s.old_cursor_y
  /\ t.cursor_x = s.cursor_x /\ t.cursor_y = s.cursor_y
  /\ t.scroll_top_margin = s.scroll_top_margin
  /\ t.scroll_bottom_margin = s.scroll_bottom_margin

SamePen(s, t) ==
  /\ t.text_fg = s.text_fg /\ t.text_bg = s.text_bg
  /\ t.current_primary = s.current_primary /\ t.current_bg = s.current_bg

SameStore(s, t) ==
  /\ t.saved = s.saved
  /\ t.saved_cursor_x = s.saved_cursor_x /\ t.saved_cursor_y = s.saved_cursor_y

SameParser(s, t) ==
  /\ t.autoflush = s.autoflush /\ t.control_sequence = s.control_sequence /\ t.osc = s.osc
  /\ t.rrr = s.rrr /\ t.unicode_remaining = s.unicode_remaining /\ t.g_select = s.g_select
  /\ t.esc_values = s.esc_values /\ t.number = s.number /\ t.filler = s.filler

\* What draws nothing, keeps the colours, or the parser, or all that counts.
LEMMA FrameActs ==
  ASSUME NEW s, Good(s), NEW t, Shaped(t), SameDrawing(s, t), Inky(t), Storing(t), Parsed(t)
  PROVE  Acts(s, t)
<1>1. Queued(t)
  BY DEF Good, Sane, Queued, SameDrawing
<1>2. Placing(t) /\ Region(t) /\ t.scroll_top_margin + Least(2, ROWS) <= t.scroll_bottom_margin
  BY DEF Good, Sane, Placing, Region, SameDrawing
<1>3. Painting(t) = Painting(s)
  BY DEF Painting, SameDrawing
<1> QED  BY <1>1, <1>2, <1>3 DEF Acts, Good, Sane

LEMMA PenFrame ==
  ASSUME NEW s, Good(s), NEW t, Shaped(t),
         SameDrawing(s, t), SameStore(s, t), SameParser(s, t), Inky(t)
  PROVE  Acts(s, t)
<1>1. Storing(t)
  BY DEF Good, Sane, Storing, SameStore
<1>2. Parsed(t)
  BY DEF Good, Sane, Parsed, SameParser
<1> QED  BY <1>1, <1>2, FrameActs

LEMMA ParserFrame ==
  ASSUME NEW s, Good(s), NEW t, Shaped(t),
         SameDrawing(s, t), SamePen(s, t), SameStore(s, t), Parsed(t)
  PROVE  Acts(s, t)
<1>1. Storing(t)
  BY DEF Good, Sane, Storing, SameStore
<1>2. Inky(t)
  BY DEF Good, Sane, Inky, SamePen
<1> QED  BY <1>1, <1>2, FrameActs

\* The other fields do not matter.
LEMMA OtherFrame ==
  ASSUME NEW s, Good(s), NEW f, f \notin Fields, NEW v
  PROVE  Acts(s, [s EXCEPT ![f] = v])
<1> DEFINE t == [s EXCEPT ![f] = v]
<1>1. Fields \subseteq DOMAIN s
  BY DEF Good, Sane, Shaped
<1>2. \A g \in Fields : t[g] = s[g]
  BY <1>1
<1>3. Shaped(t)
  BY <1>1 DEF Shaped
<1> HIDE DEF t
<1>4. SameDrawing(s, t) /\ SamePen(s, t) /\ SameStore(s, t) /\ SameParser(s, t)
  BY <1>2, InFields DEF SameDrawing, SamePen, SameStore, SameParser
<1>5. Inky(t)
  BY <1>4 DEF Good, Sane, Inky, SamePen
<1> QED  BY <1>3, <1>4, <1>5, PenFrame DEF t

LEMMA NotInFields ==
  /\ "scroll_enabled" \notin Fields /\ "escape" \notin Fields /\ "osc_escape" \notin Fields
  /\ "discard_next" \notin Fields /\ "bold" \notin Fields /\ "bg_bold" \notin Fields
  /\ "reverse_video" \notin Fields /\ "dec_private" \notin Fields /\ "insert_mode" \notin Fields
  /\ "csi_unhandled" \notin Fields /\ "charsets" \notin Fields /\ "current_charset" \notin Fields
  /\ "escape_offset" \notin Fields /\ "onlcr" \notin Fields /\ "code_point" \notin Fields
  BY DEF Fields

-----------------------------------------------------------------------------
(* Colours.                                                                *)

\* What the palette makes is a colour.
LEMMA ColourTypes ==
  /\ DefaultFg \in Colours /\ TRANSPARENT \in Colours /\ DefaultBg \in Colours
  /\ \A n \in 0 .. 7 : Ansi(n) \in Colours /\ Bright(n) \in Colours
  /\ \A r, g, b \in Nat : Rgb(r, g, b) \in Colours
  /\ \A field : Default(field) \in Colours /\ DefaultBright(field) \in Colours
<1>1. DefaultFg \in Colours /\ TRANSPARENT \in Colours /\ DefaultBg \in Colours
  BY DEF Colours, DefaultFg, TRANSPARENT, DefaultBg
<1>2. \A n \in 0 .. 7 : Ansi(n) \in Colours /\ Bright(n) \in Colours
  BY DEF Colours, Ansi, Bright
<1>3. \A r, g, b \in Nat : Rgb(r, g, b) \in Colours
  BY DEF Colours, Rgb
<1>4. \A field : Default(field) \in Colours /\ DefaultBright(field) \in Colours
  BY DEF Colours, Default, DefaultBright, DefaultFg, TRANSPARENT
<1> QED  BY <1>1, <1>2, <1>3, <1>4

LEMMA ShadeType ==
  ASSUME NEW n \in 0 .. 7, NEW bright
  PROVE  Shade(bright, n) \in Colours
  BY ColourTypes DEF Shade

LEMMA WeightedType ==
  ASSUME NEW n \in Palette, NEW bright, NEW field
  PROVE  Weighted(field, bright, n) \in Colours
  BY ColourTypes, ShadeType DEF Weighted, Palette

\* Setting one of the two colours in use, and what is remembered of it.
LEMMA PenSet ==
  ASSUME NEW s, Good(s), NEW field \in {"text_fg", "text_bg"}, NEW colour \in Colours
  PROVE  Acts(s, [s EXCEPT ![field] = colour])
<1> DEFINE t == [s EXCEPT ![field] = colour]
<1>1. Fields \subseteq DOMAIN s /\ Inky(s)
  BY DEF Good, Sane, Shaped
<1>2. Shaped(t)
  BY <1>1 DEF Shaped
<1>3. CASE field = "text_fg"
  <2>1. SameDrawing(s, t) /\ SameStore(s, t) /\ SameParser(s, t)
    BY <1>1, <1>3, InFields DEF SameDrawing, SameStore, SameParser
  <2>2. /\ t.text_fg = colour /\ t.text_bg = s.text_bg
        /\ t.current_primary = s.current_primary /\ t.current_bg = s.current_bg
    BY <1>1, <1>3, InFields
  <2> HIDE DEF t
  <2>3. Inky(t)
    BY <1>1, <2>2 DEF Inky
  <2> QED  BY <1>2, <2>1, <2>3, PenFrame DEF t
<1>4. CASE field = "text_bg"
  <2>1. SameDrawing(s, t) /\ SameStore(s, t) /\ SameParser(s, t)
    BY <1>1, <1>4, InFields DEF SameDrawing, SameStore, SameParser
  <2>2. /\ t.text_fg = s.text_fg /\ t.text_bg = colour
        /\ t.current_primary = s.current_primary /\ t.current_bg = s.current_bg
    BY <1>1, <1>4, InFields
  <2> HIDE DEF t
  <2>3. Inky(t)
    BY <1>1, <2>2 DEF Inky
  <2> QED  BY <1>2, <2>1, <2>3, PenFrame DEF t
<1> QED  BY <1>3, <1>4

LEMMA PrimarySet ==
  ASSUME NEW s, Good(s), NEW n \in Palette
  PROVE  Acts(s, [s EXCEPT !.current_primary = n]) /\ Acts(s, [s EXCEPT !.current_bg = n])
<1>1. Fields \subseteq DOMAIN s /\ Inky(s)
  BY DEF Good, Sane, Shaped
<1>2. Acts(s, [s EXCEPT !.current_primary = n])
  <2> DEFINE t == [s EXCEPT !.current_primary = n]
  <2>1. Shaped(t)
    BY <1>1 DEF Shaped
  <2>2. SameDrawing(s, t) /\ SameStore(s, t) /\ SameParser(s, t)
    BY <1>1, InFields DEF SameDrawing, SameStore, SameParser
  <2>3. /\ t.text_fg = s.text_fg /\ t.text_bg = s.text_bg
        /\ t.current_primary = n /\ t.current_bg = s.current_bg
    BY <1>1, InFields
  <2> HIDE DEF t
  <2>4. Inky(t)
    BY <1>1, <2>3 DEF Inky
  <2> QED  BY <2>1, <2>2, <2>4, PenFrame DEF t
<1>3. Acts(s, [s EXCEPT !.current_bg = n])
  <2> DEFINE t == [s EXCEPT !.current_bg = n]
  <2>1. Shaped(t)
    BY <1>1 DEF Shaped
  <2>2. SameDrawing(s, t) /\ SameStore(s, t) /\ SameParser(s, t)
    BY <1>1, InFields DEF SameDrawing, SameStore, SameParser
  <2>3. /\ t.text_fg = s.text_fg /\ t.text_bg = s.text_bg
        /\ t.current_primary = s.current_primary /\ t.current_bg = n
    BY <1>1, InFields
  <2> HIDE DEF t
  <2>4. Inky(t)
    BY <1>1, <2>3 DEF Inky
  <2> QED  BY <2>1, <2>2, <2>4, PenFrame DEF t
<1> QED  BY <1>2, <1>3

\* Each attribute in turn.
LEMMA SwapActs ==
  ASSUME NEW s, Good(s)
  PROVE  Acts(s, flanterm_fb_swap_palette(s))
<1> DEFINE t1 == [s EXCEPT !.text_fg = s.text_bg]
           t2 == [t1 EXCEPT !.text_bg = s.text_fg]
<1>1. flanterm_fb_swap_palette(s) = t2
  BY DEF flanterm_fb_swap_palette
<1>2. s.text_fg \in Colours /\ s.text_bg \in Colours
  BY DEF Good, Sane, Inky
<1>3. Acts(s, t1) /\ Good(t1)
  BY <1>2, PenSet DEF Acts
<1> HIDE DEF t1
<1>4. Acts(t1, t2)
  BY <1>2, <1>3, PenSet
<1> QED  BY <1>1, <1>3, <1>4, ActsTransitive

LEMMA ReverseActs ==
  ASSUME NEW s, Good(s)
  PROVE  Acts(s, Unreversed(s)) /\ Acts(s, Reversed(s))
<1> DEFINE r == flanterm_fb_swap_palette(s)
           a == [r EXCEPT !.reverse_video = FALSE]
           b == [r EXCEPT !.reverse_video = TRUE]
<1>1. Acts(s, r) /\ Good(r)
  BY SwapActs DEF Acts
<1>2. Unreversed(s) = (IF s.reverse_video THEN a ELSE s)
      /\ Reversed(s) = (IF s.reverse_video THEN s ELSE b)
  BY DEF Unreversed, Reversed
<1> HIDE DEF r
<1>3. Acts(r, a) /\ Acts(r, b)
  BY <1>1, NotInFields, OtherFrame
<1> HIDE DEF a, b
<1>4. Acts(s, a) /\ Acts(s, b) /\ Acts(s, s)
  BY <1>1, <1>3, ActsTransitive, ActsSelf
<1> QED  BY <1>2, <1>4

LEMMA InkedActs ==
  ASSUME NEW s, Good(s), NEW n \in 0 .. 7, NEW bright
  PROVE  Acts(s, Inked(s, n, bright)) /\ Acts(s, Papered(s, n, bright))
<1> DEFINE f == Ink(s)
           g == Paper(s)
           c == Shade(bright, n)
           t1 == [s EXCEPT !.current_primary = n]
           t2 == [t1 EXCEPT ![f] = c]
           u1 == [s EXCEPT !.current_bg = n]
           u2 == [u1 EXCEPT ![g] = c]
<1>1. Inked(s, n, bright) = t2 /\ Papered(s, n, bright) = u2
  BY DEF Inked, Papered
<1>2. f \in {"text_fg", "text_bg"} /\ g \in {"text_fg", "text_bg"} /\ c \in Colours
  BY ShadeType DEF Ink, Paper
<1> HIDE DEF f, g, c
<1>3. n \in Palette
  BY DEF Palette
<1>4. Acts(s, t1) /\ Good(t1) /\ Acts(s, u1) /\ Good(u1)
  BY <1>3, PrimarySet DEF Acts
<1> HIDE DEF t1, u1
<1>5. Acts(t1, t2) /\ Acts(u1, u2)
  BY <1>2, <1>4, PenSet
<1> QED  BY <1>1, <1>4, <1>5, ActsTransitive

LEMMA ResetActs ==
  ASSUME NEW s, Good(s)
  PROVE  Acts(s, Reset(s))
<1> DEFINE u == Unreversed(s)
           t1 == [u EXCEPT !.bold = FALSE]
           t2 == [t1 EXCEPT !.bg_bold = FALSE]
           t3 == [t2 EXCEPT !.current_primary = NONE]
           t4 == [t3 EXCEPT !.current_bg = NONE]
           t5 == [t4 EXCEPT !.text_fg = DefaultFg]
           t6 == [t5 EXCEPT !.text_bg = TRANSPARENT]
<1>1. Reset(s) = t6
  BY DEF Reset
<1>2. Acts(s, u) /\ Good(u)
  BY ReverseActs DEF Acts
<1> HIDE DEF u
<1>3. Acts(u, t1) /\ Good(t1)
  BY <1>2, NotInFields, OtherFrame DEF Acts
<1> HIDE DEF t1
<1>4. Acts(t1, t2) /\ Good(t2)
  BY <1>3, NotInFields, OtherFrame DEF Acts
<1> HIDE DEF t2
<1>5. NONE \in Palette
  BY DEF Palette
<1>6. Acts(t2, t3) /\ Good(t3)
  BY <1>4, <1>5, PrimarySet DEF Acts
<1> HIDE DEF t3
<1>7. Acts(t3, t4) /\ Good(t4)
  BY <1>5, <1>6, PrimarySet DEF Acts
<1> HIDE DEF t4
<1>8. Acts(t4, t5) /\ Good(t5)
  BY <1>7, ColourTypes, PenSet DEF Acts
<1> HIDE DEF t5
<1>9. Acts(t5, t6)
  BY <1>8, ColourTypes, PenSet
<1>10. Acts(s, t2)
  BY <1>2, <1>3, <1>4, ActsTransitive
<1>11. Acts(t2, t6)
  BY <1>6, <1>7, <1>8, <1>9, ActsTransitive
<1> QED  BY <1>1, <1>10, <1>11, ActsTransitive

LEMMA BoldActs ==
  ASSUME NEW s, Good(s), NEW bright
  PROVE  Acts(s, Bold(s, bright)) /\ Acts(s, BgBold(s, bright))
<1> DEFINE f == Ink(s)
           g == Paper(s)
           c == Weighted(f, bright, s.current_primary)
           d == Weighted(g, bright, s.current_bg)
           t1 == [s EXCEPT !.bold = bright]
           t2 == [t1 EXCEPT ![f] = c]
           u1 == [s EXCEPT !.bg_bold = bright]
           u2 == [u1 EXCEPT ![g] = d]
<1>1. Bold(s, bright) = t2 /\ BgBold(s, bright) = u2
  BY DEF Bold, BgBold
<1>2. f \in {"text_fg", "text_bg"} /\ g \in {"text_fg", "text_bg"}
  BY DEF Ink, Paper
<1>3. c \in Colours /\ d \in Colours
  BY WeightedType DEF Good, Sane, Inky
<1> HIDE DEF f, g, c, d
<1>4. Acts(s, t1) /\ Good(t1) /\ Acts(s, u1) /\ Good(u1)
  BY NotInFields, OtherFrame DEF Acts
<1> HIDE DEF t1, u1
<1>5. Acts(t1, t2) /\ Acts(u1, u2)
  BY <1>2, <1>3, <1>4, PenSet
<1> QED  BY <1>1, <1>4, <1>5, ActsTransitive

LEMMA UninkedActs ==
  ASSUME NEW s, Good(s)
  PROVE  Acts(s, Uninked(s)) /\ Acts(s, Unpapered(s))
<1> DEFINE f == Ink(s)
           g == Paper(s)
           c == Weighted("text_fg", s.bold, NONE)
           d == Weighted("text_bg", s.bg_bold, NONE)
           t1 == [s EXCEPT !.current_primary = NONE]
           t2 == [t1 EXCEPT ![f] = c]
           u1 == [s EXCEPT !.current_bg = NONE]
           u2 == [u1 EXCEPT ![g] = d]
<1>1. Uninked(s) = t2 /\ Unpapered(s) = u2
  BY DEF Uninked, Unpapered
<1>2. f \in {"text_fg", "text_bg"} /\ g \in {"text_fg", "text_bg"} /\ NONE \in Palette
  BY DEF Ink, Paper, Palette
<1>3. c \in Colours /\ d \in Colours
  BY <1>2, WeightedType
<1> HIDE DEF f, g, c, d
<1>4. Acts(s, t1) /\ Good(t1) /\ Acts(s, u1) /\ Good(u1)
  BY <1>2, PrimarySet DEF Acts
<1> HIDE DEF t1, u1
<1>5. Acts(t1, t2) /\ Acts(u1, u2)
  BY <1>2, <1>3, <1>4, PenSet
<1> QED  BY <1>1, <1>4, <1>5, ActsTransitive

\* Every attribute, whatever the number.
LEMMA AttributeActs ==
  ASSUME NEW s, Good(s), NEW v \in Nat
  PROVE  Acts(s, Attribute(s, v))
<1>1. \A bright : /\ Acts(s, Bold(s, bright)) /\ Acts(s, BgBold(s, bright))
                  /\ \A n \in 0 .. 7 : Acts(s, Inked(s, n, bright)) /\ Acts(s, Papered(s, n, bright))
  BY BoldActs, InkedActs
<1>2. /\ Acts(s, Reset(s)) /\ Acts(s, Uninked(s)) /\ Acts(s, Unpapered(s))
      /\ Acts(s, Reversed(s)) /\ Acts(s, Unreversed(s)) /\ Acts(s, s)
  BY ResetActs, UninkedActs, ReverseActs, ActsSelf
<1>3. /\ Acts(s, Bold(s, TRUE)) /\ Acts(s, Bold(s, FALSE))
      /\ Acts(s, BgBold(s, TRUE)) /\ Acts(s, BgBold(s, FALSE))
  BY <1>1, Zenon
<1>4. CASE v \in 30 .. 37
  <2>1. /\ v \notin {0, 1, 5, 7, 22, 25, 27, 39, 49} /\ v - 30 \in 0 .. 7
        /\ v \notin 40 .. 47 /\ v \notin 90 .. 97 /\ v \notin 100 .. 107
    BY <1>4
  <2>2. Attribute(s, v) = Inked(s, v - 30, s.bold)
    BY <1>4, <2>1 DEF Attribute
  <2> QED  BY <1>1, <2>1, <2>2
<1>5. CASE v \in 40 .. 47
  <2>1. /\ v \notin {0, 1, 5, 7, 22, 25, 27, 39, 49} /\ v - 40 \in 0 .. 7
        /\ v \notin 30 .. 37 /\ v \notin 90 .. 97 /\ v \notin 100 .. 107
    BY <1>5
  <2>2. Attribute(s, v) = Papered(s, v - 40, s.bg_bold)
    BY <1>5, <2>1 DEF Attribute
  <2> QED  BY <1>1, <2>1, <2>2
<1>6. CASE v \in 90 .. 97
  <2>1. /\ v \notin {0, 1, 5, 7, 22, 25, 27, 39, 49} /\ v - 90 \in 0 .. 7
        /\ v \notin 30 .. 37 /\ v \notin 40 .. 47 /\ v \notin 100 .. 107
    BY <1>6
  <2>2. Attribute(s, v) = Inked(s, v - 90, TRUE)
    BY <1>6, <2>1 DEF Attribute
  <2> QED  BY <1>1, <2>1, <2>2, Zenon
<1>7. CASE v \in 100 .. 107
  <2>1. /\ v \notin {0, 1, 5, 7, 22, 25, 27, 39, 49} /\ v - 100 \in 0 .. 7
        /\ v \notin 30 .. 37 /\ v \notin 40 .. 47 /\ v \notin 90 .. 97
    BY <1>7
  <2>2. Attribute(s, v) = Papered(s, v - 100, TRUE)
    BY <1>7, <2>1 DEF Attribute
  <2> QED  BY <1>1, <2>1, <2>2, Zenon
<1>8. CASE v \notin (30 .. 37) \cup (40 .. 47) \cup (90 .. 97) \cup (100 .. 107)
  BY <1>2, <1>3, <1>8 DEF Attribute
<1> QED
  BY <1>4, <1>5, <1>6, <1>7, <1>8

\* The extended colours: a palette of 256, and three parts.
LEMMA Palette256Type ==
  ASSUME NEW n \in Nat, NEW colour \in Colours
  PROVE  Palette256(colour, n) \in Colours
<1>1. CASE n < 8
  BY <1>1, ColourTypes DEF Palette256
<1>2. CASE 8 <= n /\ n < 16
  <2>1. n - 8 \in 0 .. 7
    BY <1>2
  <2> QED  BY <1>2, <2>1, ColourTypes DEF Palette256
<1>3. CASE 16 <= n /\ n < 256
  <2> DEFINE m == n - 16
             level(k) == IF k = 0 THEN 0 ELSE 55 + 40 * k
             grey == 8 + 10 * (m - 216)
  <2>1. m \in Nat /\ Palette256(colour, n) = col256(m)
    BY <1>3 DEF Palette256
  <2>2. \A k \in Nat : level(k) \in Nat
    OBVIOUS
  <2>3. m \div 36 \in Nat /\ (m \div 6) % 6 \in Nat /\ m % 6 \in Nat
    <3>1. \A a \in Nat : a \div 36 \in Nat /\ a \div 6 \in Nat /\ a % 6 \in Nat
      OBVIOUS
    <3> HIDE DEF m
    <3> QED  BY <2>1, <3>1
  <2>4. m >= 216 => grey \in Nat
    BY <2>1
  <2>5. col256(m) = IF m < 216 THEN Rgb(level(m \div 36), level((m \div 6) % 6), level(m % 6))
                    ELSE Rgb(grey, grey, grey)
    BY DEF col256
  <2> HIDE DEF m, level, grey
  <2>6. /\ level(m \div 36) \in Nat /\ level((m \div 6) % 6) \in Nat /\ level(m % 6) \in Nat
    BY <2>2, <2>3
  <2> QED  BY <2>1, <2>4, <2>5, <2>6, ColourTypes
<1>4. CASE n >= 256
  BY <1>4 DEF Palette256
<1> QED  BY <1>1, <1>2, <1>3, <1>4

LEMMA WidthType ==
  ASSUME NEW values \in Seq(Nat), NEW i \in 1 .. Len(values)
  PROVE  Width(values, i) \in {0, 1, 2, 3, 5} /\ (Width(values, i) # 0 => i + Width(values, i) - 1 <= Len(values))
<1>1. Len(values) \in Nat
  OBVIOUS
<1> QED  BY <1>1 DEF Width

LEMMA ColouredActs ==
  ASSUME NEW s, Good(s), NEW values \in Seq(Nat), NEW i \in 1 .. Len(values)
  PROVE  Acts(s, Coloured(s, values, i))
<1> DEFINE field == IF values[i] = 38 THEN "text_fg" ELSE "text_bg"
           w == Width(values, i)
           a == Rgb(values[i + 2], values[i + 3], values[i + 4])
           b == Palette256(s[field], values[i + 2])
<1>1. Coloured(s, values, i) = CASE w = 5 -> [s EXCEPT ![field] = a]
                                 [] w = 3 -> [s EXCEPT ![field] = b]
                                 [] OTHER -> s
  BY DEF Coloured
<1>2. field \in {"text_fg", "text_bg"} /\ s[field] \in Colours
  BY DEF Good, Sane, Inky
<1>3. w \in {0, 1, 2, 3, 5} /\ (w # 0 => i + w - 1 <= Len(values))
  BY WidthType
<1> HIDE DEF field, w
<1>4. w = 5 => a \in Colours
  <2> SUFFICES ASSUME w = 5 PROVE a \in Colours
    OBVIOUS
  <2>1. i + 2 \in 1 .. Len(values) /\ i + 3 \in 1 .. Len(values) /\ i + 4 \in 1 .. Len(values)
    BY <1>3
  <2>2. values[i + 2] \in Nat /\ values[i + 3] \in Nat /\ values[i + 4] \in Nat
    BY <2>1
  <2> QED  BY <2>2, ColourTypes
<1>5. w = 3 => b \in Colours
  <2> SUFFICES ASSUME w = 3 PROVE b \in Colours
    OBVIOUS
  <2>1. i + 2 \in 1 .. Len(values)
    BY <1>3
  <2>2. values[i + 2] \in Nat
    BY <2>1
  <2> QED  BY <1>2, <2>2, Palette256Type
<1> HIDE DEF a, b
<1>6. CASE w = 5
  <2>1. Coloured(s, values, i) = [s EXCEPT ![field] = a]
    BY <1>1, <1>6
  <2>2. a \in Colours
    BY <1>4, <1>6
  <2>3. Acts(s, [s EXCEPT ![field] = a])
    BY <1>2, <2>2, PenSet
  <2> QED  BY <2>1, <2>3
<1>7. CASE w = 3
  <2>1. Coloured(s, values, i) = [s EXCEPT ![field] = b]
    BY <1>1, <1>7
  <2>2. b \in Colours
    BY <1>5, <1>7
  <2>3. Acts(s, [s EXCEPT ![field] = b])
    BY <1>2, <2>2, PenSet
  <2> QED  BY <2>1, <2>3
<1>8. CASE w \notin {3, 5}
  BY <1>1, <1>8, ActsSelf
<1> QED  BY <1>6, <1>7, <1>8

\* A sequence of attributes, of any length.
LEMMA SgrActs ==
  ASSUME NEW s, Good(s), NEW values \in Seq(Nat)
  PROVE  Acts(s, sgr(s, values))
<1> DEFINE step(r, k) ==
             IF r.i > Len(values) \/ Width(values, r.i) = 0 THEN r
             ELSE [i |-> r.i + Width(values, r.i),
                   s |-> IF values[r.i] \in {38, 48} THEN Coloured(r.s, values, r.i)
                         ELSE Attribute(r.s, values[r.i])]
           n == Len(values)
           start == [i |-> 1, s |-> s]
           W == CHOOSE w : w = [k \in 0 .. n |-> IF k = 0 THEN start ELSE step(w[k - 1], k)]
           On(r) == r.i \in Nat \ {0} /\ Acts(s, r.s)
<1>1. CASE values = <<>>
  <2>1. sgr(s, values) = Attribute(s, 0)
    BY <1>1 DEF sgr
  <2> QED  BY <2>1, AttributeActs
<1>2. CASE values # <<>>
  <2>1. n \in Nat /\ n > 0
    BY <1>2
  <2>2. sgr(s, values) = W[n].s
    BY <1>2, <2>1 DEF sgr, Loop
  <2>3. ASSUME NEW r, On(r), NEW k PROVE On(step(r, k))
    <3>1. CASE r.i > Len(values) \/ Width(values, r.i) = 0
      BY <2>3, <3>1
    <3>2. CASE ~ (r.i > Len(values) \/ Width(values, r.i) = 0)
      <4> DEFINE t == IF values[r.i] \in {38, 48} THEN Coloured(r.s, values, r.i)
                      ELSE Attribute(r.s, values[r.i])
      <4>1. r.i \in 1 .. Len(values) /\ values[r.i] \in Nat
        BY <2>1, <2>3, <3>2
      <4>2. r.i + Width(values, r.i) \in Nat \ {0}
        <5>1. Width(values, r.i) \in {0, 1, 2, 3, 5}
          BY <4>1, WidthType
        <5> QED  BY <2>3, <5>1
      <4>3. Good(r.s)
        BY <2>3 DEF Acts
      <4>4. Acts(r.s, t)
        BY <4>1, <4>3, ColouredActs, AttributeActs
      <4> HIDE DEF t
      <4>5. Acts(s, t)
        BY <2>3, <4>4, ActsTransitive
      <4>6. step(r, k) = [i |-> r.i + Width(values, r.i), s |-> t]
        BY <3>2 DEF t
      <4> QED  BY <4>2, <4>5, <4>6
    <3> QED  BY <3>1, <3>2
  <2> HIDE DEF n, start
  <2>4. PICK w : Turns(w, "sgr", values, start, n)
    BY <2>1, TurnsExist
  <2>5. w = [k \in 0 .. n |-> IF k = 0 THEN start ELSE step(w[k - 1], k)]
    BY <2>4 DEF Turns, Turn
  <2> HIDE DEF step
  <2>6. W = [k \in 0 .. n |-> IF k = 0 THEN start ELSE step(W[k - 1], k)]
    BY <2>5
  <2> HIDE DEF W
  <2>7. W[0] = start /\ \A k \in 1 .. n : W[k] = step(W[k - 1], k)
    BY <2>1, <2>6
  <2> DEFINE K == {k \in Nat : On(W[k])}
  <2>8. 0 \in K
    <3>1. start.i = 1 /\ start.s = s
      BY DEF start
    <3> QED  BY <2>7, <3>1, ActsSelf
  <2> HIDE DEF On
  <2>9. ASSUME NEW k \in 1 .. n, k - 1 \in K PROVE k \in K
    BY <2>3, <2>7, <2>9
  <2> HIDE DEF K
  <2>10. n \in K
    BY <2>1, <2>8, <2>9, TurnsKeep DEF K
  <2> QED  BY <2>2, <2>10 DEF K, On
<1> QED  BY <1>1, <1>2

-----------------------------------------------------------------------------
(* Control sequences.                                                      *)

\* The cursor that a sequence saves.
LEMMA StoreFrame ==
  ASSUME NEW s, Good(s), NEW x \in Nat, NEW y \in Nat,
         NEW t, t = [s EXCEPT !.saved_cursor_x = x, !.saved_cursor_y = y]
  PROVE  Acts(s, t)
<1>1. Fields \subseteq DOMAIN s /\ Storing(s) /\ Inky(s) /\ Parsed(s)
  BY DEF Good, Sane, Shaped
<1>2. Shaped(t)
  BY <1>1 DEF Shaped
<1>3. SameDrawing(s, t) /\ SamePen(s, t) /\ SameParser(s, t)
  BY <1>1, InFields DEF SameDrawing, SamePen, SameParser
<1>4. t.saved = s.saved /\ t.saved_cursor_x = x /\ t.saved_cursor_y = y
  BY <1>1, InFields
<1>5. Storing(t)
  BY <1>1, <1>4 DEF Storing
<1>6. Inky(t)
  BY <1>1, <1>3 DEF Inky, SamePen
<1>7. Parsed(t)
  BY <1>1, <1>3 DEF Parsed, SameParser
<1> QED  BY <1>2, <1>3, <1>5, <1>6, <1>7, FrameActs

LEMMA InsertModeActs ==
  ASSUME NEW s, Good(s), NEW values, NEW set
  PROVE  Acts(s, InsertMode(s, values, set))
<1>1. Acts(s, [s EXCEPT !.insert_mode = set])
  BY NotInFields, OtherFrame
<1> QED  BY <1>1, ActsSelf DEF InsertMode

\* Every control sequence, with any values.
LEMMA ObeyedActs ==
  ASSUME NEW s, Good(s), NEW final
  PROVE  Acts(s, Obeyed(s, final))
<1> DEFINE x == GetX(s)
           y == GetY(s)
           n == Len(s.esc_values)
           v1 == IF 1 <= n THEN s.esc_values[1] ELSE s.filler
           v2 == IF 2 <= n THEN s.esc_values[2] ELSE s.filler
           one1 == IF v1 = 0 THEN 1 ELSE v1
           one2 == IF v2 = 0 THEN 1 ELSE v2
           top == IF s.esc_values = <<>> THEN 1 ELSE one1
           bottom == IF n < 2 THEN ROWS ELSE one2
<1>1. Sane(s) /\ s.esc_values \in Seq(Nat) /\ s.filler \in Nat
      /\ s.saved_cursor_x \in Int /\ s.saved_cursor_y \in Int
  <2>1. Sane(s) /\ Parsed(s) /\ Storing(s)
    BY DEF Good, Sane
  <2> QED  BY <2>1 DEF Parsed, Storing
<1>2. x \in Nat /\ y \in Nat /\ COLS \in Nat \ {0} /\ ROWS \in Nat \ {0}
  BY <1>1, PositionType, FramebufferAssumption
<1>3. v1 \in Nat /\ v2 \in Nat
  BY <1>1
<1>4. final = "A" => Obeyed(s, final) = CursorUp(s, x, v1)
  BY DEF Obeyed
<1>5. final = "F" => Obeyed(s, final) = CursorUp(s, 0, v1)
  BY DEF Obeyed
<1>6. final \in {"B", "e"} => Obeyed(s, final) = CursorDown(s, x, v1)
  BY DEF Obeyed
<1>7. final = "E" => Obeyed(s, final) = CursorDown(s, 0, v1)
  BY DEF Obeyed
<1>8. final \in {"C", "a"} => Obeyed(s, final) = Moved(s, x + v1, y)
  BY DEF Obeyed
<1>9. final = "D" => Obeyed(s, final) = Moved(s, x - v1, y)
  BY DEF Obeyed
<1>10. final = "d" => Obeyed(s, final) = Moved(s, x, Placed(v1, ROWS))
  BY DEF Obeyed
<1>11. final \in {"G", "grave"} => Obeyed(s, final) = Moved(s, Placed(v1, COLS), y)
  BY DEF Obeyed
<1>12. final \in {"H", "f"} => Obeyed(s, final) = Moved(s, one2 - 1, one1 - 1)
  BY DEF Obeyed
<1>13. final = "M" => Obeyed(s, final) = DeleteLines(s, v1)
  BY DEF Obeyed
<1>14. final = "L" => Obeyed(s, final) = InsertLines(s, v1)
  BY DEF Obeyed
<1>15. final = "J" => Obeyed(s, final) = EraseDisplay(s, v1)
  BY DEF Obeyed
<1>16. final = "K" => Obeyed(s, final) = EraseLine(s, v1)
  BY DEF Obeyed
<1>17. final = "@" => Obeyed(s, final) = InsertCharacters(s, v1)
  BY DEF Obeyed
<1>18. final = "P" => Obeyed(s, final) = DeleteCharacters(s, v1)
  BY DEF Obeyed
<1>19. final = "X" => Obeyed(s, final) = Stay(EraseCharacters(s, v1), s)
  BY DEF Obeyed
<1>20. final = "m" => Obeyed(s, final) = sgr(s, s.esc_values)
  BY DEF Obeyed
<1>21. final = "s" => Obeyed(s, final) = [s EXCEPT !.saved_cursor_x = x, !.saved_cursor_y = y]
  BY DEF Obeyed
<1>22. final = "u" => Obeyed(s, final) = Moved(s, s.saved_cursor_x, s.saved_cursor_y)
  BY DEF Obeyed
<1>23. final = "r" => Obeyed(s, final) = SetMargins(s, top, bottom)
  BY DEF Obeyed
<1>24. final \in {"l", "h"} => Obeyed(s, final) = InsertMode(s, s.esc_values, final = "h")
  BY DEF Obeyed
<1>25. final \notin {"A", "F", "B", "e", "E", "C", "a", "D", "d", "G", "grave", "H", "f", "M", "L", "J", "K", "@",
                 "P", "X", "m", "s", "u", "r", "l", "h"}
        => Obeyed(s, final) = s
  BY DEF Obeyed
<1> HIDE DEF x, y, v1, v2
<1>26. /\ one1 \in Nat \ {0} /\ one2 \in Nat \ {0}
       /\ Placed(v1, ROWS) \in Int /\ Placed(v1, COLS) \in Int
  BY <1>2, <1>3 DEF Placed, Least
<1>27. top \in Nat \ {0} /\ bottom \in Nat \ {0}
  BY <1>2, <1>26
<1> HIDE DEF one1, one2, top, bottom
<1>28. CASE final = "A"
  <2>1. Draws(s, CursorUp(s, x, v1))
    BY <1>1, <1>2, <1>3, <1>26, CursorUpDraws
  <2> QED  BY <1>4, <1>28, <2>1, DrawsActs
<1>29. CASE final = "F"
  <2>1. Draws(s, CursorUp(s, 0, v1))
    BY <1>1, <1>2, <1>3, <1>26, CursorUpDraws
  <2> QED  BY <1>5, <1>29, <2>1, DrawsActs
<1>30. CASE final \in {"B", "e"}
  <2>1. Draws(s, CursorDown(s, x, v1))
    BY <1>1, <1>2, <1>3, <1>26, CursorDownDraws
  <2> QED  BY <1>6, <1>30, <2>1, DrawsActs
<1>31. CASE final = "E"
  <2>1. Draws(s, CursorDown(s, 0, v1))
    BY <1>1, <1>2, <1>3, <1>26, CursorDownDraws
  <2> QED  BY <1>7, <1>31, <2>1, DrawsActs
<1>32. CASE final \in {"C", "a"}
  <2>1. Draws(s, Moved(s, x + v1, y))
    BY <1>1, <1>2, <1>3, <1>26, MovedDraws
  <2> QED  BY <1>8, <1>32, <2>1, DrawsActs
<1>33. CASE final = "D"
  <2>1. Draws(s, Moved(s, x - v1, y))
    BY <1>1, <1>2, <1>3, <1>26, MovedDraws
  <2> QED  BY <1>9, <1>33, <2>1, DrawsActs
<1>34. CASE final = "d"
  <2>1. Draws(s, Moved(s, x, Placed(v1, ROWS)))
    BY <1>1, <1>2, <1>3, <1>26, MovedDraws
  <2> QED  BY <1>10, <1>34, <2>1, DrawsActs
<1>35. CASE final \in {"G", "grave"}
  <2>1. Draws(s, Moved(s, Placed(v1, COLS), y))
    BY <1>1, <1>2, <1>3, <1>26, MovedDraws
  <2> QED  BY <1>11, <1>35, <2>1, DrawsActs
<1>36. CASE final \in {"H", "f"}
  <2>1. Draws(s, Moved(s, one2 - 1, one1 - 1))
    BY <1>1, <1>2, <1>3, <1>26, MovedDraws
  <2> QED  BY <1>12, <1>36, <2>1, DrawsActs
<1>37. CASE final = "M"
  <2>1. Draws(s, DeleteLines(s, v1))
    BY <1>1, <1>2, <1>3, <1>26, DeleteLinesDraws
  <2> QED  BY <1>13, <1>37, <2>1, DrawsActs
<1>38. CASE final = "L"
  <2>1. Draws(s, InsertLines(s, v1))
    BY <1>1, <1>2, <1>3, <1>26, InsertLinesDraws
  <2> QED  BY <1>14, <1>38, <2>1, DrawsActs
<1>39. CASE final = "J"
  <2>1. Draws(s, EraseDisplay(s, v1))
    BY <1>1, <1>2, <1>3, <1>26, EraseDisplayDraws
  <2> QED  BY <1>15, <1>39, <2>1, DrawsActs
<1>40. CASE final = "K"
  <2>1. Draws(s, EraseLine(s, v1))
    BY <1>1, <1>2, <1>3, <1>26, EraseLineDraws
  <2> QED  BY <1>16, <1>40, <2>1, DrawsActs
<1>41. CASE final = "@"
  <2>1. Draws(s, InsertCharacters(s, v1))
    BY <1>1, <1>2, <1>3, <1>26, InsertCharactersDraws
  <2> QED  BY <1>17, <1>41, <2>1, DrawsActs
<1>42. CASE final = "P"
  <2>1. Draws(s, DeleteCharacters(s, v1))
    BY <1>1, <1>2, <1>3, <1>26, DeleteCharactersDraws
  <2> QED  BY <1>18, <1>42, <2>1, DrawsActs
<1>43. CASE final = "X"
  <2>1. Draws(s, EraseCharacters(s, v1))
    BY <1>1, <1>3, EraseCharactersDraws
  <2>2. Draws(EraseCharacters(s, v1), Stay(EraseCharacters(s, v1), s))
    BY <1>1, <2>1, StayDraws DEF Draws
  <2> QED  BY <1>19, <1>43, <2>1, <2>2, DrawsTransitive, DrawsActs
<1>44. CASE final = "m"
  BY <1>1, <1>20, <1>44, SgrActs
<1>45. CASE final = "s"
  BY <1>2, <1>21, <1>45, StoreFrame
<1>46. CASE final = "u"
  <2>1. Draws(s, Moved(s, s.saved_cursor_x, s.saved_cursor_y))
    BY <1>1, <1>2, <1>3, <1>26, MovedDraws
  <2> QED  BY <1>22, <1>46, <2>1, DrawsActs
<1>47. CASE final = "r"
  BY <1>27, <1>23, <1>47, SetMarginsActs
<1>48. CASE final \in {"l", "h"}
  <2>1. \A set : Acts(s, InsertMode(s, s.esc_values, set))
    BY InsertModeActs
  <2> QED  BY <1>24, <1>48, <2>1, Zenon
<1>49. CASE final \notin {"A", "F", "B", "e", "E", "C", "a", "D", "d", "G", "grave", "H", "f", "M", "L", "J", "K", "@",
                 "P", "X", "m", "s", "u", "r", "l", "h"}
  BY <1>25, <1>49, ActsSelf
<1> QED
  BY <1>28, <1>29, <1>30, <1>31, <1>32, <1>33, <1>34, <1>35, <1>36, <1>37, <1>38, <1>39,
     <1>40, <1>41, <1>42, <1>43, <1>44, <1>45, <1>46, <1>47, <1>48, <1>49

-----------------------------------------------------------------------------
(* The parser.                                                             *)

ParserFields == {"control_sequence", "osc", "rrr", "unicode_remaining", "g_select",
                 "esc_values", "number", "filler"}

\* t differs from s in some fields at most.
Elsewhere(s, t, fields) == DOMAIN t = DOMAIN s /\ \A f \in DOMAIN s \ fields : t[f] = s[f]

\* The parser's state does not bear on the other parts of the invariant.
LEMMA ParserActs ==
  ASSUME NEW s, Good(s), NEW t, Elsewhere(s, t, ParserFields), Parsed(t)
  PROVE  Acts(s, t)
<1>1. Fields \subseteq DOMAIN s /\ Shaped(t)
  BY DEF Good, Sane, Shaped, Elsewhere
<1>2. SameDrawing(s, t) /\ SamePen(s, t) /\ SameStore(s, t)
  BY <1>1, InFields DEF ParserFields, Elsewhere, SameDrawing, SamePen, SameStore
<1> QED  BY <1>1, <1>2, ParserFrame

\* The parts of the parser that a step sets.
LEMMA StateActs ==
  ASSUME NEW s, Good(s), NEW t, Elsewhere(s, t, {"osc", "control_sequence"}),
         t.osc \in BOOLEAN, t.control_sequence \in BOOLEAN, ~ (t.osc /\ t.control_sequence)
  PROVE  Acts(s, t)
<1>1. Fields \subseteq DOMAIN s /\ Parsed(s)
  BY DEF Good, Sane, Shaped
<1>2. Elsewhere(s, t, ParserFields)
  BY DEF Elsewhere, ParserFields
<1>3. /\ t.autoflush = s.autoflush /\ t.rrr = s.rrr /\ t.esc_values = s.esc_values
      /\ t.number = s.number /\ t.filler = s.filler
      /\ t.unicode_remaining = s.unicode_remaining /\ t.g_select = s.g_select
  BY <1>1, InFields DEF Elsewhere
<1>4. Parsed(t)
  BY <1>1, <1>3 DEF Parsed
<1> QED  BY <1>2, <1>4, ParserActs

LEMMA ValuesActs ==
  ASSUME NEW s, Good(s), NEW t, Elsewhere(s, t, {"esc_values", "rrr", "number", "filler"}),
         t.esc_values \in Seq(Nat), t.rrr \in BOOLEAN, t.number \in Nat, t.filler \in Nat,
         Len(t.esc_values) + (IF t.rrr THEN 1 ELSE 0) <= FLANTERM_MAX_ESC_VALUES
  PROVE  Acts(s, t)
<1>1. Fields \subseteq DOMAIN s /\ Parsed(s)
  BY DEF Good, Sane, Shaped
<1>2. Elsewhere(s, t, ParserFields)
  BY DEF Elsewhere, ParserFields
<1>3. /\ t.autoflush = s.autoflush /\ t.osc = s.osc /\ t.control_sequence = s.control_sequence
      /\ t.unicode_remaining = s.unicode_remaining /\ t.g_select = s.g_select
  BY <1>1, InFields DEF Elsewhere
<1>4. Parsed(t)
  BY <1>1, <1>3 DEF Parsed
<1> QED  BY <1>2, <1>4, ParserActs

LEMMA CountsActs ==
  ASSUME NEW s, Good(s), NEW t, Elsewhere(s, t, {"unicode_remaining", "g_select"}),
         t.unicode_remaining \in 0 .. 3, t.g_select \in 0 .. 2
  PROVE  Acts(s, t)
<1>1. Fields \subseteq DOMAIN s /\ Parsed(s)
  BY DEF Good, Sane, Shaped
<1>2. Elsewhere(s, t, ParserFields)
  BY DEF Elsewhere, ParserFields
<1>3. /\ t.autoflush = s.autoflush /\ t.osc = s.osc /\ t.control_sequence = s.control_sequence
      /\ t.rrr = s.rrr /\ t.esc_values = s.esc_values /\ t.number = s.number /\ t.filler = s.filler
  BY <1>1, InFields DEF Elsewhere
<1>4. Parsed(t)
  BY <1>1, <1>3 DEF Parsed
<1> QED  BY <1>2, <1>4, ParserActs

\* At the end of a sequence.
LEMMA EndedActs ==
  ASSUME NEW s, Good(s)
  PROVE  Acts(s, Ended(s))
<1> DEFINE t == [s EXCEPT !.control_sequence = FALSE]
<1>1. Fields \subseteq DOMAIN s /\ s.osc \in BOOLEAN
  BY DEF Good, Sane, Shaped, Parsed
<1>2. t.osc = s.osc /\ t.control_sequence = FALSE
  BY <1>1, InFields
<1>3. Elsewhere(s, t, {"osc", "control_sequence"})
  BY DEF Elsewhere
<1>4. Ended(s) = [t EXCEPT !.escape = FALSE]
  BY DEF Ended
<1> HIDE DEF t
<1>5. t.osc \in BOOLEAN /\ t.control_sequence \in BOOLEAN /\ ~ (t.osc /\ t.control_sequence)
  BY <1>1, <1>2
<1>6. Acts(s, t)
  BY <1>3, <1>5, StateActs
<1>7. \A v : Acts(t, [t EXCEPT !.escape = v])
  BY <1>6, NotInFields, OtherFrame DEF Acts
<1>8. Acts(t, [t EXCEPT !.escape = FALSE])
  BY <1>7, Zenon
<1> QED  BY <1>4, <1>6, <1>8, ActsTransitive

LEMMA CollectedType ==
  ASSUME NEW s, Good(s)
  PROVE  LET t == Collected(s)
         IN  /\ Elsewhere(s, t, {"esc_values", "rrr", "number", "filler"})
             /\ t.esc_values \in Seq(Nat) /\ t.rrr = FALSE /\ t.number \in Nat /\ t.filler \in Nat
             /\ Len(t.esc_values) <= FLANTERM_MAX_ESC_VALUES
<1> DEFINE values == IF s.rrr THEN Append(s.esc_values, s.number) ELSE s.esc_values
           t == Collected(s)
<1>1. Fields \subseteq DOMAIN s /\ Parsed(s)
  BY DEF Good, Sane, Shaped
<1>2. /\ s.rrr \in BOOLEAN /\ s.esc_values \in Seq(Nat) /\ s.number \in Nat /\ s.filler \in Nat
      /\ Len(s.esc_values) + (IF s.rrr THEN 1 ELSE 0) <= FLANTERM_MAX_ESC_VALUES
  BY <1>1 DEF Parsed
<1>3. /\ Elsewhere(s, t, {"esc_values", "rrr", "number", "filler"})
      /\ t.esc_values = values /\ t.rrr = FALSE /\ t.number = s.filler /\ t.filler = s.filler
  BY <1>1, InFields DEF Elsewhere, Collected
<1>4. values \in Seq(Nat) /\ Len(values) <= FLANTERM_MAX_ESC_VALUES
  <2>1. CASE s.rrr
    <3>1. Len(values) = Len(s.esc_values) + 1 /\ values \in Seq(Nat) /\ Len(s.esc_values) \in Nat
      BY <1>2, <2>1
    <3> QED  BY <1>2, <2>1, <3>1, TerminalAssumption
  <2>2. CASE ~ s.rrr
    <3>1. Len(s.esc_values) \in Nat /\ Len(s.esc_values) + 0 <= FLANTERM_MAX_ESC_VALUES
      BY <1>2, <2>2
    <3> QED  BY <1>2, <2>2, <3>1
  <2> QED  BY <2>1, <2>2
<1> HIDE DEF values, t
<1>5. t.esc_values \in Seq(Nat) /\ t.number \in Nat /\ t.filler \in Nat
      /\ Len(t.esc_values) <= FLANTERM_MAX_ESC_VALUES
  BY <1>2, <1>3, <1>4
<1> QED  BY <1>3, <1>5 DEF t

LEMMA CollectedActs ==
  ASSUME NEW s, Good(s)
  PROVE  Acts(s, Collected(s))
<1> DEFINE t == Collected(s)
<1>1. /\ Elsewhere(s, t, {"esc_values", "rrr", "number", "filler"})
      /\ t.esc_values \in Seq(Nat) /\ t.rrr = FALSE /\ t.number \in Nat /\ t.filler \in Nat
      /\ Len(t.esc_values) <= FLANTERM_MAX_ESC_VALUES
  BY CollectedType
<1> HIDE DEF t
<1>2. Len(t.esc_values) + 0 <= FLANTERM_MAX_ESC_VALUES
  BY <1>1
<1>3. Acts(s, t)
  BY <1>1, <1>2, ValuesActs
<1> QED  BY <1>3 DEF t

\* At the end of the values their default is known.
LEMMA CompleteActs ==
  ASSUME NEW s, Good(s), NEW default \in Nat
  PROVE  Acts(s, [Collected(s) EXCEPT !.filler = default, !.number = default])
<1> DEFINE t == Collected(s)
           u == [t EXCEPT !.filler = default, !.number = default]
<1>1. /\ Elsewhere(s, t, {"esc_values", "rrr", "number", "filler"})
      /\ t.esc_values \in Seq(Nat) /\ t.rrr = FALSE
      /\ Len(t.esc_values) <= FLANTERM_MAX_ESC_VALUES
  BY CollectedType
<1>2. Fields \subseteq DOMAIN s
  BY DEF Good, Sane, Shaped
<1> HIDE DEF t
<1>3. /\ Elsewhere(s, u, {"esc_values", "rrr", "number", "filler"})
      /\ u.esc_values = t.esc_values /\ u.rrr = FALSE /\ u.number = default /\ u.filler = default
  BY <1>1, <1>2, InFields DEF Elsewhere
<1>4. Len(u.esc_values) + 0 <= FLANTERM_MAX_ESC_VALUES
  BY <1>1, <1>3
<1> HIDE DEF u
<1>5. Acts(s, u)
  BY <1>1, <1>3, <1>4, ValuesActs
<1> QED  BY <1>5 DEF t, u

\* What a byte does inside a control sequence.
LEMMA DigitActs ==
  ASSUME NEW s, Good(s), NEW digit \in Nat
  PROVE  Acts(s, Digit(s, digit))
<1> DEFINE n == s.number * 10 + digit
           t == [s EXCEPT !.rrr = TRUE, !.number = n]
<1>1. /\ Fields \subseteq DOMAIN s /\ s.rrr \in BOOLEAN /\ s.esc_values \in Seq(Nat)
      /\ s.number \in Nat /\ s.filler \in Nat
      /\ Len(s.esc_values) + (IF s.rrr THEN 1 ELSE 0) <= FLANTERM_MAX_ESC_VALUES
  BY DEF Good, Sane, Shaped, Parsed
<1>2. CASE Full(s)
  BY <1>2, ActsSelf DEF Digit
<1>3. CASE ~ Full(s)
  <2>1. n \in Nat
    BY <1>1
  <2>2. Len(s.esc_values) + 1 <= FLANTERM_MAX_ESC_VALUES
    <3>1. Len(s.esc_values) \in Nat /\ FLANTERM_MAX_ESC_VALUES \in Nat
      BY <1>1, TerminalAssumption
    <3>2. Len(s.esc_values) # FLANTERM_MAX_ESC_VALUES
      BY <1>3 DEF Full
    <3>3. Len(s.esc_values) <= FLANTERM_MAX_ESC_VALUES
      <4> DEFINE m == Len(s.esc_values)
      <4>1. m \in Nat /\ m + (IF s.rrr THEN 1 ELSE 0) <= FLANTERM_MAX_ESC_VALUES
        BY <1>1, <3>1, Zenon
      <4> HIDE DEF m
      <4>2. m <= FLANTERM_MAX_ESC_VALUES
        BY <3>1, <4>1
      <4> QED  BY <4>2 DEF m
    <3> QED  BY <3>1, <3>2, <3>3
  <2>3. Digit(s, digit) = t
    BY <1>3 DEF Digit
  <2>4. /\ Elsewhere(s, t, {"esc_values", "rrr", "number", "filler"})
        /\ t.esc_values = s.esc_values /\ t.rrr = TRUE /\ t.number = n /\ t.filler = s.filler
    BY <1>1, InFields DEF Elsewhere
  <2> HIDE DEF n, t
  <2>5. Acts(s, t)
    BY <1>1, <2>1, <2>2, <2>4, ValuesActs
  <2> QED  BY <2>3, <2>5
<1> QED  BY <1>2, <1>3

LEMMA SemicolonActs ==
  ASSUME NEW s, Good(s)
  PROVE  Acts(s, Semicolon(s))
<1> DEFINE values == Append(s.esc_values, 0)
           t == [s EXCEPT !.esc_values = values]
<1>1. /\ Fields \subseteq DOMAIN s /\ s.rrr \in BOOLEAN /\ s.esc_values \in Seq(Nat)
      /\ s.number \in Nat /\ s.filler \in Nat
      /\ Len(s.esc_values) + (IF s.rrr THEN 1 ELSE 0) <= FLANTERM_MAX_ESC_VALUES
  BY DEF Good, Sane, Shaped, Parsed
<1>2. CASE s.rrr
  <2>1. Semicolon(s) = Collected(s)
    BY <1>2 DEF Semicolon
  <2>2. Acts(s, Collected(s))
    BY CollectedActs
  <2> QED  BY <2>1, <2>2
<1>3. CASE ~ s.rrr /\ Full(s)
  BY <1>3, ActsSelf DEF Semicolon
<1>4. CASE ~ s.rrr /\ ~ Full(s)
  <2>1. values \in Seq(Nat) /\ Len(values) = Len(s.esc_values) + 1
    BY <1>1
  <2>2. Len(values) + 0 <= FLANTERM_MAX_ESC_VALUES
    <3>1. Len(s.esc_values) \in Nat /\ FLANTERM_MAX_ESC_VALUES \in Nat
      BY <1>1, TerminalAssumption
    <3>2. Len(s.esc_values) # FLANTERM_MAX_ESC_VALUES
      BY <1>4 DEF Full
    <3> DEFINE m == Len(s.esc_values)
    <3>3. m + 0 <= FLANTERM_MAX_ESC_VALUES
      BY <1>1, <1>4
    <3> HIDE DEF m
    <3>4. m + 1 <= FLANTERM_MAX_ESC_VALUES
      BY <3>1, <3>2, <3>3 DEF m
    <3> QED  BY <2>1, <3>1, <3>4 DEF m
  <2>3. Semicolon(s) = t
    BY <1>4 DEF Semicolon
  <2>4. /\ Elsewhere(s, t, {"esc_values", "rrr", "number", "filler"})
        /\ t.esc_values = values /\ t.rrr = s.rrr /\ t.number = s.number /\ t.filler = s.filler
    BY <1>1, InFields DEF Elsewhere
  <2> HIDE DEF values, t
  <2>5. Acts(s, t)
    BY <1>1, <1>4, <2>1, <2>2, <2>4, ValuesActs
  <2> QED  BY <2>3, <2>5
<1> QED  BY <1>2, <1>3, <1>4

LEMMA PrivateActs ==
  ASSUME NEW s, Good(s), NEW char
  PROVE  Acts(s, dec_private_parse(s, char))
<1> DEFINE t == dec_private_parse(s, char)
<1>1. Fields \subseteq DOMAIN s /\ Parsed(s)
  BY DEF Good, Sane, Shaped
<1>2. Elsewhere(s, t, {"dec_private", "cursor_enabled"})
  BY DEF dec_private_parse, Elsewhere
<1> HIDE DEF t
<1>3. Shaped(t) /\ SameDrawing(s, t) /\ SamePen(s, t) /\ SameStore(s, t) /\ SameParser(s, t)
  BY <1>1, <1>2, InFields
     DEF Elsewhere, Shaped, SameDrawing, SamePen, SameStore, SameParser
<1>4. Parsed(t)
  BY <1>1, <1>3 DEF Parsed, SameParser
<1>5. Acts(s, t)
  BY <1>3, <1>4, ParserFrame
<1> QED  BY <1>5 DEF t

\* Fields that the invariant does not speak of.
LEMMA OthersActs ==
  ASSUME NEW s, Good(s), NEW t, NEW fields, fields \cap Fields = {}, Elsewhere(s, t, fields)
  PROVE  Acts(s, t)
<1>1. Fields \subseteq DOMAIN s /\ Parsed(s)
  BY DEF Good, Sane, Shaped
<1>2. DOMAIN t = DOMAIN s /\ \A f \in Fields : t[f] = s[f]
  BY <1>1 DEF Elsewhere
<1>3. Shaped(t) /\ SameDrawing(s, t) /\ SamePen(s, t) /\ SameStore(s, t) /\ SameParser(s, t)
  BY <1>1, <1>2, InFields DEF Shaped, SameDrawing, SamePen, SameStore, SameParser
<1>4. Parsed(t)
  BY <1>1, <1>3 DEF Parsed, SameParser
<1> QED  BY <1>3, <1>4, ParserFrame

LEMMA FinalActs ==
  ASSUME NEW s, Good(s), NEW c
  PROVE  Acts(s, Final(s, c))
<1> DEFINE still == [s EXCEPT !.scroll_enabled = FALSE]
           handled == [still EXCEPT !.csi_unhandled = FALSE]
           unknown == [still EXCEPT !.csi_unhandled = TRUE]
           obeyed == Obeyed(still, CharOf(c))
           again == Rescrolling(obeyed, s.scroll_enabled)
<1>1. /\ Elsewhere(s, still, {"scroll_enabled"})
      /\ Elsewhere(still, handled, {"csi_unhandled"})
      /\ Elsewhere(still, unknown, {"csi_unhandled"})
  BY DEF Elsewhere
<1>2. {"scroll_enabled"} \cap Fields = {} /\ {"csi_unhandled"} \cap Fields = {}
  BY NotInFields
<1>3. \/ Final(s, c) = Ended(handled) \/ Final(s, c) = still
      \/ Final(s, c) = Ended(again) \/ Final(s, c) = unknown
  BY DEF Final
<1>4. Elsewhere(obeyed, again, {"scroll_enabled"})
  BY DEF Rescrolling, Elsewhere
<1> HIDE DEF still, again, handled, unknown
<1>5. Acts(s, still) /\ Good(still)
  BY <1>1, <1>2, OthersActs DEF Acts
<1>6. Acts(still, handled) /\ Acts(still, unknown)
  BY <1>1, <1>2, <1>5, OthersActs
<1>7. Acts(s, handled) /\ Acts(s, unknown)
  BY <1>5, <1>6, ActsTransitive
<1>8. Acts(s, Ended(handled))
  BY <1>7, EndedActs, ActsTransitive DEF Acts
<1>9. Acts(still, obeyed)
  BY <1>5, ObeyedActs
<1> HIDE DEF obeyed
<1>10. Acts(s, obeyed) /\ Good(obeyed)
  BY <1>5, <1>9, ActsTransitive DEF Acts
<1>11. Acts(obeyed, again)
  BY <1>2, <1>4, <1>10, OthersActs
<1>12. Acts(s, again) /\ Good(again)
  BY <1>10, <1>11, ActsTransitive DEF Acts
<1>13. Acts(s, Ended(again))
  BY <1>12, EndedActs, ActsTransitive
<1> QED  BY <1>3, <1>5, <1>7, <1>8, <1>13

LEMMA DigitsOnly ==
  ASSUME NEW c \in 48 .. 57
  PROVE  CharOf(c) \notin {"[", "?", ";"}
<1>1. CharOf(c) = Printable[c - 31]
  BY DEF CharOf
<1>2. /\ Printable[17] = "0" /\ Printable[18] = "1" /\ Printable[19] = "2"
      /\ Printable[20] = "3" /\ Printable[21] = "4" /\ Printable[22] = "5"
      /\ Printable[23] = "6" /\ Printable[24] = "7" /\ Printable[25] = "8"
      /\ Printable[26] = "9"
  BY DEF Printable
<1>3. c - 31 \in {17, 18, 19, 20, 21, 22, 23, 24, 25, 26}
  OBVIOUS
<1>4. CharOf(c) \in {"0", "1", "2", "3", "4", "5", "6", "7", "8", "9"}
  BY <1>1, <1>2, <1>3
<1> QED  BY <1>4, Zenon

\* Any byte inside a control sequence.
LEMMA ControlSequenceActs ==
  ASSUME NEW s, Good(s), NEW c \in Nat
  PROVE  Acts(s, control_sequence_parse(s, c))
<1> DEFINE char == CharOf(c)
           default == IF char \in {"J", "K", "q"} THEN 0 ELSE 1
           complete == [Collected(s) EXCEPT !.filler = default, !.number = default]
           discarding == [s EXCEPT !.discard_next = TRUE]
           private == [s EXCEPT !.dec_private = TRUE]
           shown == dec_private_parse(complete, char)
           t == control_sequence_parse(s, c)
<1>1. \/ t = Ended(discarding)
      \/ t = private
      \/ c \in 48 .. 57 /\ t = Digit(s, c - 48)
      \/ t = Semicolon(s)
      \/ t = Ended(shown)
      \/ t = Final(complete, c)
  <2> DEFINE bracket == s.escape_offset = 2 /\ char = "["
             query == s.escape_offset = 2 /\ char = "?"
             semicolon == char = ";"
             digit == c \in 48 .. 57
             last == IF s.dec_private THEN Ended(shown) ELSE Final(complete, c)
  <2>1. t = CASE bracket -> Ended(discarding)
              [] query -> private
              [] digit -> Digit(s, c - 48)
              [] semicolon -> Semicolon(s)
              [] OTHER -> last
    BY Zenon DEF control_sequence_parse
  <2>2. last \in {Ended(shown), Final(complete, c)}
    OBVIOUS
  <2>3. digit => ~ bracket /\ ~ query /\ ~ semicolon
    <3>1. digit => char \notin {"[", "?", ";"}
      BY DigitsOnly, Zenon
    <3> QED  BY <3>1, Zenon
  <2>4. ~ (bracket /\ query) /\ ~ (bracket /\ semicolon) /\ ~ (query /\ semicolon)
    BY Zenon
  <2> HIDE DEF discarding, private, shown, complete, char, t, last, bracket, query, semicolon
  <2>5. CASE bracket
    BY <2>1, <2>3, <2>4, <2>5
  <2>6. CASE query
    BY <2>1, <2>3, <2>4, <2>6
  <2>7. CASE digit
    BY <2>1, <2>3, <2>7
  <2>8. CASE semicolon
    BY <2>1, <2>3, <2>4, <2>8
  <2>9. CASE ~ bracket /\ ~ query /\ ~ digit /\ ~ semicolon
    BY <2>1, <2>2, <2>9
  <2> QED  BY <2>5, <2>6, <2>7, <2>8, <2>9
<1>2. Elsewhere(s, discarding, {"discard_next"}) /\ Elsewhere(s, private, {"dec_private"})
  BY DEF Elsewhere
<1>3. {"discard_next"} \cap Fields = {} /\ {"dec_private"} \cap Fields = {}
  BY NotInFields
<1> HIDE DEF discarding, private, t
<1>4. Acts(s, discarding) /\ Acts(s, private)
  BY <1>2, <1>3, OthersActs
<1>5. Acts(s, Ended(discarding))
  BY <1>4, EndedActs, ActsTransitive DEF Acts
<1>6. default \in Nat
  OBVIOUS
<1> HIDE DEF default, char
<1>7. Acts(s, complete)
  BY <1>6, CompleteActs, Zenon
<1> HIDE DEF complete
<1>8. Good(complete)
  BY <1>7 DEF Acts
<1>9. Acts(s, shown)
  BY <1>7, <1>8, PrivateActs, ActsTransitive
<1> HIDE DEF shown
<1>10. Acts(s, Ended(shown))
  BY <1>9, EndedActs, ActsTransitive DEF Acts
<1>11. Acts(s, Final(complete, c))
  BY <1>7, <1>8, FinalActs, ActsTransitive
<1>12. c \in 48 .. 57 => Acts(s, Digit(s, c - 48))
  <2>1. c \in 48 .. 57 => c - 48 \in Nat
    OBVIOUS
  <2> QED  BY <2>1, DigitActs
<1>13. Acts(s, Semicolon(s))
  BY SemicolonActs
<1>14. Acts(s, t)
  BY <1>1, <1>4, <1>5, <1>10, <1>11, <1>12, <1>13
<1> QED  BY <1>14 DEF t

-----------------------------------------------------------------------------
(* The other escapes.                                                      *)

\* The one that begins.
LEMMA SequenceActs ==
  ASSUME NEW s, Good(s), ~ s.osc
  PROVE  Acts(s, Sequence(s))
<1> DEFINE t == [s EXCEPT !.control_sequence = TRUE]
           u == [t EXCEPT !.esc_values = <<>>, !.number = 0, !.filler = 0, !.rrr = FALSE]
           v == [u EXCEPT !.csi_unhandled = FALSE]
<1>1. Fields \subseteq DOMAIN s /\ s.osc \in BOOLEAN
  BY DEF Good, Sane, Shaped, Parsed
<1>2. Elsewhere(s, t, {"osc", "control_sequence"}) /\ t.control_sequence = TRUE /\ t.osc = s.osc
  BY <1>1, InFields DEF Elsewhere
<1>3. Sequence(s) = v
  BY DEF Sequence
<1> HIDE DEF t
<1>4. Acts(s, t)
  BY <1>1, <1>2, StateActs
<1>5. Good(t) /\ Fields \subseteq DOMAIN t
  BY <1>4 DEF Acts, Good, Sane, Shaped
<1>6. /\ Elsewhere(t, u, {"esc_values", "rrr", "number", "filler"})
      /\ u.esc_values = <<>> /\ u.rrr = FALSE /\ u.number = 0 /\ u.filler = 0
  BY <1>5, InFields DEF Elsewhere
<1>7. Elsewhere(u, v, {"csi_unhandled"})
  BY DEF Elsewhere
<1>8. {"csi_unhandled"} \cap Fields = {}
  BY NotInFields
<1> HIDE DEF u, v
<1>9. u.esc_values \in Seq(Nat) /\ Len(u.esc_values) + 0 <= FLANTERM_MAX_ESC_VALUES
  BY <1>6, TerminalAssumption
<1>10. Acts(t, u)
  <2>1. u.number \in Nat /\ u.filler \in Nat
    BY <1>6
  <2> QED  BY <1>5, <1>6, <1>9, <2>1, ValuesActs
<1>11. Acts(s, u) /\ Good(u)
  BY <1>4, <1>10, ActsTransitive DEF Acts
<1>12. Acts(u, v)
  BY <1>7, <1>8, <1>11, OthersActs
<1> QED  BY <1>3, <1>11, <1>12, ActsTransitive

\* The invariant by its parts, for what changes more than one of them.
LEMMA PartsActs ==
  ASSUME NEW s, Good(s), NEW t, Shaped(t), Placing(t), Region(t), Inky(t), Storing(t), Parsed(t),
         t.scroll_top_margin + Least(2, ROWS) <= t.scroll_bottom_margin,
         t.queue = s.queue, t.map = s.map, Painting(t) = Painting(s)
  PROVE  Acts(s, t)
<1>1. Queued(s)
  BY DEF Good, Sane
<1>2. Queued(t)
  BY <1>1 DEF Queued, Painting
<1> QED  BY <1>2 DEF Acts, Good, Sane

\* ESC 7 and ESC 8: what is saved is as good as what is in use.
LEMMA SaveActs ==
  ASSUME NEW s, Good(s)
  PROVE  Acts(s, save_state(s))
<1> DEFINE t == save_state(s)
           u == flanterm_fb_save_state(s)
<1>1. Fields \subseteq DOMAIN s /\ Storing(s) /\ Inky(s) /\ Placing(s) /\ Parsed(s)
  BY DEF Good, Sane, Shaped
<1>2. SavedFields \subseteq DOMAIN s.saved
  BY <1>1 DEF Storing
<1>3. Elsewhere(s, u, {"saved"}) /\ Elsewhere(u, t, {"saved"})
  BY DEF save_state, flanterm_fb_save_state, Elsewhere
<1>4. /\ DOMAIN u.saved = DOMAIN s.saved
      /\ u.saved.text_fg = s.text_fg /\ u.saved.text_bg = s.text_bg
      /\ u.saved.cursor_x = s.cursor_x /\ u.saved.cursor_y = s.cursor_y
  BY <1>1, <1>2, InFields DEF flanterm_fb_save_state, SavedFields
<1> HIDE DEF u
<1>5. Fields \subseteq DOMAIN u
  BY <1>1, <1>3 DEF Elsewhere
<1>6. /\ DOMAIN t.saved = DOMAIN s.saved
      /\ t.saved.text_fg = s.text_fg /\ t.saved.text_bg = s.text_bg
      /\ t.saved.cursor_x = s.cursor_x /\ t.saved.cursor_y = s.cursor_y
      /\ t.saved.current_primary = s.current_primary /\ t.saved.current_bg = s.current_bg
  BY <1>2, <1>4, <1>5, InFields DEF save_state, u, SavedFields
<1> HIDE DEF t
<1>7. /\ Shaped(t) /\ SameDrawing(s, t) /\ SamePen(s, t) /\ SameParser(s, t)
      /\ t.saved_cursor_x = s.saved_cursor_x /\ t.saved_cursor_y = s.saved_cursor_y
  BY <1>1, <1>3, <1>5, InFields DEF Elsewhere, Shaped, SameDrawing, SamePen, SameParser
<1>8. Storing(t)
  <2>1. Inky(t.saved)
    BY <1>1, <1>6 DEF Inky
  <2>2. Placing(t.saved)
    BY <1>1, <1>6 DEF Placing
  <2> QED  BY <1>1, <1>2, <1>6, <1>7, <2>1, <2>2 DEF Storing
<1>9. Inky(t)
  BY <1>1, <1>7 DEF Inky, SamePen
<1>10. Parsed(t)
  BY <1>1, <1>7 DEF Parsed, SameParser
<1>11. Acts(s, t)
  BY <1>7, <1>8, <1>9, <1>10, FrameActs
<1> QED  BY <1>11 DEF t

LEMMA RestoreActs ==
  ASSUME NEW s, Good(s)
  PROVE  Acts(s, restore_state(s))
<1> DEFINE t == restore_state(s)
           u == flanterm_fb_restore_state(s)
<1>1. /\ Fields \subseteq DOMAIN s /\ Storing(s) /\ Inky(s.saved) /\ Placing(s.saved) /\ Parsed(s)
      /\ Region(s) /\ s.scroll_top_margin + Least(2, ROWS) <= s.scroll_bottom_margin
  BY DEF Good, Sane, Shaped, Storing
<1>2. Elsewhere(s, u, {"text_fg", "text_bg", "cursor_x", "cursor_y"})
  BY DEF flanterm_fb_restore_state, Elsewhere
<1>3. /\ u.text_fg = s.saved.text_fg /\ u.text_bg = s.saved.text_bg
      /\ u.cursor_x = s.saved.cursor_x /\ u.cursor_y = s.saved.cursor_y
  BY <1>1, InFields DEF flanterm_fb_restore_state
<1>4. Elsewhere(u, t, {"bold", "bg_bold", "reverse_video", "current_charset", "current_primary",
                       "current_bg"})
  BY DEF restore_state, Elsewhere
<1>5. t.current_primary = s.saved.current_primary /\ t.current_bg = s.saved.current_bg
  <2>1. Fields \subseteq DOMAIN u
    BY <1>1, <1>2 DEF Elsewhere
  <2> HIDE DEF u
  <2> QED  BY <2>1, InFields DEF restore_state, u
<1> HIDE DEF t, u
<1>6. /\ t.text_fg = s.saved.text_fg /\ t.text_bg = s.saved.text_bg
      /\ t.cursor_x = s.saved.cursor_x /\ t.cursor_y = s.saved.cursor_y
  BY <1>1, <1>2, <1>3, <1>4, InFields DEF Elsewhere
<1>7. DOMAIN t = DOMAIN s /\ \A f \in Fields \ {"text_fg", "text_bg", "cursor_x", "cursor_y",
                                               "current_primary", "current_bg"} : t[f] = s[f]
  BY <1>1, <1>2, <1>4, NotInFields DEF Elsewhere
<1>8. /\ Shaped(t) /\ SameStore(s, t) /\ SameParser(s, t) /\ Painting(t) = Painting(s)
      /\ t.queue = s.queue /\ t.map = s.map
      /\ t.scroll_top_margin = s.scroll_top_margin
      /\ t.scroll_bottom_margin = s.scroll_bottom_margin
  BY <1>1, <1>7, InFields DEF Shaped, SameStore, SameParser, Painting
<1>9. Placing(t)
  BY <1>1, <1>6 DEF Placing
<1>10. Region(t)
  BY <1>1, <1>8 DEF Region
<1>11. Inky(t)
  BY <1>1, <1>5, <1>6 DEF Inky
<1>12. Storing(t)
  BY <1>1, <1>8 DEF Storing, SameStore
<1>13. Parsed(t)
  BY <1>1, <1>8 DEF Parsed, SameParser
<1>14. Acts(s, t)
  BY <1>1, <1>8, <1>9, <1>10, <1>11, <1>12, <1>13, PartsActs
<1> QED  BY <1>14 DEF t

\* What the reset sets, and what it leaves.
LEMMA Reinitialised ==
  ASSUME NEW s
  PROVE  LET t == flanterm_context_reinit(s)
         IN  /\ DOMAIN t = DOMAIN Initial \cup DOMAIN s
             /\ \A f \in DOMAIN Initial : t[f] = Initial[f]
             /\ \A f \in DOMAIN s \ DOMAIN Initial : t[f] = s[f]
  BY DEF flanterm_context_reinit, Over

LEMMA InitialFields ==
  /\ Initial.autoflush = TRUE /\ Initial.osc = FALSE /\ Initial.control_sequence = FALSE
  /\ Initial.rrr = FALSE /\ Initial.esc_values = <<>>
  /\ Initial.unicode_remaining = 0 /\ Initial.g_select = 0
  /\ Initial.saved_cursor_x = 0 /\ Initial.saved_cursor_y = 0
  /\ Initial.current_primary = NONE /\ Initial.current_bg = NONE
  /\ Initial.scroll_top_margin = 0 /\ Initial.scroll_bottom_margin = ROWS
  /\ {"autoflush", "osc", "control_sequence", "rrr", "esc_values", "unicode_remaining", "g_select",
      "saved_cursor_x", "saved_cursor_y", "current_primary", "current_bg", "scroll_top_margin",
      "scroll_bottom_margin", "cursor_enabled"} \subseteq DOMAIN Initial
  /\ {"number", "filler", "text_fg", "text_bg", "cursor_x", "cursor_y", "old_cursor_x",
      "old_cursor_y", "grid", "picture", "queue", "map", "saved"} \cap DOMAIN Initial = {}
  BY DEF Initial

\* ESC c: the whole screen becomes the region again.
LEMMA ReinitActs ==
  ASSUME NEW s, Good(s)
  PROVE  Acts(s, flanterm_context_reinit(s))
<1> DEFINE t == flanterm_context_reinit(s)
<1>1. /\ Fields \subseteq DOMAIN s /\ Storing(s) /\ Inky(s) /\ Placing(s) /\ Parsed(s)
  BY DEF Good, Sane, Shaped
<1>2. /\ DOMAIN t = DOMAIN Initial \cup DOMAIN s
      /\ \A f \in DOMAIN Initial : t[f] = Initial[f]
      /\ \A f \in DOMAIN s \ DOMAIN Initial : t[f] = s[f]
  BY Reinitialised
<1> HIDE DEF t
<1>3. /\ t.autoflush = TRUE /\ t.osc = FALSE /\ t.control_sequence = FALSE
      /\ t.rrr = FALSE /\ t.esc_values = <<>> /\ t.unicode_remaining = 0 /\ t.g_select = 0
      /\ t.saved_cursor_x = 0 /\ t.saved_cursor_y = 0
      /\ t.current_primary = NONE /\ t.current_bg = NONE
      /\ t.scroll_top_margin = 0 /\ t.scroll_bottom_margin = ROWS
  BY <1>2, InitialFields
<1>4. /\ t.number = s.number /\ t.filler = s.filler /\ t.text_fg = s.text_fg
      /\ t.text_bg = s.text_bg /\ t.cursor_x = s.cursor_x /\ t.cursor_y = s.cursor_y
      /\ t.old_cursor_x = s.old_cursor_x /\ t.old_cursor_y = s.old_cursor_y
      /\ t.grid = s.grid /\ t.picture = s.picture /\ t.queue = s.queue /\ t.map = s.map
      /\ t.saved = s.saved
  BY <1>1, <1>2, InFields, InitialFields
<1>5. Shaped(t)
  BY <1>1, <1>2 DEF Shaped
<1>6. Placing(t)
  BY <1>1, <1>4 DEF Placing
<1>7. Region(t) /\ t.scroll_top_margin + Least(2, ROWS) <= t.scroll_bottom_margin
  BY <1>3, FramebufferAssumption DEF Region, Least
<1>8. Inky(t)
  BY <1>1, <1>3, <1>4 DEF Inky, Palette
<1>9. Storing(t)
  BY <1>1, <1>3, <1>4 DEF Storing
<1>10. Parsed(t)
  <2>1. t.esc_values \in Seq(Nat) /\ Len(t.esc_values) + 0 <= FLANTERM_MAX_ESC_VALUES
    BY <1>3, TerminalAssumption
  <2>2. t.number \in Nat /\ t.filler \in Nat
    BY <1>1, <1>4 DEF Parsed
  <2>3. /\ t.autoflush \in BOOLEAN /\ t.osc \in BOOLEAN /\ t.control_sequence \in BOOLEAN
        /\ t.rrr \in BOOLEAN /\ ~ (t.osc /\ t.control_sequence) /\ ~ t.rrr
    BY <1>3, Zenon
  <2>4. t.unicode_remaining \in 0 .. 3 /\ t.g_select \in 0 .. 2
    BY <1>3
  <2> QED  BY <2>1, <2>2, <2>3, <2>4 DEF Parsed
<1>11. Painting(t) = Painting(s)
  BY <1>4 DEF Painting
<1>12. Acts(s, t)
  BY <1>4, <1>5, <1>6, <1>7, <1>8, <1>9, <1>10, <1>11, PartsActs
<1> QED  BY <1>12 DEF t

\* Any byte after ESC, in an operating system command, or in either or neither.
LEMMA EscapedActs ==
  ASSUME NEW s, Good(s), NEW char
  PROVE  Acts(s, Escaped(s, char))
<1> DEFINE t == Escaped(s, char)
           first == [s EXCEPT !.g_select = 1]
           second == [s EXCEPT !.g_select = 2]
           again == flanterm_context_reinit(s)
           opens == char = "("
           closes == char = ")"
<1>1. t = CASE char = "7" -> save_state(s)
            [] char = "8" -> restore_state(s)
            [] char = "c" -> flanterm_fb_clear(again, TRUE)
            [] char = "D" -> Index(s, GetX(s))
            [] char = "E" -> Index(s, 0)
            [] char = "M" -> ReverseIndex(s)
            [] opens -> first
            [] closes -> second
            [] OTHER -> s
  BY Zenon DEF Escaped
<1>2. /\ opens => char \notin {"7", "8", "c", "D", "E", "M"} /\ ~ closes
      /\ closes => char \notin {"7", "8", "c", "D", "E", "M"}
  BY Zenon
<1>3. /\ Fields \subseteq DOMAIN s /\ Parsed(s) /\ Sane(s)
  BY DEF Good, Sane, Shaped
<1>4. s.unicode_remaining \in 0 .. 3
  BY <1>3 DEF Parsed
<1>5. /\ Elsewhere(s, first, {"unicode_remaining", "g_select"})
      /\ first.unicode_remaining = s.unicode_remaining /\ first.g_select = 1
      /\ Elsewhere(s, second, {"unicode_remaining", "g_select"})
      /\ second.unicode_remaining = s.unicode_remaining /\ second.g_select = 2
  BY <1>3, InFields DEF Elsewhere
<1> HIDE DEF t, first, second, again, opens, closes
<1>6. Acts(s, first)
  <2>1. first.g_select \in 0 .. 2
    BY <1>5
  <2> QED  BY <1>4, <1>5, <2>1, CountsActs
<1>7. Acts(s, second)
  <2>1. second.g_select \in 0 .. 2
    BY <1>5
  <2> QED  BY <1>4, <1>5, <2>1, CountsActs
<1>8. Acts(s, flanterm_fb_clear(again, TRUE))
  <2>1. Acts(s, again) /\ Good(again) /\ Sane(again)
    BY ReinitActs DEF again, Acts, Good
  <2>2. ASSUME NEW move \in BOOLEAN PROVE Acts(s, flanterm_fb_clear(again, move))
    <3>1. Draws(again, flanterm_fb_clear(again, move))
      BY <2>1, ClearDraws
    <3> QED  BY <2>1, <3>1, DrawsActs, ActsTransitive
  <2> QED  BY <2>2, Zenon
<1>9. Acts(s, Index(s, GetX(s)))
  <2>1. GetX(s) \in Int
    BY <1>3, PositionType, FramebufferAssumption
  <2>2. Draws(s, Index(s, GetX(s)))
    BY <1>3, <2>1, IndexDraws
  <2> QED  BY <2>2, DrawsActs
<1>10. Acts(s, Index(s, 0))
  <2>1. Draws(s, Index(s, 0))
    BY <1>3, IndexDraws
  <2> QED  BY <2>1, DrawsActs
<1>11. Acts(s, ReverseIndex(s))
  BY <1>3, ReverseIndexDraws, DrawsActs
<1>12. Acts(s, save_state(s)) /\ Acts(s, restore_state(s)) /\ Acts(s, s)
  BY SaveActs, RestoreActs, ActsSelf
<1>13. CASE char \in {"7", "8", "c", "D", "E", "M"}
  <2>1. ~ opens /\ ~ closes
    BY <1>2, <1>13
  <2> QED  BY <1>1, <1>8, <1>9, <1>10, <1>11, <1>12, <1>13, <2>1 DEF t
<1>14. CASE opens
  BY <1>1, <1>2, <1>6, <1>14 DEF t
<1>15. CASE closes
  BY <1>1, <1>2, <1>7, <1>15 DEF t
<1>16. CASE char \notin {"7", "8", "c", "D", "E", "M"} /\ ~ opens /\ ~ closes
  BY <1>1, <1>12, <1>16 DEF t
<1> QED  BY <1>13, <1>14, <1>15, <1>16

LEMMA OscActs ==
  ASSUME NEW s, Good(s), s.osc, NEW c
  PROVE  Acts(s, osc_parse(s, c))
<1> DEFINE t == [s EXCEPT !.osc = FALSE]
           u == [t EXCEPT !.osc_escape = FALSE, !.escape = FALSE]
           v == [s EXCEPT !.osc_escape = TRUE]
<1>1. Fields \subseteq DOMAIN s /\ s.control_sequence \in BOOLEAN
  BY DEF Good, Sane, Shaped, Parsed
<1>2. osc_parse(s, c) = u \/ osc_parse(s, c) = v \/ osc_parse(s, c) = s
  BY DEF osc_parse
<1>3. /\ Elsewhere(s, t, {"osc", "control_sequence"}) /\ t.osc = FALSE
      /\ t.control_sequence = s.control_sequence
  BY <1>1, InFields DEF Elsewhere
<1>4. Elsewhere(t, u, {"osc_escape", "escape"}) /\ Elsewhere(s, v, {"osc_escape"})
  BY DEF Elsewhere
<1>5. {"osc_escape", "escape"} \cap Fields = {} /\ {"osc_escape"} \cap Fields = {}
  BY NotInFields
<1> HIDE DEF t, u, v
<1>6. Acts(s, t)
  BY <1>1, <1>3, StateActs
<1>7. Acts(t, u)
  BY <1>4, <1>5, <1>6, OthersActs DEF Acts
<1>8. Acts(s, v)
  BY <1>4, <1>5, OthersActs
<1> QED  BY <1>2, <1>6, <1>7, <1>8, ActsTransitive, ActsSelf

LEMMA EscapeActs ==
  ASSUME NEW s0, Good(s0), NEW c \in Nat
  PROVE  Acts(s0, escape_parse(s0, c))
<1> DEFINE s == [s0 EXCEPT !.escape_offset = Least(s0.escape_offset + 1, 3)]
           broken == s.osc /\ s.osc_escape /\ CharOf(c) # "\\"
           b1 == [s EXCEPT !.osc = FALSE]
           b2 == [b1 EXCEPT !.osc_escape = FALSE]
           s1 == IF broken THEN b2 ELSE s
           commanded == [s1 EXCEPT !.osc = TRUE]
           command == [commanded EXCEPT !.osc_escape = FALSE]
           escaped == Escaped(s1, CharOf(c))
           ended == [escaped EXCEPT !.escape = FALSE]
           t == escape_parse(s0, c)
           starts == CharOf(c) = "]"
           brackets == CharOf(c) = "["
<1>1. t = IF s.osc /\ ~ broken THEN osc_parse(s, c)
          ELSE IF s1.control_sequence THEN control_sequence_parse(s1, c)
          ELSE CASE starts -> command
                 [] brackets -> Sequence(s1)
                 [] OTHER -> ended
  BY Zenon DEF escape_parse
<1>2. ~ (starts /\ brackets)
  BY Zenon
<1>3. Fields \subseteq DOMAIN s0
  BY DEF Good, Sane, Shaped
<1>4. Elsewhere(s0, s, {"escape_offset"})
  BY DEF Elsewhere
<1>5. {"escape_offset"} \cap Fields = {} /\ {"osc_escape"} \cap Fields = {}
      /\ {"escape"} \cap Fields = {}
  BY NotInFields
<1> HIDE DEF starts, brackets, t, s
<1>6. Acts(s0, s) /\ Good(s) /\ Fields \subseteq DOMAIN s /\ s.control_sequence \in BOOLEAN
      /\ s.osc \in BOOLEAN
  BY <1>4, <1>5, OthersActs DEF Acts, Good, Sane, Shaped, Parsed
<1> HIDE DEF broken
<1>7. Elsewhere(s, b1, {"osc", "control_sequence"}) /\ b1.osc = FALSE
      /\ b1.control_sequence = s.control_sequence
  BY <1>6, InFields DEF Elsewhere
<1>8. Elsewhere(b1, b2, {"osc_escape"})
  BY DEF Elsewhere
<1> HIDE DEF b1, b2
<1>9. Acts(s, b1) /\ Good(b1) /\ Fields \subseteq DOMAIN b1
  BY <1>6, <1>7, StateActs DEF Acts, Good, Sane, Shaped
<1>10. Acts(b1, b2) /\ Good(b2) /\ b2.osc = b1.osc
  BY <1>5, <1>8, <1>9, InFields, NotInFields, OthersActs DEF Elsewhere, Acts
<1>11. Acts(s0, s1) /\ Good(s1) /\ Fields \subseteq DOMAIN s1
  BY <1>6, <1>9, <1>10, ActsTransitive DEF Acts, Good, Sane, Shaped
<1>12. CASE s.osc /\ ~ broken
  <2>1. t = osc_parse(s, c)
    BY <1>1, <1>12
  <2>2. Acts(s, osc_parse(s, c))
    BY <1>6, <1>12, OscActs
  <2>3. Acts(s0, t)
    BY <1>6, <2>1, <2>2, ActsTransitive
  <2> QED  BY <2>3 DEF t
<1>13. CASE ~ (s.osc /\ ~ broken)
  <2>1. s1.osc = FALSE
    BY <1>6, <1>7, <1>10, <1>13
  <2> HIDE DEF s1
  <2>2. CASE s1.control_sequence
    <3>1. t = control_sequence_parse(s1, c)
      BY <1>1, <1>13, <2>2
    <3>2. Acts(s1, control_sequence_parse(s1, c))
      BY <1>11, ControlSequenceActs
    <3>3. Acts(s0, t)
      BY <1>11, <3>1, <3>2, ActsTransitive
    <3> QED  BY <3>3 DEF t
  <2>3. CASE ~ s1.control_sequence
    <3>1. Elsewhere(s1, commanded, {"osc", "control_sequence"}) /\ commanded.osc = TRUE
          /\ commanded.control_sequence = s1.control_sequence
      BY <1>11, InFields DEF Elsewhere
    <3>2. Elsewhere(commanded, command, {"osc_escape"})
      BY DEF Elsewhere
    <3>3. Elsewhere(escaped, ended, {"escape"})
      BY DEF Elsewhere
    <3>4. s1.control_sequence \in BOOLEAN
      BY <1>11 DEF Good, Sane, Parsed
    <3> HIDE DEF commanded, command, ended
    <3>5. Acts(s1, commanded)
      BY <1>11, <2>3, <3>1, <3>4, StateActs
    <3>6. Acts(s1, command)
      BY <1>5, <3>2, <3>5, OthersActs, ActsTransitive DEF Acts
    <3>7. Acts(s1, Sequence(s1))
      BY <1>11, <2>1, SequenceActs
    <3>8. Acts(s1, escaped)
      BY <1>11, EscapedActs
    <3> HIDE DEF escaped
    <3>9. Acts(s1, ended)
      BY <1>5, <3>3, <3>8, OthersActs, ActsTransitive DEF Acts
    <3>10. t \in {command, Sequence(s1), ended}
      BY <1>1, <1>2, <1>13, <2>3
    <3>11. Acts(s1, t)
      BY <3>6, <3>7, <3>9, <3>10
    <3>12. Acts(s0, t)
      BY <1>11, <3>11, ActsTransitive
    <3> QED  BY <3>12 DEF t
  <2> QED  BY <2>2, <2>3
<1> QED  BY <1>12, <1>13

-----------------------------------------------------------------------------
(* Characters.                                                             *)

\* What is printed has a glyph.
LEMMA PrintedType ==
  ASSUME NEW s, NEW c
  PROVE  Printed(s, c) \in 0 .. 255
<1> DEFINE special == {k \in DOMAIN SpecialGlyphs : SpecialCharacters[k] = CharOf(c)}
           k0 == CHOOSE k \in special : TRUE
           chosen == s.charsets[s.current_charset] = "special" /\ special # {}
<1>1. Printed(s, c) = IF chosen THEN SpecialGlyphs[k0]
                      ELSE IF c \in 32 .. 126 THEN c ELSE Replacement
  BY DEF Printed
<1>2. special # {} => k0 \in DOMAIN SpecialGlyphs
  BY Zenon
<1>3. \A k \in DOMAIN SpecialGlyphs : SpecialGlyphs[k] \in 0 .. 255
  BY DEF SpecialGlyphs
<1>4. CASE chosen
  <2>1. special # {}
    BY <1>4
  <2> HIDE DEF special, k0, chosen
  <2> QED  BY <1>1, <1>2, <1>3, <1>4, <2>1
<1>5. CASE ~ chosen
  <2> HIDE DEF special, k0, chosen
  <2> QED  BY <1>1, <1>5 DEF Replacement
<1> QED  BY <1>4, <1>5

LEMMA GlyphOfType ==
  ASSUME NEW code_point
  PROVE  unicode_to_cp437(code_point) \in -1 .. 255
<1> DEFINE low == {k \in DOMAIN LowGlyphs : LowGlyphs[k] = code_point}
           high == {k \in DOMAIN HighGlyphs : HighGlyphs[k] = code_point}
<1>1. DOMAIN LowGlyphs = 1 .. 31 /\ DOMAIN HighGlyphs = 1 .. 128
  BY DEF LowGlyphs, HighGlyphs
<1>2. CASE \E k \in DOMAIN LowGlyphs : LowGlyphs[k] = code_point
  <2> DEFINE k0 == CHOOSE k \in DOMAIN LowGlyphs : LowGlyphs[k] = code_point
  <2>1. unicode_to_cp437(code_point) = k0
    BY <1>2 DEF unicode_to_cp437
  <2>2. k0 \in DOMAIN LowGlyphs
    BY <1>2, Zenon
  <2> HIDE DEF k0
  <2> QED  BY <1>1, <2>1, <2>2
<1>3. CASE /\ ~ \E k \in DOMAIN LowGlyphs : LowGlyphs[k] = code_point
           /\ \E k \in DOMAIN HighGlyphs : HighGlyphs[k] = code_point
  <2> DEFINE k0 == CHOOSE k \in DOMAIN HighGlyphs : HighGlyphs[k] = code_point
  <2>1. unicode_to_cp437(code_point) = 126 + k0
    BY <1>3 DEF unicode_to_cp437
  <2>2. k0 \in DOMAIN HighGlyphs
    BY <1>3, Zenon
  <2> HIDE DEF k0
  <2> QED  BY <1>1, <2>1, <2>2
<1>4. CASE /\ ~ \E k \in DOMAIN LowGlyphs : LowGlyphs[k] = code_point
           /\ ~ \E k \in DOMAIN HighGlyphs : HighGlyphs[k] = code_point
  <2>1. unicode_to_cp437(code_point) = -1
    BY <1>4 DEF unicode_to_cp437
  <2> QED  BY <2>1
<1> QED  BY <1>2, <1>3, <1>4

LEMMA TabDraws ==
  ASSUME NEW s, Sane(s)
  PROVE  Draws(s, Tab(s))
<1> DEFINE stop == GetX(s) \div tab_size + 1
           x == IF stop >= COLS THEN COLS - 1 ELSE stop * tab_size
<1>1. GetX(s) \in Nat /\ GetY(s) \in Int /\ COLS \in Nat /\ tab_size \in Nat \ {0}
  BY PositionType, FramebufferAssumption, TerminalAssumption
<1>2. stop \in Int
  BY <1>1
<1>3. Tab(s) = Moved(s, x, GetY(s))
  BY DEF Tab
<1> HIDE DEF stop
<1>4. x \in Int
  BY <1>1, <1>2
<1> HIDE DEF x
<1> QED  BY <1>1, <1>3, <1>4, MovedDraws

\* The control characters, and those of an alternative set.
LEMMA ControlActs ==
  ASSUME NEW s, Good(s), NEW c \in Nat
  PROVE  Acts(s, Control(s, c))
<1> DEFINE x == IF s.onlcr THEN 0 ELSE GetX(s)
           shift == [s EXCEPT !.current_charset = 1]
           unshift == [s EXCEPT !.current_charset = 0]
           escape == [s EXCEPT !.escape_offset = 0, !.escape = TRUE]
<1>1. Control(s, c) \in {Tab(s), Index(s, x), Moved(s, GetX(s) - 1, GetY(s)), Moved(s, 0, GetY(s)),
                         shift, unshift, escape, s}
  <2> DEFINE tab == Tab(s)
             index == Index(s, x)
             back == Moved(s, GetX(s) - 1, GetY(s))
             home == Moved(s, 0, GetY(s))
             result == Control(s, c)
  <2>1. result = CASE c = 9 -> tab [] c \in 10 .. 12 -> index [] c = 8 -> back [] c = 13 -> home
                   [] c = 14 -> shift [] c = 15 -> unshift [] c = 27 -> escape [] OTHER -> s
    BY Zenon DEF Control, ESC
  <2> HIDE DEF x, shift, unshift, escape, tab, index, back, home, result
  <2>2. result \in {tab, index, back, home, shift, unshift, escape, s}
    <3>1. CASE c = 9
      BY <2>1, <3>1
    <3>2. CASE c \in 10 .. 12
      <4>1. c # 9 /\ c # 8 /\ c # 13 /\ c # 14 /\ c # 15 /\ c # 27
        BY <3>2
      <4> QED  BY <2>1, <3>2, <4>1
    <3>3. CASE c = 8 \/ c = 13 \/ c = 14 \/ c = 15 \/ c = 27
      BY <2>1, <3>3
    <3>4. CASE c # 9 /\ c \notin 10 .. 12 /\ c # 8 /\ c # 13 /\ c # 14 /\ c # 15 /\ c # 27
      BY <2>1, <3>4
    <3> QED  BY <3>1, <3>2, <3>3, <3>4
  <2> QED  BY <2>2 DEF tab, index, back, home, result
<1>2. /\ Elsewhere(s, shift, {"current_charset"}) /\ Elsewhere(s, unshift, {"current_charset"})
      /\ Elsewhere(s, escape, {"escape_offset", "escape"})
  BY DEF Elsewhere
<1>3. {"current_charset"} \cap Fields = {} /\ {"escape_offset", "escape"} \cap Fields = {}
  BY NotInFields
<1> HIDE DEF shift, unshift, escape
<1>4. Acts(s, shift) /\ Acts(s, unshift) /\ Acts(s, escape) /\ Acts(s, s)
  BY <1>2, <1>3, OthersActs, ActsSelf
<1>5. Sane(s)
  BY DEF Good
<1>6. GetX(s) \in Int /\ GetY(s) \in Int
  BY <1>5, PositionType, FramebufferAssumption
<1>7. x \in Int /\ GetX(s) - 1 \in Int /\ 0 \in Int
  BY <1>6
<1> HIDE DEF x
<1>8. Draws(s, Tab(s)) /\ Draws(s, Index(s, x))
  BY <1>5, <1>7, TabDraws, IndexDraws
<1>9. Draws(s, Moved(s, GetX(s) - 1, GetY(s))) /\ Draws(s, Moved(s, 0, GetY(s)))
  BY <1>5, <1>6, <1>7, MovedDraws
<1>10. /\ Acts(s, Tab(s)) /\ Acts(s, Index(s, x))
       /\ Acts(s, Moved(s, GetX(s) - 1, GetY(s))) /\ Acts(s, Moved(s, 0, GetY(s)))
  BY <1>8, <1>9, DrawsActs
<1> QED  BY <1>1, <1>4, <1>10

LEMMA CharsetActs ==
  ASSUME NEW s, Good(s), NEW char
  PROVE  Acts(s, Charset(s, char))
<1> DEFINE t == [s EXCEPT !.g_select = 0]
           u == Charset(s, char)
<1>1. Fields \subseteq DOMAIN s /\ s.unicode_remaining \in 0 .. 3
  BY DEF Good, Sane, Shaped, Parsed
<1>2. /\ Elsewhere(s, t, {"unicode_remaining", "g_select"}) /\ t.g_select = 0
      /\ t.unicode_remaining = s.unicode_remaining
  BY <1>1, InFields DEF Elsewhere
<1>3. Elsewhere(t, u, {"charsets"})
  BY DEF Charset, Elsewhere
<1>4. {"charsets"} \cap Fields = {}
  BY NotInFields
<1> HIDE DEF t, u
<1>5. t.g_select \in 0 .. 2
  BY <1>2
<1>6. Acts(s, t) /\ Good(t)
  BY <1>1, <1>2, <1>5, CountsActs DEF Acts
<1>7. Acts(t, u)
  BY <1>3, <1>4, <1>6, OthersActs
<1>8. Acts(s, u)
  BY <1>6, <1>7, ActsTransitive
<1> QED  BY <1>8 DEF u

\* A count of bytes to come, and the code point so far.
LEMMA AwaitActs ==
  ASSUME NEW s, Good(s), NEW t, Elsewhere(s, t, {"unicode_remaining", "code_point"}),
         t.unicode_remaining \in 0 .. 3
  PROVE  Acts(s, t)
<1> DEFINE u == [s EXCEPT !.code_point = t.code_point]
<1>1. Fields \subseteq DOMAIN s /\ s.g_select \in 0 .. 2
  BY DEF Good, Sane, Shaped, Parsed
<1>2. Elsewhere(s, u, {"code_point"})
  BY DEF Elsewhere
<1>3. {"code_point"} \cap Fields = {}
  BY NotInFields
<1>4. \A f \in DOMAIN s \ {"unicode_remaining"} : t[f] = u[f]
  BY DEF Elsewhere
<1> HIDE DEF u
<1>5. Elsewhere(u, t, {"unicode_remaining", "g_select"})
  BY <1>2, <1>4 DEF Elsewhere
<1>6. t.g_select = s.g_select
  BY <1>1, InFields DEF Elsewhere
<1>7. Acts(s, u) /\ Good(u)
  BY <1>2, <1>3, OthersActs DEF Acts
<1>8. Acts(u, t)
  BY <1>1, <1>5, <1>6, <1>7, CountsActs
<1> QED  BY <1>7, <1>8, ActsTransitive

\* The bytes of a character, up to the last one, which prints it.
LEMMA ContinuedActs ==
  ASSUME NEW s, Good(s), s.unicode_remaining # 0, NEW c \in Nat
  PROVE  Acts(s, Continued(s, c))
<1> DEFINE left == s.unicode_remaining - 1
           code_point == s.code_point + ContinuationBits(c, left)
           glyph == unicode_to_cp437(code_point)
           kept == IF left = 0 THEN 0 ELSE code_point
           s1 == [s EXCEPT !.unicode_remaining = left, !.code_point = kept]
           printed == flanterm_fb_raw_putchar(s1, glyph)
           width == mk_wcwidth(code_point)
           substituted == Substituted(s1, width)
<1>1. Continued(s, c) = IF left # 0 THEN s1 ELSE IF glyph # -1 THEN printed ELSE substituted
  BY DEF Continued
<1>2. left \in 0 .. 3
  BY DEF Good, Sane, Parsed
<1>3. glyph \in -1 .. 255
  BY GlyphOfType
<1>4. width \in Int
  BY DEF mk_wcwidth
<1> HIDE DEF left, glyph, kept, code_point, width
<1>5. Elsewhere(s, s1, {"unicode_remaining", "code_point"}) /\ s1.unicode_remaining = left
  BY InFields DEF Elsewhere, Good, Sane, Shaped
<1> HIDE DEF s1
<1>6. Acts(s, s1)
  BY <1>2, <1>5, AwaitActs
<1>7. Good(s1) /\ Sane(s1)
  BY <1>6 DEF Acts, Good
<1>8. Acts(s, substituted)
  <2>1. Draws(s1, substituted)
    BY <1>4, <1>7, SubstitutedDraws
  <2> QED  BY <1>6, <1>7, <2>1, DrawsActs, ActsTransitive
<1>9. glyph # -1 => Acts(s, printed)
  <2>1. glyph # -1 => glyph \in 0 .. 255
    BY <1>3
  <2>2. glyph # -1 => Draws(s1, printed)
    BY <1>7, <2>1, PutcharDraws
  <2> QED  BY <1>6, <1>7, <2>2, DrawsActs, ActsTransitive
<1> HIDE DEF printed, substituted
<1> QED  BY <1>1, <1>6, <1>8, <1>9

LEMMA BegunActs ==
  ASSUME NEW s0, Good(s0), NEW c \in Nat
  PROVE  Acts(s0, Begun(s0, c))
<1> DEFINE s == [s0 EXCEPT !.unicode_remaining = 0, !.code_point = 0]
           n == Following(c)
           bits == LeadBits(c)
           lead == [s EXCEPT !.unicode_remaining = n, !.code_point = bits]
           escaped == escape_parse(s, c)
           charset == Charset(s, CharOf(c))
           control == Control(s, c)
           opened == Opened(s)
           glyph == Printed(s, c)
           printed == flanterm_fb_raw_putchar(opened, glyph)
           t == Begun(s0, c)
<1>1. t = CASE c \in Lead -> lead
            [] c \notin Lead /\ s.escape -> escaped
            [] c \notin Lead /\ ~ s.escape /\ s.g_select # 0 -> charset
            [] c \notin Lead /\ ~ s.escape /\ s.g_select = 0 ->
                 IF c \in Controls THEN control ELSE printed
  BY Zenon DEF Begun
<1>2. c \in Lead => n \in 0 .. 3
  BY DEF Lead, Following
<1>3. glyph \in 0 .. 255
  BY PrintedType
<1> HIDE DEF t, n, bits, glyph
<1>4. Elsewhere(s0, s, {"unicode_remaining", "code_point"}) /\ s.unicode_remaining = 0
  BY InFields DEF Elsewhere, Good, Sane, Shaped
<1> HIDE DEF s
<1>5. Acts(s0, s)
  <2>1. s.unicode_remaining \in 0 .. 3
    BY <1>4
  <2> QED  BY <1>4, <2>1, AwaitActs
<1>6. Good(s) /\ Sane(s)
  BY <1>5 DEF Acts, Good
<1>7. c \in Lead => Acts(s, lead)
  <2>1. Elsewhere(s, lead, {"unicode_remaining", "code_point"}) /\ lead.unicode_remaining = n
    BY <1>6, InFields DEF Elsewhere, Good, Sane, Shaped
  <2> HIDE DEF lead
  <2> QED  BY <1>2, <1>6, <2>1, AwaitActs
<1>8. Acts(s, escaped) /\ Acts(s, charset) /\ Acts(s, control)
  BY <1>6, EscapeActs, CharsetActs, ControlActs
<1>9. Acts(s, printed)
  <2>1. Draws(s, opened) /\ Sane(opened)
    BY <1>6, OpenedDraws DEF Draws
  <2> HIDE DEF opened
  <2>2. Draws(opened, printed)
    BY <1>3, <2>1, PutcharDraws
  <2>3. Draws(s, printed)
    BY <2>1, <2>2, DrawsTransitive
  <2> QED  BY <1>6, <2>3, DrawsActs
<1> HIDE DEF lead, escaped, charset, control, printed, opened
<1>10. Acts(s, t)
  <2>1. CASE c \in Lead
    BY <1>1, <1>7, <2>1
  <2>2. CASE c \notin Lead /\ s.escape
    BY <1>1, <1>8, <2>2
  <2>3. CASE c \notin Lead /\ ~ s.escape /\ s.g_select # 0
    BY <1>1, <1>8, <2>3
  <2>4. CASE c \notin Lead /\ ~ s.escape /\ s.g_select = 0
    BY <1>1, <1>8, <1>9, <2>4
  <2> QED  BY <2>1, <2>2, <2>3, <2>4
<1>11. Acts(s0, t)
  BY <1>5, <1>10, ActsTransitive
<1> QED  BY <1>11 DEF t

\* CAN and SUB end any sequence.
LEMMA CancelledActs ==
  ASSUME NEW s, Good(s)
  PROVE  Acts(s, Cancelled(s))
<1> DEFINE t == Cancelled(s)
<1>1. Fields \subseteq DOMAIN s /\ Parsed(s)
  BY DEF Good, Sane, Shaped
<1>2. /\ t.control_sequence = FALSE /\ t.osc = FALSE /\ t.unicode_remaining = 0 /\ t.g_select = 0
  BY <1>1, InFields DEF Cancelled
<1>3. Elsewhere(s, t, {"control_sequence", "osc", "unicode_remaining", "g_select", "discard_next",
                      "escape", "osc_escape", "code_point"})
  <2> DEFINE u == [s EXCEPT !.discard_next = FALSE, !.escape = FALSE, !.control_sequence = FALSE,
                            !.unicode_remaining = 0]
  <2>1. t = [u EXCEPT !.code_point = 0, !.osc = FALSE, !.osc_escape = FALSE, !.g_select = 0]
    BY DEF Cancelled
  <2>2. Elsewhere(s, u, {"discard_next", "escape", "control_sequence", "unicode_remaining"})
    BY DEF Elsewhere
  <2> HIDE DEF t, u
  <2>3. Elsewhere(u, t, {"code_point", "osc", "osc_escape", "g_select"})
    BY <2>1 DEF Elsewhere
  <2> QED  BY <2>2, <2>3 DEF Elsewhere
<1> HIDE DEF t
<1>4. Shaped(t) /\ SameDrawing(s, t) /\ SamePen(s, t) /\ SameStore(s, t)
  BY <1>1, <1>3, InFields DEF Elsewhere, Shaped, SameDrawing, SamePen, SameStore
<1>5. /\ t.autoflush = s.autoflush /\ t.rrr = s.rrr /\ t.esc_values = s.esc_values
      /\ t.number = s.number /\ t.filler = s.filler
  BY <1>1, <1>3, InFields DEF Elsewhere
<1>6. /\ t.osc \in BOOLEAN /\ t.control_sequence \in BOOLEAN /\ ~ (t.osc /\ t.control_sequence)
  BY <1>2, Zenon
<1>7. t.unicode_remaining \in 0 .. 3 /\ t.g_select \in 0 .. 2
  BY <1>2
<1>8. Parsed(t)
  BY <1>1, <1>5, <1>6, <1>7 DEF Parsed
<1>9. Acts(s, t)
  BY <1>4, <1>8, ParserFrame
<1> QED  BY <1>9 DEF t

\* Any byte, at any point of a sequence or a character.
LEMMA ByteActs ==
  ASSUME NEW s, Good(s), NEW c \in Nat
  PROVE  Acts(s, flanterm_putchar(s, c))
  BY CancelledActs, ContinuedActs, BegunActs DEF flanterm_putchar

\* Any text.
LEMMA TextActs ==
  ASSUME NEW s, Good(s), NEW buf \in Seq(Nat)
  PROVE  Acts(s, Loop(LAMBDA r, k : flanterm_putchar(r, buf[k]), s, Len(buf)))
<1> DEFINE n == Len(buf)
           W == CHOOSE w : w = [k \in 0 .. n |-> IF k = 0 THEN s
                                  ELSE flanterm_putchar(w[k - 1], buf[k])]
<1>1. n \in Nat
  OBVIOUS
<1>2. CASE n <= 0
  BY <1>2, ActsSelf DEF Loop
<1>3. CASE n > 0
  <2>1. PICK w : Turns(w, "write", buf, s, n)
    BY <1>1, TurnsExist
  <2>2. w = [k \in 0 .. n |-> IF k = 0 THEN s ELSE flanterm_putchar(w[k - 1], buf[k])]
    BY <2>1 DEF Turns, Turn
  <2>3. W = [k \in 0 .. n |-> IF k = 0 THEN s ELSE flanterm_putchar(W[k - 1], buf[k])]
    BY <2>2
  <2>4. Loop(LAMBDA r, k : flanterm_putchar(r, buf[k]), s, Len(buf)) = W[n]
    BY <1>3 DEF Loop
  <2> HIDE DEF W
  <2>5. \A k \in 1 .. n : buf[k] \in Nat
    OBVIOUS
  <2> HIDE DEF n
  <2>6. W[0] = s /\ \A k \in 1 .. n : W[k] = flanterm_putchar(W[k - 1], buf[k])
    BY <1>1, <2>3
  <2> DEFINE K == {k \in Nat : Acts(s, W[k])}
  <2>7. 0 \in K
    BY <2>6, ActsSelf
  <2>8. ASSUME NEW k \in 1 .. n, k - 1 \in K PROVE k \in K
    <3>1. Acts(s, W[k - 1])
      BY <2>8
    <3>2. Acts(W[k - 1], W[k])
      BY <2>5, <2>6, <3>1, ByteActs DEF Acts
    <3>3. Acts(s, W[k])
      BY <3>1, <3>2, ActsTransitive
    <3> QED  BY <1>1, <3>3
  <2> HIDE DEF K
  <2>9. n \in K
    BY <1>1, <2>7, <2>8, TurnsKeep DEF K
  <2>10. Acts(s, W[n])
    BY <2>9 DEF K
  <2> QED  BY <2>4, <2>10, Zenon
<1>4. n <= 0 \/ n > 0
  BY <1>1
<1> QED  BY <1>2, <1>3, <1>4, Zenon

-----------------------------------------------------------------------------
(* Painting.                                                               *)

\* The picture is the grid, but for the cell where the cursor was painted last.
Painted(s) ==
  /\ s.picture \in [Cells -> Characters]
  /\ s.old_cursor_x \in Nat /\ s.old_cursor_y \in Nat
  /\ \A i \in Cells : s.picture[i] = Plot(s.grid[i])
                        \/ (OnScreen(s.old_cursor_x, s.old_cursor_y)
                              /\ i = Cell(s.old_cursor_x, s.old_cursor_y))

\* The cell of the cursor, and what is seen when all is painted.
Seen(s, i) == IF i \in Under(s) THEN Inverted(Content(s, i)) ELSE Plot(Content(s, i))

\* What is painted is a character.
LEMMA PlotType ==
  ASSUME NEW c \in Characters
  PROVE  Plot(c) \in Characters /\ Inverted(c) \in Characters
<1>1. c.c \in 0 .. 255 /\ c.fg \in Colours /\ c.bg \in Colours
  BY DEF Characters
<1>2. Opaque(c.fg) \in Colours /\ Opaque(c.bg) \in Colours
  BY <1>1, ColourTypes DEF Opaque
<1> QED  BY <1>1, <1>2 DEF Plot, Inverted, Characters

\* Two places of the screen are one cell only when they are the same.
LEMMA CellInjective ==
  ASSUME NEW x, NEW y, OnScreen(x, y), NEW v, NEW w, OnScreen(v, w), Cell(x, y) = Cell(v, w)
  PROVE  x = v /\ y = w
<1>1. /\ COLS \in Nat \ {0} /\ x \in 0 .. COLS - 1 /\ v \in 0 .. COLS - 1 /\ y \in Nat /\ w \in Nat
  BY FramebufferAssumption DEF OnScreen
<1>2. y * COLS + x = w * COLS + v
  BY DEF Cell
<1>3. ASSUME NEW a \in Nat, NEW b \in Nat, NEW p \in 0 .. COLS - 1, NEW q \in 0 .. COLS - 1,
             a * COLS + p = b * COLS + q
      PROVE  ~ a < b
  <2>1. SUFFICES ASSUME a + 1 <= b PROVE FALSE
    OBVIOUS
  <2>2. (a + 1) * COLS <= b * COLS
    BY <1>1, <2>1, Rising
  <2>3. (a + 1) * COLS = a * COLS + COLS /\ a * COLS \in Int /\ b * COLS \in Int
    BY <1>1
  <2> QED  BY <1>1, <1>3, <2>2, <2>3
<1>4. ~ y < w /\ ~ w < y
  BY <1>1, <1>2, <1>3
<1>5. y = w
  BY <1>1, <1>4
<1> QED  BY <1>1, <1>2, <1>5

\* After the cursor is drawn.
LEMMA CursorDrawn ==
  ASSUME NEW s, Good(s), Painted(s), NEW s1, s1 = IF s.cursor_enabled THEN draw_cursor(s) ELSE s
  PROVE  /\ Elsewhere(s, s1, {"grid", "picture", "map"})
         /\ s1.grid \in [Cells -> Characters] /\ s1.picture \in [Cells -> Characters]
         /\ s1.map \in [Cells -> Nat]
         /\ \A i \in Cells :
              /\ s1.grid[i] = IF i \in Under(s) THEN Content(s, i) ELSE s.grid[i]
              /\ s1.picture[i] = IF i \in Under(s) THEN Inverted(Content(s, i)) ELSE s.picture[i]
              /\ s1.map[i] = IF i \in Under(s) THEN 0 ELSE s.map[i]
<1>1. /\ Fields \subseteq DOMAIN s /\ s.grid \in [Cells -> Characters]
      /\ s.picture \in [Cells -> Characters] /\ s.map \in [Cells -> Nat] /\ Sane(s)
  BY DEF Good, Sane, Shaped, Queued, Painted
<1>2. CASE Under(s) = {}
  <2>1. s1 = s
    BY <1>2 DEF Under, draw_cursor
  <2> QED  BY <1>1, <1>2, <2>1 DEF Elsewhere
<1>3. CASE Under(s) # {}
  <2> DEFINE i0 == Cell(s.cursor_x, s.cursor_y)
             c == Content(s, i0)
  <2>1. s.cursor_enabled /\ OnScreen(s.cursor_x, s.cursor_y) /\ Under(s) = {i0}
    BY <1>3 DEF Under
  <2>2. i0 \in Cells
    BY <2>1, CellType
  <2>3. c \in Characters /\ Inverted(c) \in Characters
    BY <1>1, <2>2, ContentType, PlotType
  <2>4. s1 = [s EXCEPT !.picture[i0] = Inverted(c), !.grid[i0] = c, !.map[i0] = 0]
    BY <2>1 DEF draw_cursor
  <2> HIDE DEF i0, c
  <2>5. s1.picture = [s.picture EXCEPT ![i0] = Inverted(c)]
    BY <1>1, <2>4, InFields
  <2>6. s1.grid = [s.grid EXCEPT ![i0] = c]
    BY <1>1, <2>4, InFields
  <2>7. s1.map = [s.map EXCEPT ![i0] = 0]
    BY <1>1, <2>4, InFields
  <2>8. Elsewhere(s, s1, {"grid", "picture", "map"})
    BY <2>4 DEF Elsewhere
  <2>9. /\ s1.grid \in [Cells -> Characters] /\ s1.picture \in [Cells -> Characters]
        /\ s1.map \in [Cells -> Nat]
    BY <1>1, <2>2, <2>3, <2>5, <2>6, <2>7
  <2>10. ASSUME NEW i \in Cells
         PROVE  /\ s1.grid[i] = IF i \in Under(s) THEN Content(s, i) ELSE s.grid[i]
                /\ s1.picture[i] = IF i \in Under(s) THEN Inverted(Content(s, i)) ELSE s.picture[i]
                /\ s1.map[i] = IF i \in Under(s) THEN 0 ELSE s.map[i]
    <3>1. CASE i = i0
      BY <1>1, <2>1, <2>2, <2>5, <2>6, <2>7, <3>1 DEF c
    <3>2. CASE i # i0
      BY <1>1, <2>1, <2>2, <2>5, <2>6, <2>7, <3>2
    <3> QED  BY <3>1, <3>2
  <2> QED  BY <2>8, <2>9, <2>10
<1> QED  BY <1>2, <1>3

\* A cell that waits has one item in the queue, so that the first is the one.
LEMMA ItemUnique ==
  ASSUME NEW s, Sane(s), NEW i \in Cells, s.map[i] # 0
  PROVE  LET items == {k \in DOMAIN s.queue : s.queue[k].at = i}
         IN  (CHOOSE k \in items : \A m \in items : k <= m) = s.map[i]
<1> DEFINE items == {k \in DOMAIN s.queue : s.queue[k].at = i}
<1>1. /\ s.queue \in Seq(Item) /\ s.map[i] \in 1 .. Len(s.queue) /\ s.queue[s.map[i]].at = i
      /\ \A k \in 1 .. Len(s.queue) : s.map[s.queue[k].at] = k
  BY DEF Sane, Queued
<1>2. DOMAIN s.queue = 1 .. Len(s.queue)
  BY <1>1
<1>3. items = {s.map[i]}
  BY <1>1, <1>2
<1>4. s.map[i] <= s.map[i]
  BY <1>1
<1> HIDE DEF items
<1>5. (CHOOSE k \in items : \A m \in items : k <= m) = s.map[i]
  BY <1>3, <1>4
<1> QED  BY <1>5 DEF items

\* After the queue is painted.
LEMMA QueuePainted ==
  ASSUME NEW s, Good(s), Painted(s), NEW s1, s1 = IF s.cursor_enabled THEN draw_cursor(s) ELSE s
  PROVE  LET t == PaintQueue(s1)
         IN  /\ Elsewhere(s, t, {"grid", "picture", "map", "queue"})
             /\ t.map = [i \in Cells |-> 0] /\ t.queue = <<>>
             /\ t.grid = [i \in Cells |-> Content(s, i)]
             /\ t.picture \in [Cells -> Characters]
             /\ \A i \in Cells :
                  t.picture[i] = IF i \in Under(s) THEN Inverted(Content(s, i))
                                 ELSE IF s.map[i] # 0 THEN Plot(Content(s, i)) ELSE s.picture[i]
<1> DEFINE t == PaintQueue(s1)
           waiting == {i \in Cells : s1.map[i] # 0}
           items(i) == {k \in DOMAIN s1.queue : s1.queue[k].at = i}
           item(i) == s1.queue[CHOOSE k \in items(i) : \A m \in items(i) : k <= m].c
           picture == [i \in Cells |-> IF i \in waiting THEN Plot(item(i)) ELSE s1.picture[i]]
           grid == [i \in Cells |-> IF i \in waiting THEN item(i) ELSE s1.grid[i]]
<1>1. /\ Elsewhere(s, s1, {"grid", "picture", "map"})
      /\ s1.grid \in [Cells -> Characters] /\ s1.picture \in [Cells -> Characters]
      /\ s1.map \in [Cells -> Nat]
      /\ \A i \in Cells :
           /\ s1.grid[i] = IF i \in Under(s) THEN Content(s, i) ELSE s.grid[i]
           /\ s1.picture[i] = IF i \in Under(s) THEN Inverted(Content(s, i)) ELSE s.picture[i]
           /\ s1.map[i] = IF i \in Under(s) THEN 0 ELSE s.map[i]
  BY CursorDrawn
<1>2. Fields \subseteq DOMAIN s /\ Sane(s)
  BY DEF Good, Sane, Shaped
<1>3. s1.queue = s.queue /\ Fields \subseteq DOMAIN s1
  BY <1>1, <1>2, InFields DEF Elsewhere
<1>4. t = [s1 EXCEPT !.picture = picture, !.grid = grid, !.map = [i \in Cells |-> 0],
                     !.queue = <<>>]
  BY DEF PaintQueue
<1>5. ASSUME NEW i \in waiting PROVE item(i) = Content(s, i) /\ i \notin Under(s) /\ s.map[i] # 0
  <2>1. i \in Cells /\ s1.map[i] # 0 /\ i \notin Under(s) /\ s.map[i] # 0
    BY <1>1
  <2>2. (CHOOSE k \in items(i) : \A m \in items(i) : k <= m) = s.map[i]
    BY <1>2, <1>3, <2>1, ItemUnique
  <2>3. item(i) = s.queue[s.map[i]].c
    BY <1>3, <2>2
  <2>4. Content(s, i) = s.queue[s.map[i]].c
    BY <2>1 DEF Content
  <2> HIDE DEF item
  <2> QED  BY <2>1, <2>3, <2>4
<1>6. \A i \in Cells \ waiting : i \in Under(s) \/ (s.map[i] = 0 /\ Content(s, i) = s.grid[i])
  BY <1>1 DEF Content
<1> HIDE DEF items, item
<1>7. \A i \in Cells : grid[i] = Content(s, i)
  BY <1>1, <1>5, <1>6
<1>8. \A i \in Cells :
        picture[i] = IF i \in Under(s) THEN Inverted(Content(s, i))
                     ELSE IF s.map[i] # 0 THEN Plot(Content(s, i)) ELSE s.picture[i]
  BY <1>1, <1>5, <1>6
<1>9. \A i \in Cells : picture[i] \in Characters
  <2> SUFFICES ASSUME NEW i \in Cells PROVE picture[i] \in Characters
    OBVIOUS
  <2>1. Content(s, i) \in Characters /\ s.picture[i] \in Characters
    BY <1>2, ContentType DEF Painted
  <2>2. Plot(Content(s, i)) \in Characters /\ Inverted(Content(s, i)) \in Characters
    BY <2>1, PlotType
  <2> HIDE DEF picture
  <2> QED  BY <1>8, <2>1, <2>2
<1>10. grid = [i \in Cells |-> Content(s, i)]
  BY <1>7
<1>11. picture \in [Cells -> Characters]
  BY <1>9
<1> HIDE DEF picture, grid, waiting
<1>12. /\ t.picture = picture /\ t.grid = grid /\ t.map = [i \in Cells |-> 0] /\ t.queue = <<>>
       /\ Elsewhere(s1, t, {"grid", "picture", "map", "queue"})
  BY <1>3, <1>4, InFields DEF Elsewhere
<1> HIDE DEF t
<1>13. Elsewhere(s, t, {"grid", "picture", "map", "queue"})
  BY <1>1, <1>12 DEF Elsewhere
<1>14. /\ Elsewhere(s, t, {"grid", "picture", "map", "queue"})
       /\ t.map = [i \in Cells |-> 0] /\ t.queue = <<>>
       /\ t.grid = [i \in Cells |-> Content(s, i)]
       /\ t.picture \in [Cells -> Characters]
       /\ \A i \in Cells :
            t.picture[i] = IF i \in Under(s) THEN Inverted(Content(s, i))
                           ELSE IF s.map[i] # 0 THEN Plot(Content(s, i)) ELSE s.picture[i]
  BY <1>8, <1>10, <1>11, <1>12, <1>13
<1> QED  BY <1>14 DEF t

\* What a flush leaves: all that was written is seen, and nothing waits.
Refreshed(s, t) ==
  /\ Good(t) /\ Painted(t)
  /\ t.picture = [i \in Cells |-> Seen(s, i)] /\ Text(t) = Text(s) /\ Under(t) = Under(s)
  /\ t.autoflush = s.autoflush

\* Of a state with nothing in the queue, whose grid is what another holds.
LEMMA EmptyQueue ==
  ASSUME NEW s, Good(s), NEW t,
         Elsewhere(s, t, {"grid", "picture", "map", "queue", "old_cursor_x", "old_cursor_y"}),
         t.map = [i \in Cells |-> 0], t.queue = <<>>, t.grid = [i \in Cells |-> Content(s, i)]
  PROVE  Good(t) /\ Text(t) = Text(s) /\ Under(t) = Under(s) /\ t.autoflush = s.autoflush
<1>1. Fields \subseteq DOMAIN s /\ Sane(s)
  BY DEF Good, Sane, Shaped
<1>2. /\ t.cursor_enabled = s.cursor_enabled
      /\ t.cursor_x = s.cursor_x /\ t.cursor_y = s.cursor_y
      /\ t.scroll_top_margin = s.scroll_top_margin
      /\ t.scroll_bottom_margin = s.scroll_bottom_margin
  BY <1>1, InFields DEF Elsewhere
<1>3. SamePen(s, t) /\ SameStore(s, t) /\ SameParser(s, t) /\ Shaped(t)
  BY <1>1, InFields DEF Elsewhere, Shaped, SamePen, SameStore, SameParser
<1>4. Queued(t)
  <2>1. \A i \in Cells : Content(s, i) \in Characters
    BY <1>1, ContentType
  <2>2. t.queue \in Seq(Item) /\ Len(t.queue) = 0
    OBVIOUS
  <2> QED  BY <2>1, <2>2 DEF Queued
<1>5. Placing(t) /\ Region(t)
  BY <1>1, <1>2 DEF Sane, Placing, Region
<1>6. Inky(t)
  BY <1>1, <1>3 DEF Sane, Inky, SamePen
<1>7. Storing(t)
  BY <1>1, <1>3 DEF Sane, Storing, SameStore
<1>8. Parsed(t)
  BY <1>1, <1>3 DEF Sane, Parsed, SameParser
<1>9. Good(t)
  BY <1>2, <1>3, <1>4, <1>5, <1>6, <1>7, <1>8 DEF Good, Sane
<1>10. \A i \in Cells : Content(t, i) = Content(s, i)
  BY DEF Content
<1>11. Text(t) = Text(s)
  BY <1>10 DEF Text
<1>12. Under(t) = Under(s)
  BY <1>2 DEF Under
<1>13. t.autoflush = s.autoflush
  BY <1>3 DEF SameParser
<1> QED  BY <1>9, <1>11, <1>12, <1>13

\* A flush shows the text and the cursor, and nothing that was there before.
LEMMA FlushRefreshes ==
  ASSUME NEW s, Good(s), Painted(s)
  PROVE  Refreshed(s, Flushed(s))
<1> DEFINE s1 == IF s.cursor_enabled THEN draw_cursor(s) ELSE s
           s2 == PaintQueue(s1)
           s3 == EraseCursor(s2)
           t == [s3 EXCEPT !.old_cursor_x = s.cursor_x, !.old_cursor_y = s.cursor_y]
           old == Cell(s.old_cursor_x, s.old_cursor_y)
           moved == <<s.old_cursor_x, s.old_cursor_y>> # <<s.cursor_x, s.cursor_y>>
           erases == (moved \/ ~ s.cursor_enabled) /\ OnScreen(s.old_cursor_x, s.old_cursor_y)
<1>1. Flushed(s) = t
  BY DEF Flushed, flanterm_fb_double_buffer_flush
<1>2. /\ Elsewhere(s, s2, {"grid", "picture", "map", "queue"})
      /\ s2.map = [i \in Cells |-> 0] /\ s2.queue = <<>>
      /\ s2.grid = [i \in Cells |-> Content(s, i)]
      /\ s2.picture \in [Cells -> Characters]
      /\ \A i \in Cells :
           s2.picture[i] = IF i \in Under(s) THEN Inverted(Content(s, i))
                           ELSE IF s.map[i] # 0 THEN Plot(Content(s, i)) ELSE s.picture[i]
  BY QueuePainted
<1> HIDE DEF s1, s2
<1>3. Fields \subseteq DOMAIN s /\ Sane(s) /\ Placing(s)
  BY DEF Good, Sane, Shaped
<1>4. /\ s2.cursor_x = s.cursor_x /\ s2.cursor_y = s.cursor_y
      /\ s2.old_cursor_x = s.old_cursor_x /\ s2.old_cursor_y = s.old_cursor_y
      /\ s2.cursor_enabled = s.cursor_enabled /\ Fields \subseteq DOMAIN s2
  BY <1>2, <1>3, InFields DEF Elsewhere
<1>5. s3 = IF erases THEN [s2 EXCEPT !.picture[old] = Plot(s2.grid[old])] ELSE s2
  BY <1>4 DEF EraseCursor
<1>6. erases => old \in Cells
  BY CellType
<1>7. /\ Elsewhere(s2, s3, {"picture"})
      /\ s3.picture = IF erases THEN [s2.picture EXCEPT ![old] = Plot(s2.grid[old])] ELSE s2.picture
  <2> HIDE DEF erases, old, s3
  <2>1. CASE erases
    BY <1>4, <1>5, <2>1, InFields DEF Elsewhere
  <2>2. CASE ~ erases
    BY <1>5, <2>2 DEF Elsewhere
  <2> QED  BY <2>1, <2>2
<1> HIDE DEF s3
<1>8. /\ Elsewhere(s3, t, {"old_cursor_x", "old_cursor_y"}) /\ t.picture = s3.picture
      /\ t.old_cursor_x = s.cursor_x /\ t.old_cursor_y = s.cursor_y
  BY <1>4, <1>7, InFields DEF Elsewhere
<1> HIDE DEF t
<1>9. Elsewhere(s, t, {"grid", "picture", "map", "queue", "old_cursor_x", "old_cursor_y"})
  BY <1>2, <1>7, <1>8 DEF Elsewhere
<1>10. t.map = s2.map /\ t.queue = s2.queue /\ t.grid = s2.grid
  BY <1>4, <1>7, <1>8, InFields DEF Elsewhere
<1>11. Good(t) /\ Text(t) = Text(s) /\ Under(t) = Under(s) /\ t.autoflush = s.autoflush
  BY <1>2, <1>9, <1>10, EmptyQueue
\* The old place is erased unless the cursor is still there.
<1>12. ASSUME NEW i \in Cells PROVE t.picture[i] = Seen(s, i)
  <2>1. s2.grid[i] = Content(s, i)
    BY <1>2
  <2>2. CASE i \in Under(s)
    <3>1. ~ (erases /\ i = old)
      <4>1. SUFFICES ASSUME erases, i = old PROVE FALSE
        OBVIOUS
      <4>2. /\ s.cursor_enabled /\ OnScreen(s.cursor_x, s.cursor_y)
            /\ i = Cell(s.cursor_x, s.cursor_y)
        BY <2>2 DEF Under
      <4>3. /\ OnScreen(s.old_cursor_x, s.old_cursor_y) /\ OnScreen(s.cursor_x, s.cursor_y)
            /\ Cell(s.old_cursor_x, s.old_cursor_y) = Cell(s.cursor_x, s.cursor_y)
        BY <4>1, <4>2
      <4>4. s.old_cursor_x = s.cursor_x /\ s.old_cursor_y = s.cursor_y
        BY <4>3, CellInjective
      <4> QED  BY <4>1, <4>2, <4>4
    <3>2. s3.picture[i] = s2.picture[i]
      BY <1>2, <1>6, <1>7, <3>1
    <3> QED  BY <1>2, <1>8, <2>2, <3>2 DEF Seen
  <2>3. CASE i \notin Under(s) /\ erases /\ i = old
    <3>1. s3.picture[i] = Plot(s2.grid[old])
      BY <1>2, <1>7, <2>3
    <3> QED  BY <1>8, <2>1, <2>3, <3>1 DEF Seen
  <2>4. CASE i \notin Under(s) /\ ~ (erases /\ i = old)
    <3>1. s3.picture[i] = s2.picture[i]
      BY <1>2, <1>6, <1>7, <2>4
    <3>2. s.map[i] = 0 => s.picture[i] = Plot(Content(s, i))
      <4>1. SUFFICES ASSUME s.map[i] = 0 PROVE s.picture[i] = Plot(s.grid[i])
        BY DEF Content
      <4>2. CASE OnScreen(s.old_cursor_x, s.old_cursor_y) /\ i = old
        BY <2>4, <4>2 DEF Under
      <4>3. CASE ~ (OnScreen(s.old_cursor_x, s.old_cursor_y) /\ i = old)
        BY <4>3 DEF Painted
      <4> QED  BY <4>2, <4>3
    <3>3. s2.picture[i] = Plot(Content(s, i))
      BY <1>2, <2>4, <3>2
    <3> QED  BY <1>8, <2>4, <3>1, <3>3 DEF Seen
  <2> QED  BY <2>2, <2>3, <2>4
<1>13. t.picture \in [Cells -> Characters]
  <2>1. \A i \in Cells : s2.grid[i] \in Characters
    BY <1>2, <1>3, ContentType
  <2>2. \A i \in Cells : Plot(s2.grid[i]) \in Characters
    BY <2>1, PlotType
  <2> HIDE DEF erases, old
  <2> QED  BY <1>2, <1>6, <1>7, <1>8, <2>2
<1>14. t.picture = [i \in Cells |-> Seen(s, i)]
  BY <1>12, <1>13
<1>15. Painted(t)
  <2>1. t.old_cursor_x \in Nat /\ t.old_cursor_y \in Nat
    BY <1>3, <1>8, FramebufferAssumption DEF Placing, Rows
  <2>2. ASSUME NEW i \in Cells
        PROVE  t.picture[i] = Plot(t.grid[i])
                 \/ (OnScreen(t.old_cursor_x, t.old_cursor_y)
                       /\ i = Cell(t.old_cursor_x, t.old_cursor_y))
    <3>1. t.picture[i] = Seen(s, i) /\ t.grid[i] = Content(s, i)
      BY <1>2, <1>10, <1>12
    <3>2. CASE i \in Under(s)
      BY <1>8, <3>2 DEF Under
    <3>3. CASE i \notin Under(s)
      BY <3>1, <3>3 DEF Seen
    <3> QED  BY <3>2, <3>3
  <2> QED  BY <1>13, <2>1, <2>2 DEF Painted
<1>16. Refreshed(s, t)
  BY <1>11, <1>14, <1>15 DEF Refreshed
<1> QED  BY <1>1, <1>16

\* A refresh of a settled screen paints all of it again.
LEMMA FullRefreshes ==
  ASSUME NEW s, Good(s), s.picture \in [Cells -> Characters], s.queue = <<>>,
         s.old_cursor_x = s.cursor_x, s.old_cursor_y = s.cursor_y
  PROVE  Refreshed(s, flanterm_fb_full_refresh(s))
<1> DEFINE s1 == [s EXCEPT !.picture = [i \in Cells |-> Plot(s.grid[i])]]
           t == IF s1.cursor_enabled THEN draw_cursor(s1) ELSE s1
<1>1. Fields \subseteq DOMAIN s /\ Sane(s) /\ Placing(s) /\ s.grid \in [Cells -> Characters]
  BY DEF Good, Sane, Shaped, Queued
<1>2. /\ Elsewhere(s, s1, {"picture"}) /\ s1.picture = [i \in Cells |-> Plot(s.grid[i])]
      /\ s1.cursor_enabled = s.cursor_enabled
  BY <1>1, InFields DEF Elsewhere
<1>3. flanterm_fb_full_refresh(s) = t
  BY <1>2 DEF flanterm_fb_full_refresh
<1> HIDE DEF s1
<1>4. /\ s1.grid = s.grid /\ s1.map = s.map /\ s1.queue = s.queue
      /\ s1.cursor_x = s.cursor_x /\ s1.cursor_y = s.cursor_y
      /\ s1.old_cursor_x = s.old_cursor_x /\ s1.old_cursor_y = s.old_cursor_y
      /\ s1.scroll_top_margin = s.scroll_top_margin
      /\ s1.scroll_bottom_margin = s.scroll_bottom_margin
      /\ Shaped(s1) /\ SamePen(s, s1) /\ SameStore(s, s1) /\ SameParser(s, s1)
  BY <1>1, <1>2, InFields DEF Elsewhere, Shaped, SamePen, SameStore, SameParser
<1>5. Good(s1)
  <2>1. Queued(s1)
    BY <1>1, <1>4 DEF Sane, Queued
  <2>2. Placing(s1) /\ Region(s1)
    BY <1>1, <1>4 DEF Sane, Placing, Region
  <2>3. Inky(s1)
    BY <1>1, <1>4 DEF Sane, Inky, SamePen
  <2>4. Storing(s1)
    BY <1>1, <1>4 DEF Sane, Storing, SameStore
  <2>5. Parsed(s1)
    BY <1>1, <1>4 DEF Sane, Parsed, SameParser
  <2> QED  BY <1>4, <2>1, <2>2, <2>3, <2>4, <2>5 DEF Good, Sane
<1>6. \A i \in Cells : s.map[i] = 0 /\ Content(s, i) = s.grid[i] /\ Content(s1, i) = s.grid[i]
  BY <1>1, <1>4 DEF Sane, Queued, Content
<1>7. Under(s1) = Under(s)
  BY <1>2, <1>4 DEF Under
<1>8. \A i \in Cells : Plot(s.grid[i]) \in Characters
  BY <1>1, PlotType
<1>9. Painted(s1)
  BY <1>1, <1>2, <1>4, <1>8, FramebufferAssumption DEF Painted, Placing, Rows
<1>10. /\ Elsewhere(s1, t, {"grid", "picture", "map"})
       /\ t.grid \in [Cells -> Characters] /\ t.picture \in [Cells -> Characters]
       /\ t.map \in [Cells -> Nat]
       /\ \A i \in Cells :
            /\ t.grid[i] = IF i \in Under(s1) THEN Content(s1, i) ELSE s1.grid[i]
            /\ t.picture[i] = IF i \in Under(s1) THEN Inverted(Content(s1, i)) ELSE s1.picture[i]
            /\ t.map[i] = IF i \in Under(s1) THEN 0 ELSE s1.map[i]
  BY <1>5, <1>9, CursorDrawn
<1> HIDE DEF t
<1>11. t.map = [i \in Cells |-> 0]
  BY <1>4, <1>6, <1>10
<1>12. t.grid = [i \in Cells |-> Content(s, i)]
  BY <1>4, <1>6, <1>10
<1>13. t.picture = [i \in Cells |-> Seen(s, i)]
  BY <1>2, <1>6, <1>7, <1>10 DEF Seen
<1>14. Elsewhere(s, t, {"grid", "picture", "map", "queue", "old_cursor_x", "old_cursor_y"})
  BY <1>2, <1>10 DEF Elsewhere
<1>15. /\ t.queue = <<>> /\ t.old_cursor_x = s.cursor_x /\ t.old_cursor_y = s.cursor_y
  BY <1>1, <1>2, <1>10, InFields DEF Elsewhere
<1>16. Good(t) /\ Text(t) = Text(s) /\ Under(t) = Under(s) /\ t.autoflush = s.autoflush
  BY <1>11, <1>12, <1>14, <1>15, EmptyQueue
<1>17. Painted(t)
  <2>1. t.old_cursor_x \in Nat /\ t.old_cursor_y \in Nat
    BY <1>1, <1>15, FramebufferAssumption DEF Placing, Rows
  <2>2. ASSUME NEW i \in Cells
        PROVE  t.picture[i] = Plot(t.grid[i])
                 \/ (OnScreen(t.old_cursor_x, t.old_cursor_y)
                       /\ i = Cell(t.old_cursor_x, t.old_cursor_y))
    <3>1. t.picture[i] = Seen(s, i) /\ t.grid[i] = Content(s, i)
      BY <1>12, <1>13
    <3>2. CASE i \in Under(s)
      BY <1>15, <3>2 DEF Under
    <3>3. CASE i \notin Under(s)
      BY <3>1, <3>3 DEF Seen
    <3> QED  BY <3>2, <3>3
  <2> QED  BY <1>10, <2>1, <2>2 DEF Painted
<1>18. Refreshed(s, t)
  BY <1>13, <1>16, <1>17 DEF Refreshed
<1> QED  BY <1>3, <1>18

-----------------------------------------------------------------------------
(* The invariant of the terminal.                                          *)

Drawn(s) == Good(s) /\ Painted(s)

\* Text leaves the picture alone, and a flush brings it up to date.
LEMMA ActsDrawn ==
  ASSUME NEW s, Drawn(s), NEW t, Acts(s, t)
  PROVE  Drawn(t) /\ t.picture = s.picture
<1>1. /\ t.picture = s.picture /\ t.grid = s.grid
      /\ t.old_cursor_x = s.old_cursor_x /\ t.old_cursor_y = s.old_cursor_y
  BY DEF Acts, Painting
<1>2. Painted(t)
  BY <1>1 DEF Drawn, Painted
<1> QED  BY <1>1, <1>2 DEF Drawn, Acts

LEMMA RefreshedDrawn ==
  ASSUME NEW s, NEW t, Refreshed(s, t)
  PROVE  Drawn(t) /\ t.picture = Page!Picture(Text(t), Under(t))
<1>1. \A i \in Cells : Text(t)[i] = Content(s, i)
  <2>1. Text(t) = Text(s)
    BY DEF Refreshed
  <2> QED  BY <2>1 DEF Text
<1>2. t.picture = [i \in Cells |-> IF i \in Under(t) THEN Inverted(Text(t)[i])
                                   ELSE Plot(Text(t)[i])]
  BY <1>1 DEF Refreshed, Seen
<1> QED  BY <1>2 DEF Refreshed, Drawn, Page!Picture

\* What flanterm_fb_init has cleared.
LEMMA StartDrawn ==
  Drawn(InitialContext)
    /\ InitialContext.picture = Page!Picture(Text(InitialContext), Under(InitialContext))
<1> DEFINE blank == [c |-> SPACE, fg |-> DefaultFg, bg |-> TRANSPARENT]
           kept == [text_fg |-> Ansi(0), text_bg |-> Ansi(0), cursor_x |-> 0, cursor_y |-> 0,
                    bold |-> FALSE, bg_bold |-> FALSE, reverse_video |-> FALSE,
                    current_charset |-> 0, current_primary |-> 0, current_bg |-> 0]
           zeroed == [
             text_fg |-> DefaultFg, text_bg |-> TRANSPARENT,
             cursor_x |-> 0, cursor_y |-> 0, old_cursor_x |-> 0, old_cursor_y |-> 0,
             grid |-> [i \in Cells |-> blank], picture |-> [i \in Cells |-> Plot(blank)],
             queue |-> <<>>, map |-> [i \in Cells |-> 0],
             number |-> 0, filler |-> 0, code_point |-> 0, saved |-> kept]
           s == Over(Initial, zeroed)
<1>1. InitialContext = flanterm_fb_full_refresh(s)
  BY DEF InitialContext
<1>2. blank \in Characters
  BY ColourTypes DEF Characters, SPACE
<1>3. /\ zeroed.text_fg = DefaultFg /\ zeroed.text_bg = TRANSPARENT
      /\ zeroed.cursor_x = 0 /\ zeroed.cursor_y = 0
      /\ zeroed.old_cursor_x = 0 /\ zeroed.old_cursor_y = 0
      /\ zeroed.grid = [i \in Cells |-> blank] /\ zeroed.picture = [i \in Cells |-> Plot(blank)]
      /\ zeroed.queue = <<>> /\ zeroed.map = [i \in Cells |-> 0]
      /\ zeroed.number = 0 /\ zeroed.filler = 0 /\ zeroed.saved = kept
      /\ {"number", "filler", "text_fg", "text_bg", "cursor_x", "cursor_y", "old_cursor_x",
          "old_cursor_y", "grid", "picture", "queue", "map", "saved"} \subseteq DOMAIN zeroed
  OBVIOUS
<1>4. /\ SavedFields \subseteq DOMAIN kept
      /\ kept.text_fg = Ansi(0) /\ kept.text_bg = Ansi(0) /\ kept.cursor_x = 0 /\ kept.cursor_y = 0
      /\ kept.current_primary = 0 /\ kept.current_bg = 0
  BY DEF SavedFields
<1> HIDE DEF blank, kept, zeroed
<1>5. /\ DOMAIN s = DOMAIN Initial \cup DOMAIN zeroed
      /\ \A f \in DOMAIN Initial : s[f] = Initial[f]
      /\ \A f \in DOMAIN zeroed \ DOMAIN Initial : s[f] = zeroed[f]
  BY DEF Over
<1> HIDE DEF s
<1>6. /\ s.autoflush = TRUE /\ s.osc = FALSE /\ s.control_sequence = FALSE
      /\ s.rrr = FALSE /\ s.esc_values = <<>> /\ s.unicode_remaining = 0 /\ s.g_select = 0
      /\ s.saved_cursor_x = 0 /\ s.saved_cursor_y = 0
      /\ s.current_primary = NONE /\ s.current_bg = NONE
      /\ s.scroll_top_margin = 0 /\ s.scroll_bottom_margin = ROWS
  BY <1>5, InitialFields
<1>7. /\ s.text_fg = DefaultFg /\ s.text_bg = TRANSPARENT
      /\ s.cursor_x = 0 /\ s.cursor_y = 0 /\ s.old_cursor_x = 0 /\ s.old_cursor_y = 0
      /\ s.grid = [i \in Cells |-> blank] /\ s.picture = [i \in Cells |-> Plot(blank)]
      /\ s.queue = <<>> /\ s.map = [i \in Cells |-> 0]
      /\ s.number = 0 /\ s.filler = 0 /\ s.saved = kept
  BY <1>3, <1>5, InitialFields
<1>8. Shaped(s)
  BY <1>3, <1>5, InitialFields DEF Shaped, Fields
<1>9. Queued(s)
  <2>1. s.queue \in Seq(Item) /\ Len(s.queue) = 0
    BY <1>7
  <2> QED  BY <1>2, <1>7, <2>1 DEF Queued
<1>10. Placing(s) /\ Region(s) /\ s.scroll_top_margin + Least(2, ROWS) <= s.scroll_bottom_margin
  BY <1>6, <1>7, FramebufferAssumption DEF Placing, Region, Rows, Least
<1>11. Inky(s)
  BY <1>6, <1>7, ColourTypes DEF Inky, Palette
<1>12. Storing(s)
  <2>1. Ansi(0) \in Colours
    BY ColourTypes
  <2>2. Inky(kept)
    BY <1>4, <2>1 DEF Inky, Palette
  <2>3. Placing(kept)
    BY <1>4, FramebufferAssumption DEF Placing, Rows
  <2> QED  BY <1>4, <1>6, <1>7, <2>2, <2>3 DEF Storing
<1>13. Parsed(s)
  <2>1. s.esc_values \in Seq(Nat) /\ Len(s.esc_values) + 0 <= FLANTERM_MAX_ESC_VALUES
    BY <1>6, TerminalAssumption
  <2>2. s.number \in Nat /\ s.filler \in Nat
    BY <1>7
  <2>3. /\ s.autoflush \in BOOLEAN /\ s.osc \in BOOLEAN /\ s.control_sequence \in BOOLEAN
        /\ s.rrr \in BOOLEAN /\ ~ (s.osc /\ s.control_sequence) /\ ~ s.rrr
    BY <1>6, Zenon
  <2>4. s.unicode_remaining \in 0 .. 3 /\ s.g_select \in 0 .. 2
    BY <1>6
  <2> QED  BY <2>1, <2>2, <2>3, <2>4 DEF Parsed
<1>14. Good(s)
  BY <1>8, <1>9, <1>10, <1>11, <1>12, <1>13 DEF Good, Sane
<1>15. s.picture \in [Cells -> Characters]
  BY <1>2, <1>7, PlotType
<1>16. Refreshed(s, flanterm_fb_full_refresh(s))
  BY <1>7, <1>14, <1>15, FullRefreshes
<1> QED  BY <1>1, <1>16, RefreshedDrawn

\* A call that writes: what it drew is shown if it left the terminal automatic.
LEMMA WriteDrawn ==
  ASSUME NEW s, Drawn(s), NEW buf \in Seq(Nat)
  PROVE  LET t == Written(s, buf)
         IN  /\ Drawn(t)
             /\ t.picture = IF t.autoflush THEN Page!Picture(Text(t), Under(t)) ELSE s.picture
<1> DEFINE z == Loop(LAMBDA r, k : flanterm_putchar(r, buf[k]), s, Len(buf))
           t == Written(s, buf)
<1>1. Acts(s, z)
  <2>1. Good(s)
    BY DEF Drawn
  <2> QED  BY <2>1, TextActs, Zenon
<1>2. t = IF z.autoflush THEN Flushed(z) ELSE z
  BY DEF Written, AutoFlushed
<1> HIDE DEF z, t
<1>3. Drawn(z) /\ z.picture = s.picture
  BY <1>1, ActsDrawn
<1>4. CASE z.autoflush
  <2>1. Refreshed(z, t)
    BY <1>2, <1>3, <1>4, FlushRefreshes DEF Drawn
  <2>2. Drawn(t) /\ t.picture = Page!Picture(Text(t), Under(t))
    BY <2>1, RefreshedDrawn
  <2>3. t.autoflush
    BY <1>4, <2>1 DEF Refreshed
  <2> QED  BY <2>2, <2>3 DEF t
<1>5. CASE ~ z.autoflush
  BY <1>2, <1>3, <1>5 DEF t
<1> QED  BY <1>4, <1>5

\* The two switches change no text and no picture.
LEMMA SetAutoDrawn ==
  ASSUME NEW s, Drawn(s), NEW state \in BOOLEAN
  PROVE  LET t == [s EXCEPT !.autoflush = state]
         IN  /\ Drawn(t) /\ t.autoflush = state /\ t.picture = s.picture
             /\ Text(t) = Text(s) /\ Under(t) = Under(s)
<1> DEFINE t == [s EXCEPT !.autoflush = state]
<1>1. Fields \subseteq DOMAIN s /\ Good(s) /\ Parsed(s)
  BY DEF Drawn, Good, Sane, Shaped
<1>2. Elsewhere(s, t, {"autoflush"}) /\ t.autoflush = state
  BY <1>1, InFields DEF Elsewhere
<1> HIDE DEF t
<1>3. /\ Shaped(t) /\ SameDrawing(s, t) /\ SamePen(s, t) /\ SameStore(s, t)
      /\ t.cursor_enabled = s.cursor_enabled
  BY <1>1, <1>2, InFields DEF Elsewhere, Shaped, SameDrawing, SamePen, SameStore
<1>4. /\ t.osc = s.osc /\ t.control_sequence = s.control_sequence /\ t.rrr = s.rrr
      /\ t.esc_values = s.esc_values /\ t.number = s.number /\ t.filler = s.filler
      /\ t.unicode_remaining = s.unicode_remaining /\ t.g_select = s.g_select
  BY <1>1, <1>2, InFields DEF Elsewhere
<1>5. Parsed(t)
  <2>1. t.autoflush \in BOOLEAN
    BY <1>2, Zenon
  <2> QED  BY <1>1, <1>4, <2>1 DEF Parsed
<1>6. Acts(s, t)
  BY <1>1, <1>3, <1>5, ParserFrame
<1>7. Drawn(t) /\ t.picture = s.picture
  BY <1>6, ActsDrawn
<1>8. Text(t) = Text(s) /\ Under(t) = Under(s)
  BY <1>3 DEF SameDrawing, Painting, Text, Content, Under
<1> QED  BY <1>2, <1>7, <1>8 DEF t

LEMMA SetOutputDrawn ==
  ASSUME NEW s, Drawn(s), NEW onlcr
  PROVE  LET t == [s EXCEPT !.onlcr = onlcr]
         IN  /\ Drawn(t) /\ t.autoflush = s.autoflush /\ t.picture = s.picture
             /\ Text(t) = Text(s) /\ Under(t) = Under(s)
<1> DEFINE t == [s EXCEPT !.onlcr = onlcr]
<1>1. Fields \subseteq DOMAIN s /\ Good(s)
  BY DEF Drawn, Good, Sane, Shaped
<1>2. Elsewhere(s, t, {"onlcr"})
  BY DEF Elsewhere
<1> HIDE DEF t
<1>3. \A f \in Fields : f \in DOMAIN s \ {"onlcr"}
  BY <1>1 DEF Fields
<1>4. Acts(s, t)
  BY <1>1, <1>2, <1>3, OthersActs
<1>5. Drawn(t) /\ t.picture = s.picture
  BY <1>4, ActsDrawn
<1>6. /\ t.autoflush = s.autoflush /\ t.map = s.map /\ t.queue = s.queue /\ t.grid = s.grid
      /\ t.cursor_enabled = s.cursor_enabled
      /\ t.cursor_x = s.cursor_x /\ t.cursor_y = s.cursor_y
  BY <1>1, <1>2, <1>3, InFields DEF Elsewhere
<1>7. Text(t) = Text(s) /\ Under(t) = Under(s)
  BY <1>6 DEF Text, Content, Under
<1> QED  BY <1>5, <1>6, <1>7 DEF t

-----------------------------------------------------------------------------
(* The steps, and the specifications.                                      *)

LEMMA InitDrawn ==
  ASSUME Init
  PROVE  Drawn(ctx) /\ ctx.picture = Page!Picture(Text(ctx), Under(ctx))
  BY StartDrawn DEF Init

\* The refinement's text, cursor and switch are those of a screen.
LEMMA PageTyped ==
  ASSUME NEW s, Drawn(s)
  PROVE  /\ Text(s) \in [Cells -> Characters] /\ Under(s) \in Page!Places
         /\ s.autoflush \in BOOLEAN
<1>1. Sane(s) /\ Parsed(s)
  BY DEF Drawn, Good, Sane
<1>2. Text(s) \in [Cells -> Characters]
  <2>1. \A i \in Cells : Content(s, i) \in Characters
    BY <1>1, ContentType
  <2> QED  BY <2>1 DEF Text
<1>3. Under(s) \in Page!Places
  BY CellType DEF Under, Page!Places
<1>4. s.autoflush \in BOOLEAN
  BY <1>1 DEF Parsed
<1> QED  BY <1>2, <1>3, <1>4

\* Bytes are numbers.
LEMMA SequencesOver ==
  ASSUME NEW S, NEW T, S \subseteq T, NEW q \in Seq(S)
  PROVE  q \in Seq(T)
<1>1. \A k \in 1 .. Len(q) : q[k] \in T
  OBVIOUS
<1>2. q = [k \in 1 .. Len(q) |-> q[k]] /\ Len(q) \in Nat
  OBVIOUS
<1>3. [k \in 1 .. Len(q) |-> q[k]] \in Seq(T)
  BY <1>1, <1>2
<1> QED  BY <1>2, <1>3

\* Each action of the terminal keeps the invariant and is one of the screen's.
LEMMA StepWrite ==
  ASSUME Drawn(ctx), NEW buf \in Buffers, flanterm_write(buf)
  PROVE  Drawn(ctx)' /\ Page!Write
<1>1. buf \in Seq(Nat)
  <2>1. buf \in Seq(1 .. 255) /\ 1 .. 255 \subseteq Nat
    BY TerminalAssumption
  <2> QED  BY <2>1, SequencesOver, Zenon
<1>2. /\ Drawn(ctx')
      /\ ctx'.picture = IF ctx'.autoflush THEN Page!Picture(Text(ctx'), Under(ctx'))
                        ELSE ctx.picture
  BY <1>1, WriteDrawn DEF flanterm_write
<1>3. /\ Text(ctx') \in [Cells -> Characters] /\ Under(ctx') \in Page!Places
      /\ ctx'.autoflush \in BOOLEAN
  BY <1>2, PageTyped
<1> QED  BY <1>2, <1>3 DEF Page!Write

LEMMA StepFlush ==
  ASSUME Drawn(ctx), flanterm_flush \/ (Settled /\ flanterm_full_refresh)
  PROVE  Drawn(ctx)' /\ Page!Show
<1>1. Refreshed(ctx, ctx')
  <2>1. CASE flanterm_flush
    BY <2>1, FlushRefreshes DEF flanterm_flush, Flushed, Drawn
  <2>2. CASE Settled /\ flanterm_full_refresh
    BY <2>2, FullRefreshes DEF Settled, flanterm_full_refresh, Drawn, Painted
  <2> QED  BY <2>1, <2>2
<1>2. Drawn(ctx') /\ ctx'.picture = Page!Picture(Text(ctx'), Under(ctx'))
  BY <1>1, RefreshedDrawn
<1>3. Text(ctx') = Text(ctx) /\ Under(ctx') = Under(ctx) /\ ctx'.autoflush = ctx.autoflush
  BY <1>1 DEF Refreshed
<1> QED  BY <1>2, <1>3 DEF Page!Show

LEMMA StepSet ==
  ASSUME Drawn(ctx), NEW state \in BOOLEAN,
         flanterm_set_autoflush(state) \/ flanterm_set_oob_output(state)
  PROVE  Drawn(ctx)' /\ Page!SetAuto
<1>1. /\ Drawn(ctx') /\ ctx'.picture = ctx.picture
      /\ Text(ctx') = Text(ctx) /\ Under(ctx') = Under(ctx)
  <2>1. CASE flanterm_set_autoflush(state)
    BY <2>1, SetAutoDrawn DEF flanterm_set_autoflush
  <2>2. CASE flanterm_set_oob_output(state)
    BY <2>2, SetOutputDrawn DEF flanterm_set_oob_output
  <2> QED  BY <2>1, <2>2
<1>2. ctx'.autoflush \in BOOLEAN
  BY <1>1, PageTyped
<1> QED  BY <1>1, <1>2 DEF Page!SetAuto

LEMMA StepNext ==
  ASSUME Drawn(ctx), [Next]_ctx
  PROVE  Drawn(ctx)' /\ [Page!Next]_(Page!vars)
<1>1. CASE Next
  <2>1. ASSUME NEW buf \in Buffers, flanterm_write(buf)
        PROVE  Drawn(ctx)' /\ Page!Next
    BY <2>1, StepWrite DEF Page!Next
  <2>2. ASSUME flanterm_flush \/ (Settled /\ flanterm_full_refresh)
        PROVE  Drawn(ctx)' /\ Page!Next
    BY <2>2, StepFlush DEF Page!Next
  <2>3. ASSUME NEW state \in BOOLEAN,
               flanterm_set_autoflush(state) \/ flanterm_set_oob_output(state)
        PROVE  Drawn(ctx)' /\ Page!Next
    BY <2>3, StepSet DEF Page!Next
  <2> QED  BY <1>1, <2>1, <2>2, <2>3 DEF Next
<1>2. CASE UNCHANGED ctx
  BY <1>2 DEF Page!vars
<1> QED  BY <1>1, <1>2

\* The invariant of the terminal.
LEMMA AlwaysDrawn == Spec => []Drawn(ctx)
<1>1. Init => Drawn(ctx)
  BY InitDrawn
<1>2. Drawn(ctx) /\ [Next]_ctx => Drawn(ctx)'
  BY StepNext
<1> QED  BY <1>1, <1>2, PTL DEF Spec

\* The queue never has more items than the screen has cells: each leads back to its
\* own cell.
LEMMA QueueFits ==
  ASSUME NEW s, Drawn(s)
  PROVE  /\ Len(s.queue) <= COLS * ROWS
         /\ \A k \in DOMAIN s.queue : s.map[s.queue[k].at] = k
         /\ \A i \in Cells : s.map[i] # 0 => s.map[i] \in DOMAIN s.queue
<1> DEFINE n == Len(s.queue)
           at == [k \in 1 .. n |-> s.queue[k].at]
<1>1. /\ s.queue \in Seq(Item) /\ n \in Nat /\ DOMAIN s.queue = 1 .. n
      /\ \A k \in 1 .. n : s.map[s.queue[k].at] = k
      /\ \A i \in Cells : s.map[i] # 0 => s.map[i] \in 1 .. n
  BY DEF Drawn, Good, Sane, Queued
<1>2. ASSUME NEW k \in 1 .. n PROVE s.queue[k].at \in Cells
  <2>1. s.queue[k] \in Item
    BY <1>1
  <2> QED  BY <2>1 DEF Item
<1>3. at \in Injection(1 .. n, Cells)
  BY <1>1, <1>2 DEF Injection, IsInjective
<1>4. COLS * ROWS \in Nat
  BY FramebufferAssumption
<1>5. IsFiniteSet(Cells) /\ Cardinality(Cells) = COLS * ROWS
  <2> DEFINE last == COLS * ROWS - 1
  <2>1. last \in Int /\ 0 \in Int /\ Cells = 0 .. last
    BY <1>4 DEF Cells
  <2> HIDE DEF last
  <2>2. IsFiniteSet(0 .. last) /\ Cardinality(0 .. last) = IF 0 > last THEN 0 ELSE last - 0 + 1
    BY <2>1, FS_Interval
  <2> QED  BY <1>4, <2>1, <2>2 DEF last
<1>6. IsFiniteSet(1 .. n) /\ Cardinality(1 .. n) = n
  <2> HIDE DEF n
  <2>1. IsFiniteSet(1 .. n) /\ Cardinality(1 .. n) = IF 1 > n THEN 0 ELSE n - 1 + 1
    BY <1>1, FS_Interval
  <2> QED  BY <1>1, <2>1
<1>7. n <= COLS * ROWS
  <2>1. Cardinality(1 .. n) <= Cardinality(Cells)
    BY <1>3, <1>5, <1>6, FS_Injection DEF ExistsInjection
  <2> QED  BY <1>5, <1>6, <2>1
<1> QED  BY <1>1, <1>7

\* Every place of the screen, colour and value is one that there is, whatever bytes the
\* terminal was given and however they were cut into calls.
THEOREM TypeCorrect == Spec => []TypeOK
<1>1. Drawn(ctx) => TypeOK
  <2> SUFFICES ASSUME Drawn(ctx) PROVE TypeOK
    OBVIOUS
  <2>1. /\ ctx.grid \in [Cells -> Characters] /\ ctx.picture \in [Cells -> Characters]
        /\ {ctx.text_fg, ctx.text_bg} \subseteq Colours
    BY DEF Drawn, Painted, Good, Sane, Queued, Inky
  <2>2. /\ ctx.scroll_top_margin \in Nat /\ ctx.scroll_bottom_margin \in 1 .. ROWS
        /\ ctx.scroll_top_margin + Least(2, ROWS) <= ctx.scroll_bottom_margin
        /\ ctx.cursor_x \in Nat /\ ctx.cursor_y \in (0 .. ROWS - 1) \cup (0 .. COLS - 1)
    BY DEF Drawn, Good, Sane, Region, Placing, Rows
  <2>3. /\ Len(ctx.esc_values) + (IF ctx.rrr THEN 1 ELSE 0) <= FLANTERM_MAX_ESC_VALUES
        /\ ctx.unicode_remaining \in 0 .. 3 /\ ctx.g_select \in 0 .. 2
        /\ ~ (ctx.osc /\ ctx.control_sequence)
    BY DEF Drawn, Good, Sane, Parsed
  <2> QED  BY <2>1, <2>2, <2>3 DEF TypeOK
<1> QED  BY <1>1, AlwaysDrawn, PTL

\* The queue of a screen has room for whatever the sequences do to it.
THEOREM QueueBounded == Spec => []QueueTracksMap
<1>1. Drawn(ctx) => QueueTracksMap
  BY QueueFits DEF QueueTracksMap
<1> QED  BY <1>1, AlwaysDrawn, PTL

\* The terminal is a screen: after every write that is flushed, and every flush, the
\* picture is that of the text and the cursor.
THEOREM TerminalIsScreen == Spec => ImplementsScreen
<1>1. Init => Page!Init
  <2> SUFFICES ASSUME Init PROVE Page!Init
    OBVIOUS
  <2>1. Drawn(ctx) /\ ctx.picture = Page!Picture(Text(ctx), Under(ctx))
    BY InitDrawn
  <2> QED  BY <2>1, PageTyped DEF Page!Init
<1>2. Drawn(ctx) /\ [Next]_ctx => [Page!Next]_(Page!vars)
  BY StepNext
<1> QED  BY <1>1, <1>2, AlwaysDrawn, PTL DEF Spec, ImplementsScreen, Page!Spec
=============================================================================
