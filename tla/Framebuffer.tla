------------------------------ MODULE Framebuffer -----------------------------
(***************************************************************************)
(* The terminal's back end, kernel/src/flanterm/fb.c.  A character that is *)
(* written waits in a queue, at most one for each cell (map), until a      *)
(* flush paints it and moves it to the grid of what is painted.            *)
(*                                                                         *)
(* The functions are called many times within one call of flanterm_write,  *)
(* so they are operators from one context s (struct flanterm_fb_context)   *)
(* to the next; Terminal holds the context in a variable.  The picture is  *)
(* what each cell shows: a character in two colours.                       *)
(***************************************************************************)
EXTENDS Integers, Sequences, FiniteSets

CONSTANTS
  COLS,   \* columns of the screen
  ROWS    \* rows of the screen

ASSUME FramebufferAssumption == COLS \in Nat \ {0} /\ ROWS \in Nat \ {0}

SPACE == 32

Cells == 0 .. COLS * ROWS - 1
Cell(x, y) == y * COLS + x
OnScreen(x, y) == x \in 0 .. COLS - 1 /\ y \in 0 .. ROWS - 1
Least(a, b) == IF a <= b THEN a ELSE b

\* A loop: f for the turns 1 to n.
Loop(f(_, _), s, n) ==
  LET turn[k \in 0 .. n] == IF k = 0 THEN s ELSE LET before == turn[k - 1] IN f(before, k)
  IN  IF n <= 0 THEN s ELSE turn[n]

-----------------------------------------------------------------------------
(* Colours: one of the eight of the palette, plain or bright, a colour     *)
(* given by its parts, or a default.  The default background is the value  *)
(* 0xffffffff, which is painted as the background of the screen.  The code *)
(* packs the parts of a colour into one number; parts above 255, which     *)
(* overlap there, stay apart here.                                         *)

Ansi(n) == <<"plain", n>>
Bright(n) == <<"bright", n>>
Rgb(red, green, blue) == <<"rgb", <<red, green, blue>>>>
TRANSPARENT == <<"transparent", 0>>
DefaultFg == <<"default_fg", 0>>
DefaultBg == <<"default_bg", 0>>
Default(field) == IF field = "text_fg" THEN DefaultFg ELSE TRANSPARENT
DefaultBright(field) ==
  IF field = "text_fg" THEN <<"default_fg_bright", 0>> ELSE <<"default_bg_bright", 0>>

Opaque(colour) == IF colour = TRANSPARENT THEN DefaultBg ELSE colour
Plot(c) == [c |-> c.c, fg |-> Opaque(c.fg), bg |-> Opaque(c.bg)]
Inverted(c) == Plot([c |-> c.c, fg |-> c.bg, bg |-> c.fg])

Glyph(s, c) == [c |-> c, fg |-> s.text_fg, bg |-> s.text_bg]

flanterm_fb_swap_palette(s) == [s EXCEPT !.text_fg = s.text_bg, !.text_bg = s.text_fg]

-----------------------------------------------------------------------------
(* The queue.                                                              *)

\* What a cell holds: the character that waits for it, or the painted one.
Content(s, i) == IF s.map[i] # 0 THEN s.queue[s.map[i]].c ELSE s.grid[i]

\* A waiting character is replaced, one that is painted already is not queued.
Queue(s, i, c) ==
  [s EXCEPT !.queue = Append(@, [at |-> i, c |-> c]), !.map[i] = Len(s.queue) + 1]

push_to_queue_Again(s, i, c) ==                 \* mutant: an item for each change
  IF c = s.grid[i] THEN s ELSE Queue(s, i, c)
push_to_queue(s, i, c) ==
  IF s.map[i] # 0 THEN [s EXCEPT !.queue[s.map[i]].c = c]
  ELSE IF c = s.grid[i] THEN s ELSE Queue(s, i, c)

Put(s, c, x, y) == IF OnScreen(x, y) THEN push_to_queue(s, Cell(x, y), c) ELSE s

flanterm_fb_move_character(s, new_x, new_y, old_x, old_y) ==
  IF OnScreen(old_x, old_y) THEN Put(s, Content(s, Cell(old_x, old_y)), new_x, new_y) ELSE s

\* As many cells as a loop has turns, from the first on.
Blank(s, first, count) ==
  Loop(LAMBDA r, k : push_to_queue(r, first + k - 1, Glyph(s, SPACE)), s, count)

\* The rows between the margins move by one, copied in the direction of the move.
flanterm_fb_scroll(s) ==
  LET top    == s.scroll_top_margin
      bottom == s.scroll_bottom_margin
      step(r, k) == LET i == (top + 1) * COLS + k - 1
                    IN  push_to_queue(r, i - COLS, Content(r, i))
  IN  Blank(Loop(step, s, (bottom - top - 1) * COLS), (bottom - 1) * COLS, COLS)

\* With the top margin at or below the bottom one, only its row is cleared.
flanterm_fb_revscroll(s) ==
  LET top    == s.scroll_top_margin
      bottom == s.scroll_bottom_margin
      step(r, k) == LET i == (bottom - 1) * COLS - k
                    IN  push_to_queue(r, i + COLS, Content(r, i))
  IN  Blank(Loop(step, s, (bottom - top - 1) * COLS), top * COLS, COLS)

flanterm_fb_clear(s, move) ==
  LET s1 == Blank(s, 0, COLS * ROWS)
  IN  IF move THEN [s1 EXCEPT !.cursor_x = 0, !.cursor_y = 0] ELSE s1

-----------------------------------------------------------------------------
(* The cursor.  A column of COLS means that the last column was written    *)
(* and the next character goes to the next line.                           *)

flanterm_fb_set_cursor_pos(s, x, y) ==
  [s EXCEPT !.cursor_x = IF x < 0 THEN 0 ELSE Least(x, COLS - 1),
            !.cursor_y = IF y < 0 THEN 0 ELSE Least(y, ROWS - 1)]

\* flanterm_fb_get_cursor_pos
GetX(s) == Least(s.cursor_x, COLS - 1)
GetY(s) == Least(s.cursor_y, ROWS - 1)

flanterm_fb_save_state(s) ==
  [s EXCEPT !.saved = [@ EXCEPT !.text_fg = s.text_fg, !.text_bg = s.text_bg,
                                !.cursor_x = s.cursor_x, !.cursor_y = s.cursor_y]]

flanterm_fb_restore_state(s) ==
  [s EXCEPT !.text_fg = s.saved.text_fg, !.text_bg = s.saved.text_bg,
            !.cursor_x = s.saved.cursor_x, !.cursor_y = s.saved.cursor_y]

\* The row is limited by the number of columns, as in the code.
NextLine_NoScroll(s) ==                         \* mutant: the bottom line is overwritten
  [s EXCEPT !.cursor_x = 0,
            !.cursor_y = IF @ + 1 = s.scroll_bottom_margin THEN @ ELSE Least(@ + 1, COLS - 1)]
NextLine(s) ==
  LET y  == s.cursor_y + 1
      s1 == [s EXCEPT !.cursor_x = 0]
  IN  IF y = s.scroll_bottom_margin
      THEN flanterm_fb_scroll([s1 EXCEPT !.cursor_y = Least(@, COLS - 1)])
      ELSE [s1 EXCEPT !.cursor_y = Least(y, COLS - 1)]

flanterm_fb_raw_putchar(s, c) ==
  LET wraps == s.cursor_x >= COLS
                 /\ (s.cursor_y < s.scroll_bottom_margin - 1 \/ s.scroll_enabled)
      s1    == IF wraps THEN NextLine(s) ELSE s
  IN  [Put(s1, Glyph(s1, c), s1.cursor_x, s1.cursor_y) EXCEPT !.cursor_x = @ + 1]

-----------------------------------------------------------------------------
(* Painting.                                                               *)

\* The character under the cursor is painted with its colours exchanged; if it
\* was waiting it waits no longer.
draw_cursor(s) ==
  LET i == Cell(s.cursor_x, s.cursor_y)
  IN  IF ~ OnScreen(s.cursor_x, s.cursor_y) THEN s
      ELSE [s EXCEPT !.picture[i] = Inverted(Content(s, i)),
                     !.grid[i] = Content(s, i),
                     !.map[i] = 0]

\* Each cell that waits is painted with its first item in the queue.
PaintQueue(s) ==
  LET waiting == {i \in Cells : s.map[i] # 0}
      items(i) == {k \in DOMAIN s.queue : s.queue[k].at = i}
      item(i) == s.queue[CHOOSE k \in items(i) : \A m \in items(i) : k <= m].c
  IN  [s EXCEPT !.picture = [i \in Cells |-> IF i \in waiting THEN Plot(item(i)) ELSE @[i]],
                !.grid = [i \in Cells |-> IF i \in waiting THEN item(i) ELSE @[i]],
                !.map = [i \in Cells |-> 0],
                !.queue = <<>>]

\* The old place of the cursor gets its character back.
EraseCursor_IfMoved(s) ==                       \* mutant: not when the cursor is hidden
  IF <<s.old_cursor_x, s.old_cursor_y>> # <<s.cursor_x, s.cursor_y>>
       /\ OnScreen(s.old_cursor_x, s.old_cursor_y)
  THEN LET i == Cell(s.old_cursor_x, s.old_cursor_y) IN [s EXCEPT !.picture[i] = Plot(s.grid[i])]
  ELSE s
EraseCursor(s) ==
  LET i     == Cell(s.old_cursor_x, s.old_cursor_y)
      moved == <<s.old_cursor_x, s.old_cursor_y>> # <<s.cursor_x, s.cursor_y>>
  IN  IF (moved \/ ~ s.cursor_enabled) /\ OnScreen(s.old_cursor_x, s.old_cursor_y)
      THEN [s EXCEPT !.picture[i] = Plot(s.grid[i])]
      ELSE s

flanterm_fb_double_buffer_flush(s) ==
  LET s1 == IF s.cursor_enabled THEN draw_cursor(s) ELSE s
  IN  [EraseCursor(PaintQueue(s1)) EXCEPT !.old_cursor_x = s.cursor_x, !.old_cursor_y = s.cursor_y]

flanterm_fb_full_refresh(s) ==
  LET s1 == [s EXCEPT !.picture = [i \in Cells |-> Plot(s.grid[i])]]
  IN  IF s.cursor_enabled THEN draw_cursor(s1) ELSE s1
=============================================================================
