-------------------------------- MODULE Terminal ------------------------------
(***************************************************************************)
(* The terminal that the kernel and the write system call print on,        *)
(* kernel/src/flanterm/flanterm.c: it reads text byte by byte, obeys the   *)
(* escape sequences in it and draws the rest.  flanterm_write is called    *)
(* with interrupts disabled, by the system call and by the keyboard's      *)
(* handler, so that a call is one step; a sequence may be split over calls *)
(* anywhere.  The kernel sets no callback: what is only reported is left   *)
(* out.                                                                    *)
(***************************************************************************)
EXTENDS Framebuffer, Unicode

CONSTANTS
  tab_size,                 \* 8
  FLANTERM_MAX_ESC_VALUES,  \* 16
  Buffers                   \* what is written: sequences of bytes 1 .. 255

ASSUME TerminalAssumption ==
  {tab_size, FLANTERM_MAX_ESC_VALUES} \subseteq Nat \ {0} /\ Buffers \subseteq Seq(1 .. 255)

VARIABLE ctx                \* struct flanterm_fb_context

BEL == 7
CAN == 24
SUB == 26
ESC == 27
NONE == -1

\* The bytes of the characters of ASCII in their order, from the space on; the
\* backquote by its name, "grave".
Printable == <<
  " ", "!", "\"", "#", "$", "%", "&", "'", "(", ")", "*", "+", ",", "-", ".", "/",
  "0", "1", "2", "3", "4", "5", "6", "7", "8", "9", ":", ";", "<", "=", ">", "?",
  "@", "A", "B", "C", "D", "E", "F", "G", "H", "I", "J", "K", "L", "M", "N", "O",
  "P", "Q", "R", "S", "T", "U", "V", "W", "X", "Y", "Z", "[", "\\", "]", "^", "_",
  "grave", "a", "b", "c", "d", "e", "f", "g", "h", "i", "j", "k", "l", "m", "n", "o",
  "p", "q", "r", "s", "t", "u", "v", "w", "x", "y", "z", "{", "|", "}", "~" >>
CharOf(byte) == IF byte \in 32 .. 126 THEN Printable[byte - 31] ELSE "control"
Ord(char) == 31 + CHOOSE k \in DOMAIN Printable : Printable[k] = char

Spaces(s, n) == Loop(LAMBDA r, k : flanterm_fb_raw_putchar(r, SPACE), s, n)

-----------------------------------------------------------------------------
\* flanterm_context_reinit: not the colours of the text, nor what was saved.
Initial == [
  autoflush |-> TRUE, cursor_enabled |-> TRUE, scroll_enabled |-> TRUE,
  control_sequence |-> FALSE, escape |-> FALSE, osc |-> FALSE, osc_escape |-> FALSE,
  rrr |-> FALSE, discard_next |-> FALSE, bold |-> FALSE, bg_bold |-> FALSE,
  reverse_video |-> FALSE, dec_private |-> FALSE, insert_mode |-> FALSE,
  csi_unhandled |-> FALSE, unicode_remaining |-> 0, g_select |-> 0,
  charsets |-> [g \in {0, 1} |-> IF g = 0 THEN "default" ELSE "special"],
  current_charset |-> 0, escape_offset |-> 0, esc_values |-> <<>>,
  saved_cursor_x |-> 0, saved_cursor_y |-> 0,
  current_primary |-> NONE, current_bg |-> NONE,
  scroll_top_margin |-> 0, scroll_bottom_margin |-> ROWS, onlcr |-> TRUE ]

\* The fields of f, and those that only g has.
Over(f, g) == [x \in DOMAIN f \cup DOMAIN g |-> IF x \in DOMAIN f THEN f[x] ELSE g[x]]

flanterm_context_reinit(s) == Over(Initial, s)

\* What flanterm_fb_init leaves: a blank screen in a structure that was zeroed.
\* esc_values has the values of the sequence so far, "number" the one being read
\* and "filler" what is in the places behind them; code_point is 0 between
\* characters.
InitialContext ==
  LET blank == [c |-> SPACE, fg |-> DefaultFg, bg |-> TRANSPARENT]
  IN  flanterm_fb_full_refresh(Over(Initial, [
        text_fg |-> DefaultFg, text_bg |-> TRANSPARENT,
        cursor_x |-> 0, cursor_y |-> 0, old_cursor_x |-> 0, old_cursor_y |-> 0,
        grid |-> [i \in Cells |-> blank], picture |-> [i \in Cells |-> Plot(blank)],
        queue |-> <<>>, map |-> [i \in Cells |-> 0],
        number |-> 0, filler |-> 0, code_point |-> 0,
        saved |-> [text_fg |-> Ansi(0), text_bg |-> Ansi(0), cursor_x |-> 0, cursor_y |-> 0,
                   bold |-> FALSE, bg_bold |-> FALSE, reverse_video |-> FALSE,
                   current_charset |-> 0, current_primary |-> 0, current_bg |-> 0]]))

-----------------------------------------------------------------------------
(* Colours.                                                                *)

\* In reverse video the text has the colour of the background and vice versa.
Ink_Plain(s) == "text_fg"                       \* mutant: forgets reverse video
Ink(s) == IF s.reverse_video THEN "text_bg" ELSE "text_fg"
Paper(s) == IF s.reverse_video THEN "text_fg" ELSE "text_bg"

Shade(bright, n) == IF bright THEN Bright(n) ELSE Ansi(n)

\* Bold, or no longer, of the colour n in use or of the default.
Weighted(field, bright, n) ==
  IF n # NONE THEN Shade(bright, n)
  ELSE IF bright THEN DefaultBright(field) ELSE Default(field)

Unreversed(s) ==
  IF s.reverse_video THEN [flanterm_fb_swap_palette(s) EXCEPT !.reverse_video = FALSE] ELSE s
Reversed(s) ==
  IF s.reverse_video THEN s ELSE [flanterm_fb_swap_palette(s) EXCEPT !.reverse_video = TRUE]

Inked(s, n, bright) == [s EXCEPT !.current_primary = n, ![Ink(s)] = Shade(bright, n)]
Papered(s, n, bright) == [s EXCEPT !.current_bg = n, ![Paper(s)] = Shade(bright, n)]

Reset(s) ==
  [Unreversed(s) EXCEPT !.bold = FALSE, !.bg_bold = FALSE, !.current_primary = NONE,
                        !.current_bg = NONE, !.text_fg = DefaultFg, !.text_bg = TRANSPARENT]
Bold(s, bright) ==
  [s EXCEPT !.bold = bright, ![Ink(s)] = Weighted(Ink(s), bright, s.current_primary)]
BgBold(s, bright) ==
  [s EXCEPT !.bg_bold = bright, ![Paper(s)] = Weighted(Paper(s), bright, s.current_bg)]
Uninked(s) ==
  [s EXCEPT !.current_primary = NONE, ![Ink(s)] = Weighted("text_fg", s.bold, NONE)]
Unpapered(s) ==
  [s EXCEPT !.current_bg = NONE, ![Paper(s)] = Weighted("text_bg", s.bg_bold, NONE)]

Attribute(s, v) ==
  CASE v = 0 -> Reset(s)
    [] v = 1 -> Bold(s, TRUE)
    [] v = 22 -> Bold(s, FALSE)
    [] v = 5 -> BgBold(s, TRUE)
    [] v = 25 -> BgBold(s, FALSE)
    [] v \in 30 .. 37   -> Inked(s, v - 30, s.bold)
    [] v \in 40 .. 47   -> Papered(s, v - 40, s.bg_bold)
    [] v \in 90 .. 97   -> Inked(s, v - 90, TRUE)
    [] v \in 100 .. 107 -> Papered(s, v - 100, TRUE)
    [] v = 39 -> Uninked(s)
    [] v = 49 -> Unpapered(s)
    [] v = 7  -> Reversed(s)
    [] v = 27 -> Unreversed(s)
    [] OTHER -> s

\* col256: a cube of six levels, then greys.
col256(n) ==
  LET level(k) == IF k = 0 THEN 0 ELSE 55 + 40 * k
      grey == 8 + 10 * (n - 216)
  IN  IF n < 216 THEN Rgb(level(n \div 36), level((n \div 6) % 6), level(n % 6))
      ELSE Rgb(grey, grey, grey)

Palette256(colour, n) ==
  IF n < 8 THEN Ansi(n) ELSE IF n < 16 THEN Bright(n - 8)
  ELSE IF n < 256 THEN col256(n - 16) ELSE colour

\* How many values the attribute at i takes, with those behind it; 0 when it is
\* cut off, which ends the sequence.
Width(values, i) ==
  IF values[i] \notin {38, 48} THEN 1
  ELSE IF i = Len(values) THEN 0
  ELSE LET width == CASE values[i + 1] = 2 -> 5 [] values[i + 1] = 5 -> 3 [] OTHER -> 2
       IN  IF i + width - 1 <= Len(values) THEN width ELSE 0

Coloured(s, values, i) ==
  LET field == IF values[i] = 38 THEN "text_fg" ELSE "text_bg"
  IN  CASE Width(values, i) = 5 ->
             [s EXCEPT ![field] = Rgb(values[i + 2], values[i + 3], values[i + 4])]
        [] Width(values, i) = 3 -> [s EXCEPT ![field] = Palette256(@, values[i + 2])]
        [] OTHER -> s

sgr(s, values) ==
  LET step(r, k) ==
        IF r.i > Len(values) \/ Width(values, r.i) = 0 THEN r
        ELSE [i |-> r.i + Width(values, r.i),
              s |-> IF values[r.i] \in {38, 48} THEN Coloured(r.s, values, r.i)
                    ELSE Attribute(r.s, values[r.i])]
  IN  IF values = <<>> THEN Attribute(s, 0)
      ELSE Loop(step, [i |-> 1, s |-> s], Len(values)).s

-----------------------------------------------------------------------------
(* Movements and editing.                                                  *)

Moved(s, x, y) == flanterm_fb_set_cursor_pos(s, x, y)
Stay(s, from) == Moved(s, GetX(from), GetY(from))

\* A move that touches one of the margins stops there; y is the old row.
CursorUp_Free(s, x, n) == Moved(s, x, GetY(s) - n)      \* mutant: no margins
CursorUp(s, x, n) ==
  LET y == GetY(s)
      dest == y - Least(n, y)
      touches == {s.scroll_top_margin, s.scroll_bottom_margin} \cap dest .. y # {}
  IN  Moved(s, x, IF touches /\ dest < s.scroll_top_margin THEN s.scroll_top_margin ELSE dest)

CursorDown(s, x, n) ==
  LET y == GetY(s)
      dest == Least(y + n, ROWS - 1)
      touches == {s.scroll_top_margin, s.scroll_bottom_margin} \cap y .. dest # {}
  IN  Moved(s, x, IF touches /\ dest >= s.scroll_bottom_margin
                  THEN s.scroll_bottom_margin - 1 ELSE dest)

\* A line or column from 1 on; the line before the first is the last one, as the
\* subtraction wraps around.
Placed(n, count) == IF n = 0 THEN count - 1 ELSE Least(n, count) - 1

\* Line feed, at the bottom of the region with a scroll.
Index(s, x) ==
  LET y == GetY(s)
  IN  IF y = s.scroll_bottom_margin - 1 THEN Moved(flanterm_fb_scroll(s), x, y)
      ELSE Moved(s, x, y + 1)
ReverseIndex(s) ==
  LET y == GetY(s)
  IN  IF y = s.scroll_top_margin THEN Moved(flanterm_fb_revscroll(s), 0, y)
      ELSE Moved(s, 0, y - 1)

EraseDisplay(s, mode) ==
  LET here == Cell(GetX(s), GetY(s))
  IN  CASE mode = 0 -> Stay(Spaces(s, COLS * ROWS - here), s)
        [] mode = 1 -> Stay(Spaces(Moved(s, 0, 0), here + 1), s)
        [] mode \in {2, 3} -> flanterm_fb_clear(s, FALSE)
        [] OTHER -> s

\* Up to the cursor, mode 1, leaves the character under it.
EraseLine_Rest(s, mode) == Stay(Spaces(s, COLS), s)     \* mutant: counts from column 0
EraseLine(s, mode) ==
  CASE mode = 0 -> Stay(Spaces(s, COLS - GetX(s)), s)
    [] mode = 1 -> Spaces(Moved(s, 0, GetY(s)), GetX(s))
    [] mode = 2 -> Stay(Spaces(Moved(s, 0, GetY(s)), COLS), s)
    [] OTHER -> s

EraseCharacters(s, n) == Spaces(s, Least(n, COLS))

InsertCharacters(s, n) ==
  LET y == GetY(s)
      step(r, k) == LET i == COLS - k
                    IN  flanterm_fb_raw_putchar(
                          Moved(flanterm_fb_move_character(r, i + n, y, i, y), i, y), SPACE)
  IN  Stay(Loop(step, s, COLS - GetX(s)), s)

DeleteCharacters(s, n) ==
  LET y == GetY(s)
      step(r, k) == LET i == GetX(s) + n + k - 1 IN flanterm_fb_move_character(r, i - n, y, i, y)
  IN  Stay(EraseCharacters(Moved(Loop(step, s, COLS - GetX(s) - n), COLS - n, y), n), s)

\* The whole region scrolls, wherever the cursor is.
DeleteLines(s, n) == Loop(LAMBDA r, k : flanterm_fb_scroll(r), s, Least(n, ROWS))
InsertLines(s, n) ==
  LET below == [s EXCEPT !.scroll_top_margin = GetY(s)]
      r == Loop(LAMBDA t, k : flanterm_fb_revscroll(t), below, Least(n, ROWS))
  IN  [r EXCEPT !.scroll_top_margin = s.scroll_top_margin]

SetMargins(s, top, bottom) ==
  LET good == bottom <= ROWS /\ top < bottom
  IN  Moved([s EXCEPT !.scroll_top_margin = IF good THEN top - 1 ELSE 0,
                      !.scroll_bottom_margin = IF good THEN bottom ELSE ROWS], 0, 0)

InsertMode(s, values, set) ==
  IF values # <<>> /\ values[1] = 4 THEN [s EXCEPT !.insert_mode = set] ELSE s

-----------------------------------------------------------------------------
(* Control sequences: ESC [ values final.                                  *)

Finals == {"F", "A", "E", "e", "B", "a", "C", "D", "c", "d", "G", "grave", "H", "f", "M", "L", "n",
           "q", "J", "@", "P", "X", "m", "s", "u", "K", "r", "l", "h", "]"}

\* The switch of control_sequence_parse.  What is only reported has no effect.
Obeyed(s, final) ==
  LET values == s.esc_values
      v(k) == IF k <= Len(values) THEN values[k] ELSE s.filler
      x == GetX(s)
      y == GetY(s)
      \* values of r that are missing or 0
      one(k) == IF v(k) = 0 THEN 1 ELSE v(k)
  IN  CASE final = "A" -> CursorUp(s, x, v(1))
        [] final = "F" -> CursorUp(s, 0, v(1))
        [] final \in {"B", "e"} -> CursorDown(s, x, v(1))
        [] final = "E" -> CursorDown(s, 0, v(1))
        [] final \in {"C", "a"} -> Moved(s, x + v(1), y)
        [] final = "D" -> Moved(s, x - v(1), y)
        [] final = "d" -> Moved(s, x, Placed(v(1), ROWS))
        [] final \in {"G", "grave"} -> Moved(s, Placed(v(1), COLS), y)
        [] final \in {"H", "f"} -> Moved(s, one(2) - 1, one(1) - 1)
        [] final = "M" -> DeleteLines(s, v(1))
        [] final = "L" -> InsertLines(s, v(1))
        [] final = "J" -> EraseDisplay(s, v(1))
        [] final = "K" -> EraseLine(s, v(1))
        [] final = "@" -> InsertCharacters(s, v(1))
        [] final = "P" -> DeleteCharacters(s, v(1))
        [] final = "X" -> Stay(EraseCharacters(s, v(1)), s)
        [] final = "m" -> sgr(s, values)
        [] final = "s" -> [s EXCEPT !.saved_cursor_x = x, !.saved_cursor_y = y]
        [] final = "u" -> Moved(s, s.saved_cursor_x, s.saved_cursor_y)
        [] final = "r" -> SetMargins(s, IF values = <<>> THEN 1 ELSE one(1),
                                     IF Len(values) < 2 THEN ROWS ELSE one(2))
        [] final \in {"l", "h"} -> InsertMode(s, values, final = "h")
        [] OTHER -> s

Ended(s) == [s EXCEPT !.control_sequence = FALSE, !.escape = FALSE]

\* The value being read joins the others.
Collected(s) ==
  [s EXCEPT !.esc_values = IF s.rrr THEN Append(@, s.number) ELSE @, !.rrr = FALSE, !.number = s.filler]

Full_TooLate(s) == Len(s.esc_values) > FLANTERM_MAX_ESC_VALUES   \* mutant: one too many
Full(s) == Len(s.esc_values) = FLANTERM_MAX_ESC_VALUES

Digit(s, digit) ==
  IF Full(s) THEN s ELSE [s EXCEPT !.rrr = TRUE, !.number = @ * 10 + digit]

Semicolon(s) ==
  IF s.rrr THEN Collected(s)
  ELSE IF Full(s) THEN s ELSE [s EXCEPT !.esc_values = Append(@, 0)]

\* ESC [ ? values h or l: of the modes only 25, the cursor.
dec_private_parse(s, char) ==
  LET shows == s.esc_values # <<>> /\ s.esc_values[1] = 25 /\ char \in {"h", "l"}
  IN  [s EXCEPT !.dec_private = FALSE,
                !.cursor_enabled = IF shows THEN char = "h" ELSE @]

\* While a sequence is obeyed the screen does not scroll.  A byte that is no final
\* byte the terminal knows leaves it so, with the sequence unfinished; then all is
\* skipped up to the next byte that could end one.
Rescrolling_Not(s, r) == s                              \* mutant: the old value is lost
Rescrolling(s, r) == [s EXCEPT !.scroll_enabled = r]

Final(s, c) ==
  LET still == [s EXCEPT !.scroll_enabled = FALSE]
  IN  CASE s.csi_unhandled /\ c \in 64 .. 126 -> Ended([still EXCEPT !.csi_unhandled = FALSE])
        [] s.csi_unhandled /\ c \notin 64 .. 126 -> still
        [] ~ s.csi_unhandled /\ c = ESC -> still
        [] ~ s.csi_unhandled /\ CharOf(c) \in Finals ->
             Ended(Rescrolling(Obeyed(still, CharOf(c)), s.scroll_enabled))
        [] OTHER -> [still EXCEPT !.csi_unhandled = TRUE]

control_sequence_parse(s, c) ==
  LET char == CharOf(c)
      default == IF char \in {"J", "K", "q"} THEN 0 ELSE 1
      complete == [Collected(s) EXCEPT !.filler = default, !.number = default]
  IN  CASE s.escape_offset = 2 /\ char = "[" -> Ended([s EXCEPT !.discard_next = TRUE])
        [] s.escape_offset = 2 /\ char = "?" -> [s EXCEPT !.dec_private = TRUE]
        [] c \in 48 .. 57 -> Digit(s, c - 48)
        [] char = ";" -> Semicolon(s)
        [] OTHER -> IF s.dec_private THEN Ended(dec_private_parse(complete, char))
                    ELSE Final(complete, c)

-----------------------------------------------------------------------------
(* The other escapes.                                                      *)

Sequence(s) ==
  [s EXCEPT !.control_sequence = TRUE, !.esc_values = <<>>, !.number = 0, !.filler = 0,
            !.rrr = FALSE, !.csi_unhandled = FALSE]

save_state(s) ==
  [flanterm_fb_save_state(s) EXCEPT !.saved =
     [@ EXCEPT !.bold = s.bold, !.bg_bold = s.bg_bold, !.reverse_video = s.reverse_video,
               !.current_charset = s.current_charset,
               !.current_primary = s.current_primary, !.current_bg = s.current_bg]]

restore_state(s) ==
  [flanterm_fb_restore_state(s) EXCEPT
     !.bold = s.saved.bold, !.bg_bold = s.saved.bg_bold, !.reverse_video = s.saved.reverse_video,
     !.current_charset = s.saved.current_charset,
     !.current_primary = s.saved.current_primary, !.current_bg = s.saved.current_bg]

Escaped(s, char) ==
  CASE char = "7" -> save_state(s)
    [] char = "8" -> restore_state(s)
    [] char = "c" -> flanterm_fb_clear(flanterm_context_reinit(s), TRUE)
    [] char = "D" -> Index(s, GetX(s))
    [] char = "E" -> Index(s, 0)
    [] char = "M" -> ReverseIndex(s)
    [] char = "(" -> [s EXCEPT !.g_select = 1]
    [] char = ")" -> [s EXCEPT !.g_select = 2]
    [] OTHER -> s

\* A command to the operating system, ESC ] text, ends with BEL or ESC \.  Another
\* escape ends it as well, and its byte is taken from there: not as one of the
\* first bytes of a sequence.
osc_parse(s, c) ==
  CASE s.osc_escape \/ c = BEL ->
         [s EXCEPT !.osc = FALSE, !.osc_escape = FALSE, !.escape = FALSE]
    [] ~ s.osc_escape /\ c = ESC -> [s EXCEPT !.osc_escape = TRUE]
    [] OTHER -> s

escape_parse(s0, c) ==
  LET s == [s0 EXCEPT !.escape_offset = Least(@ + 1, 3)]
      broken == s.osc /\ s.osc_escape /\ CharOf(c) # "\\"
      s1 == IF broken THEN [s EXCEPT !.osc = FALSE, !.osc_escape = FALSE] ELSE s
  IN  IF s.osc /\ ~ broken THEN osc_parse(s, c)
      ELSE IF s1.control_sequence THEN control_sequence_parse(s1, c)
      ELSE CASE CharOf(c) = "]" -> [s1 EXCEPT !.osc = TRUE, !.osc_escape = FALSE]
             [] CharOf(c) = "[" -> Sequence(s1)
             [] OTHER -> [Escaped(s1, CharOf(c)) EXCEPT !.escape = FALSE]

-----------------------------------------------------------------------------
(* Characters.                                                             *)

\* dec_special_print: the line drawing character set, and its glyphs.
SpecialCharacters == <<
  "grave", "0", "-", ",", ".", "a", "f", "g", "h", "j", "k", "l", "m", "n",
  "q", "s", "t", "u", "v", "w", "x", "y", "z", "~", "_", "+", "{", "}" >>
SpecialGlyphs == <<
  4, 219, 24, 27, 25, 177, 248, 241, 176, 217, 191, 218, 192, 197,
  196, 95, 195, 180, 193, 194, 179, 243, 242, 250, 255, 26, 227, 156 >>

Replacement == 254

\* What a byte outside of sequences prints.
Printed(s, c) ==
  LET special == {k \in DOMAIN SpecialGlyphs : SpecialCharacters[k] = CharOf(c)}
  IN  IF s.charsets[s.current_charset] = "special" /\ special # {}
      THEN SpecialGlyphs[CHOOSE k \in special : TRUE]
      ELSE IF c \in 32 .. 126 THEN c ELSE Replacement

\* With insert mode the rest of the line makes room.
Opened(s) ==
  LET y == GetY(s)
      step(r, k) == flanterm_fb_move_character(r, COLS - k + 1, y, COLS - k, y)
  IN  IF s.insert_mode THEN Loop(step, s, COLS - GetX(s)) ELSE s

Tab(s) ==
  LET stop == GetX(s) \div tab_size + 1
  IN  Moved(s, IF stop >= COLS THEN COLS - 1 ELSE stop * tab_size, GetY(s))

Control(s, c) ==
  CASE c = 9 -> Tab(s)
    [] c \in 10 .. 12 -> Index(s, IF s.onlcr THEN 0 ELSE GetX(s))
    [] c = 8 -> Moved(s, GetX(s) - 1, GetY(s))
    [] c = 13 -> Moved(s, 0, GetY(s))
    [] c = 14 -> [s EXCEPT !.current_charset = 1]
    [] c = 15 -> [s EXCEPT !.current_charset = 0]
    [] c = ESC -> [s EXCEPT !.escape_offset = 0, !.escape = TRUE]
    [] OTHER -> s
Controls == 7 .. 15 \cup {ESC, 127}

Charset(s, char) ==
  [s EXCEPT !.g_select = 0,
            !.charsets[s.g_select - 1] =
              IF char = "B" THEN "default" ELSE IF char = "0" THEN "special" ELSE @]

\* A character without a glyph: a replacement, as wide as the character.
Substituted(s, width) ==
  Loop(LAMBDA r, k : flanterm_fb_raw_putchar(r, IF k = 1 THEN Replacement ELSE SPACE), s, width)

\* One byte of a character that is not ASCII; the last one prints it.
Continued(s, c) ==
  LET left == s.unicode_remaining - 1
      code_point == s.code_point + ContinuationBits(c, left)
      glyph == unicode_to_cp437(code_point)
      s1 == [s EXCEPT !.unicode_remaining = left, !.code_point = IF left = 0 THEN 0 ELSE code_point]
  IN  IF left # 0 THEN s1
      ELSE IF glyph # -1 THEN flanterm_fb_raw_putchar(s1, glyph)
      ELSE Substituted(s1, mk_wcwidth(code_point))

\* A byte that does not continue a character is read afresh.
Begun(s0, c) ==
  LET s == [s0 EXCEPT !.unicode_remaining = 0, !.code_point = 0]
  IN  CASE c \in Lead -> [s EXCEPT !.unicode_remaining = Following(c), !.code_point = LeadBits(c)]
        [] c \notin Lead /\ s.escape -> escape_parse(s, c)
        [] c \notin Lead /\ ~ s.escape /\ s.g_select # 0 -> Charset(s, CharOf(c))
        [] c \notin Lead /\ ~ s.escape /\ s.g_select = 0 ->
             IF c \in Controls THEN Control(s, c)
             ELSE flanterm_fb_raw_putchar(Opened(s), Printed(s, c))

\* CAN and SUB, and the byte after ESC [ [.
Cancelled(s) ==
  [s EXCEPT !.discard_next = FALSE, !.escape = FALSE, !.control_sequence = FALSE,
            !.unicode_remaining = 0, !.code_point = 0, !.osc = FALSE, !.osc_escape = FALSE,
            !.g_select = 0]

flanterm_putchar(s, c) ==
  IF s.discard_next \/ c \in {CAN, SUB} THEN Cancelled(s)
  ELSE IF s.unicode_remaining # 0 /\ c \in Continuation THEN Continued(s, c)
  ELSE Begun(s, c)

-----------------------------------------------------------------------------
Flushed(s) == flanterm_fb_double_buffer_flush(s)

AutoFlushed(s) == IF s.autoflush THEN Flushed(s) ELSE s
Written(s, buf) == AutoFlushed(Loop(LAMBDA r, k : flanterm_putchar(r, buf[k]), s, Len(buf)))

flanterm_write(buf) == ctx' = Written(ctx, buf)

flanterm_flush == ctx' = Flushed(ctx)
flanterm_full_refresh == ctx' = flanterm_fb_full_refresh(ctx)
flanterm_set_autoflush(state) == ctx' = [ctx EXCEPT !.autoflush = state]
flanterm_set_oob_output(onlcr) == ctx' = [ctx EXCEPT !.onlcr = onlcr]

Init == ctx = InitialContext

\* A screen is refreshed as it is right after a flush: nothing waits and the cursor is
\* where it was painted.  The kernel itself refreshes it at the start only.
Settled ==
  /\ ctx.queue = <<>>
  /\ <<ctx.old_cursor_x, ctx.old_cursor_y>> = <<ctx.cursor_x, ctx.cursor_y>>

Next ==
  \/ \E buf \in Buffers : flanterm_write(buf)
  \/ flanterm_flush
  \/ Settled /\ flanterm_full_refresh
  \/ \E state \in BOOLEAN : flanterm_set_autoflush(state) \/ flanterm_set_oob_output(state)

Spec == Init /\ [][Next]_ctx

-----------------------------------------------------------------------------
(* What holds at all times.                                                *)

Colours ==
  ({"plain", "bright"} \X (0 .. 7)) \cup ({"rgb"} \X (Nat \X Nat \X Nat))
    \cup ({"transparent", "default_fg", "default_bg", "default_fg_bright", "default_bg_bright"} \X {0})
Characters == [c : 0 .. 255, fg : Colours, bg : Colours]

\* The margins hold a region of the screen, of two lines at least when it has two; the
\* values of a sequence fit esc_values; the row is one of the screen or below it, no
\* further than the screen is wide (text that runs on below the region gets there);
\* and no more bytes of a character are awaited than one has.
TypeOK ==
  /\ ctx.grid \in [Cells -> Characters] /\ ctx.picture \in [Cells -> Characters]
  /\ ctx.scroll_top_margin \in Nat /\ ctx.scroll_bottom_margin \in 1 .. ROWS
  /\ ctx.scroll_top_margin + Least(2, ROWS) <= ctx.scroll_bottom_margin
  /\ ctx.cursor_x \in Nat /\ ctx.cursor_y \in (0 .. ROWS - 1) \cup (0 .. COLS - 1)
  /\ {ctx.text_fg, ctx.text_bg} \subseteq Colours
  /\ Len(ctx.esc_values) + (IF ctx.rrr THEN 1 ELSE 0) <= FLANTERM_MAX_ESC_VALUES
  /\ ctx.unicode_remaining \in 0 .. 3 /\ ctx.g_select \in 0 .. 2
  /\ ~ (ctx.osc /\ ctx.control_sequence)

\* The queue has room for one item per cell: "ctx->queue_size = _ctx->rows *
\* _ctx->cols * ...".  Every item is the one its cell leads to, so that there are no
\* more, whatever the sequences do to a cell before it is painted.
QueueTracksMap ==
  /\ Len(ctx.queue) <= COLS * ROWS
  /\ \A k \in DOMAIN ctx.queue : ctx.map[ctx.queue[k].at] = k
  /\ \A i \in Cells : ctx.map[i] # 0 => ctx.map[i] \in DOMAIN ctx.queue

\* What the terminal shows: the text is what the cells hold, painted or waiting.
Text(s) == [i \in Cells |-> Content(s, i)]
Under(s) == IF s.cursor_enabled /\ OnScreen(s.cursor_x, s.cursor_y)
            THEN {Cell(s.cursor_x, s.cursor_y)} ELSE {}
Page == INSTANCE Screen WITH
  Drawn <- Plot, Marked <- Inverted, auto <- ctx.autoflush, shown <- ctx.picture,
  text <- Text(ctx), cursor <- Under(ctx)

\* The queue, the grid and the cursor's old place together paint the right picture:
\* after each flush it shows the text and one cursor, although only what changed is
\* drawn again.
ImplementsScreen == Page!Spec
=============================================================================
