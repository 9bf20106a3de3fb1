---------------------------- MODULE TerminalCommands --------------------------
(***************************************************************************)
(* Terminal, written to command by command: a character, a control         *)
(* sequence, another escape, or a single byte of any of them.  The latest  *)
(* command is kept, so that what it must do can be compared with what the  *)
(* terminal did with its bytes.                                            *)
(***************************************************************************)
EXTENDS Terminal, SequencesExt

VARIABLE asked              \* history: the latest command

Command(kind, args, final) == [kind |-> kind, args |-> args, final |-> final]
Csi(args, final) == Command("csi", args, final)             \* ESC [ args final
Private(args, final) == Command("private", args, final)     \* ESC [ ? args final
Escape(final) == Command("escape", <<>>, final)             \* ESC final
Select(set, final) == Command("select", <<>>, <<set, final>>)   \* ESC ( or ) final
Osc(bytes) == Command("osc", bytes, "")                     \* ESC ] bytes BEL
Char(code_point) == Command("char", <<code_point>>, "")
Raw(bytes) == Command("byte", bytes, "")
Byte(byte) == Raw(<<byte>>)
Nothing == Command("nothing", <<>>, "")

-----------------------------------------------------------------------------
(* The bytes of a command.                                                 *)

Digits(n) ==
  (IF n >= 100 THEN <<48 + n \div 100>> ELSE <<>>)
    \o (IF n >= 10 THEN <<48 + ((n \div 10) % 10)>> ELSE <<>>) \o <<48 + (n % 10)>>

Numbers(args) ==
  FlattenSeq([k \in DOMAIN args |->
                (IF k = 1 THEN <<>> ELSE <<Ord(";")>>) \o Digits(args[k])])

\* UTF-8.
Tail6(n) == 128 + (n % 64)
Encode(n) ==
  IF n < 128 THEN <<n>>
  ELSE IF n < 2048 THEN <<192 + n \div 64, Tail6(n)>>
  ELSE IF n < 65536 THEN <<224 + n \div 4096, Tail6(n \div 64), Tail6(n)>>
  ELSE <<240 + n \div 262144, Tail6(n \div 4096), Tail6(n \div 64), Tail6(n)>>

Bytes(command) ==
  CASE command.kind = "csi" -> <<ESC, Ord("[")>> \o Numbers(command.args) \o <<Ord(command.final)>>
    [] command.kind = "private" ->
         <<ESC, Ord("["), Ord("?")>> \o Numbers(command.args) \o <<Ord(command.final)>>
    [] command.kind = "escape" -> <<ESC, Ord(command.final)>>
    [] command.kind = "select" -> <<ESC, Ord(command.final[1]), Ord(command.final[2])>>
    [] command.kind = "osc" -> <<ESC, Ord("]")>> \o command.args \o <<BEL>>
    [] command.kind = "char" -> Encode(command.args[1])
    [] command.kind = "byte" -> command.args

Ask(command) == flanterm_write(Bytes(command)) /\ asked' = command
Call(call) == call /\ asked' = Nothing

-----------------------------------------------------------------------------
(* Between sequences.                                                      *)

Ground(s) ==
  /\ {s.escape, s.control_sequence, s.osc, s.osc_escape, s.rrr, s.dec_private,
      s.csi_unhandled, s.discard_next} = {FALSE}
  /\ s.unicode_remaining = 0 /\ s.g_select = 0

Margins(s) == <<s.scroll_top_margin, s.scroll_bottom_margin>>
Cursor(s) == <<s.cursor_x, s.cursor_y>>

Is(kind, finals) == asked'.kind = kind /\ asked'.final \in finals

\* A whole sequence leaves nothing of itself behind: the terminal is again between
\* sequences, scrolls as before, and has the margins it had unless it was told
\* otherwise; a sequence for something else than the screen changes neither text nor
\* cursor.
LeavesNoTrace ==
  /\ Ground(ctx')
  /\ Is("escape", {"c"}) \/ ctx'.scroll_enabled = ctx.scroll_enabled
  /\ Is("escape", {"c"}) \/ Is("csi", {"r"}) \/ Margins(ctx') = Margins(ctx)
  /\ asked'.kind \in {"osc", "private", "select"} =>
       Text(ctx') = Text(ctx) /\ Cursor(ctx') = Cursor(ctx)
Whole == Ground(ctx) /\ asked'.kind \notin {"byte", "nothing"}

\* So it should be of every sequence, as "CSI sequences are terminated by a byte in
\* [0x40,0x7E]".
SequencesLeaveNoTrace == [][Whole => LeavesNoTrace]_ctx

\* It is so of every sequence but the control sequences with a final byte that the
\* parser does not know.
Known == asked'.kind = "csi" => asked'.final \in Finals
KnownSequencesLeaveNoTrace == [][Whole /\ Known => LeavesNoTrace]_ctx

-----------------------------------------------------------------------------
(* Characters.                                                             *)

\* What a character looks like: a glyph of the font, or replacements as wide as it.
Glyphs(s, code_point) ==
  IF code_point < 128 THEN <<Printed(s, code_point)>>
  ELSE IF unicode_to_cp437(code_point) # -1 THEN <<unicode_to_cp437(code_point)>>
  ELSE IF \E k \in DOMAIN combining : code_point \in combining[k][1] .. combining[k][2] THEN <<>>
  ELSE IF Wide(code_point) THEN <<Replacement, SPACE>> ELSE <<Replacement>>

\* Rows from .. bottom - 1 of a text move up by n, or down by -n.
Rolled(text, from, bottom, n, blank) ==
  [i \in Cells |->
     LET row == i \div COLS
     IN  IF row \notin from .. bottom - 1 THEN text[i]
         ELSE IF row + n \in from .. bottom - 1 THEN text[i + n * COLS] ELSE blank]

\* A glyph is put at the cursor; behind the last column, at the start of the next
\* line, for which the region scrolls when it ends there.
Typed(s, page, glyph) ==
  LET top == s.scroll_top_margin
      bottom == s.scroll_bottom_margin
      wraps == page.x = COLS
      rolls == wraps /\ page.y = bottom - 1
      x == IF wraps THEN 0 ELSE page.x
      y == IF wraps /\ ~ rolls THEN page.y + 1 ELSE page.y
      text == IF rolls THEN Rolled(page.text, top, bottom, 1, Glyph(s, SPACE)) ELSE page.text
  IN  [x |-> x + 1, y |-> y,
       text |-> [i \in Cells |-> IF OnScreen(x, y) /\ i = Cell(x, y) THEN Glyph(s, glyph) ELSE text[i]]]

\* In insert mode what is under and behind the cursor makes room first.
Inserted(s, text, n, blank) ==
  [i \in Cells |->
     IF i \div COLS # GetY(s) \/ i % COLS < GetX(s) THEN text[i]
     ELSE IF i % COLS >= GetX(s) + n THEN text[i - n] ELSE blank[i]]

\* Only a character of one byte makes room: one of several is put where it falls, over
\* what is there, as its last byte never comes to the insertion.
MakesRoom(s, code_point) ==
  s.insert_mode /\ code_point < 128 /\ OnScreen(s.cursor_x, s.cursor_y)

\* A printable character, in ASCII or in UTF-8, is printed where the cursor is: it
\* wraps and scrolls within the margins, and takes as many cells as it is wide; no
\* other cell changes, but for the room that a character of ASCII makes in insert
\* mode.  The screen is wider than high.
PrintsExactly == [][
  (Ground(ctx) /\ asked'.kind = "char" /\ ctx.scroll_enabled) =>
    LET code_point == asked'.args[1]
        glyphs == Glyphs(ctx, code_point)
        old == Text(ctx)
        text == IF MakesRoom(ctx, code_point) THEN Inserted(ctx, old, 1, old) ELSE old
        page == FoldLeft(LAMBDA p, glyph : Typed(ctx, p, glyph),
                        [text |-> text, x |-> ctx.cursor_x, y |-> ctx.cursor_y], glyphs)
    IN  Text(ctx') = page.text /\ Cursor(ctx') = <<page.x, page.y>> ]_ctx

-----------------------------------------------------------------------------
(* Movements.                                                              *)

Larger(a, b) == IF a >= b THEN a ELSE b
Argument(k, default) == IF k <= Len(asked'.args) THEN asked'.args[k] ELSE default

\* A line and a column, counted from 1.
Target(s, final) ==
  LET n == Argument(1, 1)
      x == s.cursor_x
      y == s.cursor_y
      top == s.scroll_top_margin
      bottom == s.scroll_bottom_margin
      up == IF y >= top THEN Larger(y - n, top) ELSE Larger(y - n, 0)
      down == IF y < bottom THEN Least(y + n, bottom - 1) ELSE Least(y + n, ROWS - 1)
      place(k, count) == Least(Larger(Argument(k, 1), 1), count) - 1
  IN  CASE final = "A" -> <<x, up>>
        [] final = "F" -> <<0, up>>
        [] final \in {"B", "e"} -> <<x, down>>
        [] final = "E" -> <<0, down>>
        [] final \in {"C", "a"} -> <<Least(x + n, COLS - 1), y>>
        [] final = "D" -> <<Larger(x - n, 0), y>>
        [] final \in {"G", "grave"} -> <<place(1, COLS), y>>
        [] final = "d" -> <<x, place(1, ROWS)>>
        [] final \in {"H", "f"} -> <<place(2, COLS), place(1, ROWS)>>
Movements == {"A", "F", "B", "e", "E", "C", "a", "D", "G", "grave", "d", "H", "f"}

\* A movement ends where it should and changes no text: up and down it stops at the
\* margin of the region it starts in, elsewhere at the edges.  Not for line or column
\* 0 (G and d take it for the last), nor down from the line just below the region
\* (which ends inside it).
MovesExactly == [][
  LET final == asked'.final
      defined == /\ final \in {"G", "grave", "d"} => Argument(1, 1) # 0
                 /\ final \in {"B", "e", "E"} => ctx.cursor_y # ctx.scroll_bottom_margin
  IN  (Ground(ctx) /\ Is("csi", Movements) /\ OnScreen(ctx.cursor_x, ctx.cursor_y) /\ defined) =>
        Cursor(ctx') = Target(ctx, final) /\ Text(ctx') = Text(ctx) ]_ctx

-----------------------------------------------------------------------------
(* Editing.                                                                *)

\* The cells that are erased: from the cursor on, up to it, or all, of its line or of
\* the screen.  In reading order the end of the region is the end; a line below the
\* region is its own.
Erases(s, final, n) ==
  LET here == Cell(s.cursor_x, s.cursor_y)
      line == {i \in Cells : i \div COLS = s.cursor_y}
      region == {i \in Cells : i \div COLS < s.scroll_bottom_margin}
      reading == IF s.cursor_y < s.scroll_bottom_margin THEN region ELSE line
  IN  CASE final = "J" /\ n = 0 -> {i \in reading : i >= here}
        [] final = "J" /\ n = 1 -> {i \in region : i <= here}
        [] final = "J" /\ n \in {2, 3} -> Cells
        [] final = "K" /\ n = 0 -> {i \in line : i >= here}
        [] final = "K" /\ n = 1 -> {i \in line : i < here}
        [] final = "K" /\ n = 2 -> line
        [] final = "X" -> {i \in reading : i \in here .. here + Least(n, COLS) - 1}
        [] OTHER -> {}

Edited(s, final, n) ==
  LET text == Text(s)
      blank == Glyph(s, SPACE)
      right == COLS - s.cursor_x
  IN  CASE final = "@" -> Inserted(s, text, n, [i \in Cells |-> blank])
        [] final = "P" ->
             [i \in Cells |-> IF i \div COLS # s.cursor_y \/ i % COLS < s.cursor_x THEN text[i]
                              ELSE IF (i % COLS) + n < COLS THEN text[i + n] ELSE blank]
        [] final = "M" -> Rolled(text, s.scroll_top_margin, s.scroll_bottom_margin, n, blank)
        [] final = "L" -> Rolled(text, s.cursor_y, s.scroll_bottom_margin, -n, blank)
        [] OTHER -> [i \in Cells |-> IF i \in Erases(s, final, n) THEN blank ELSE text[i]]

\* Erasing, inserting and deleting change the cells they should and no other, and
\* leave the cursor, for every place of it on the screen and all margins.  Not for @
\* of 0 characters (which erases the rest of the line), P of more than there are to
\* the right (which erases to the left as well), nor L below the region (which clears
\* the line).
EditsExactly == [][
  LET final == asked'.final
      n == Argument(1, IF asked'.final \in {"J", "K"} THEN 0 ELSE 1)
      defined == /\ final = "@" => n > 0
                 /\ final = "P" => n <= COLS - ctx.cursor_x
                 /\ final = "L" => ctx.cursor_y < ctx.scroll_bottom_margin
  IN  (/\ Ground(ctx) /\ Is("csi", {"J", "K", "X", "@", "P", "M", "L"})
       /\ OnScreen(ctx.cursor_x, ctx.cursor_y) /\ defined) =>
        Text(ctx') = Edited(ctx, final, n) /\ Cursor(ctx') = Cursor(ctx) ]_ctx

-----------------------------------------------------------------------------
(* Colours.                                                                *)

\* A state of the attributes, the present one or the saved one, whose colours are
\* those of the palette it has chosen, bright when it is bold.
Coherent(s) ==
  LET shades(n, bold) == IF n = NONE THEN Colours ELSE {Bright(n)} \cup (IF bold THEN {} ELSE {Ansi(n)})
  IN  /\ s[Ink(s)] \in shades(s.current_primary, s.bold)
      /\ s[Paper(s)] \in shades(s.current_bg, s.bg_bold)

Direct == asked'.kind = "csi" /\ asked'.final = "m" /\ {38, 48} \cap ToSet(asked'.args) # {}

\* Bold, reverse video and the colours of the palette keep to each other in every
\* order, across saving, restoring and a reset, until a colour is set by its value
\* (38, 48), of which the attributes do not know.
PaletteFollowsSgr == [][
  (Coherent(ctx) /\ Coherent(ctx.saved) /\ asked'.kind # "byte" /\ ~ Direct) =>
    Coherent(ctx') /\ Coherent(ctx'.saved) ]_ctx
=============================================================================
