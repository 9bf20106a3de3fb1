------------------------------- MODULE MCTerminal -----------------------------
(***************************************************************************)
(* The module that TLC runs for Terminal.  A run is a session: commands of *)
(* one kind, as many as its budget allows, from states that the program    *)
(* reaches by writing.                                                     *)
(***************************************************************************)
EXTENDS TerminalCommands

CONSTANT Sessions           \* the names of the sessions

VARIABLES session, spent

mcVars == <<ctx, asked, session, spent>>

-----------------------------------------------------------------------------
\* A session starts in the state after some commands.
After(commands) == Loop(LAMBDA s, k : Written(s, Bytes(commands[k])), InitialContext, Len(commands))

\* A full screen of different letters with a region, the cursor anywhere on it, also
\* behind the last column; what is erased is red.
Letter(x, y) == Char(Ord("A") + Cell(x, y))
Fill == [k \in 1 .. COLS * ROWS |-> Char(Ord("A") + k - 1)]
Start(x, y, margins, modes) ==
  Fill \o <<Csi(margins, "r")>>
    \o (IF x < COLS THEN <<Csi(<<y + 1, x + 1>>, "H")>>
        ELSE <<Csi(<<y + 1, COLS>>, "H"), Letter(COLS - 1, y)>>)
    \o <<Csi(<<41>>, "m")>> \o modes

Insert == Csi(<<4>>, "h")
Edit == {Start(x, y, margins, modes) :
           x \in 0 .. COLS, y \in 0 .. ROWS - 1,
           margins \in {<<>>, <<1, ROWS - 1>>, <<2>>}, modes \in {<<>>, <<Insert>>}}

Some == {<<>>, <<0>>, <<1>>, <<2>>, <<3>>, <<9>>}
\* More values than esc_values has places, all of them empty; and a final byte that the
\* parser does not know.
Empties == Raw(<<ESC, Ord("[")>> \o [k \in 1 .. FLANTERM_MAX_ESC_VALUES + 2 |-> Ord(";")] \o <<Ord("m")>>)
Unknown == Csi(<<1>>, "z")
Edits ==
  {Csi(args, final) : args \in Some, final \in Movements \cup {"J", "K", "X", "@", "P", "M", "L"}}
    \cup {Csi(<<2, 3>>, final) : final \in {"H", "f", "r"}}
    \cup {Csi(args, "r") : args \in {<<>>, <<2>>, <<0, 2>>, <<3, 3>>, <<1, 9>>}}
    \cup {Csi(<<>>, final) : final \in {"s", "u", "c", "n", "q", "]"}} \cup {Csi(<<4>>, "l")}
    \cup {Private(<<25>>, "l"), Private(<<25>>, "h"), Private(<<7>>, "h"), Private(<<>>, "l")}
    \cup {Escape(final) : final \in {"7", "8", "c", "D", "E", "M", "Z"}}
    \cup {Osc(<<Ord("0"), Ord(";"), Ord("a")>>), Empties, Unknown}
    \cup {Char(code_point) : code_point \in {Ord("x"), 233, 769, 20013, 8364}}
    \cup {Byte(byte) : byte \in {8, 9, 10, 11, 13, 127, 1, 200}}

\* Sequences of commands on a few screens.
Screens == {<<>>, Start(2, 1, <<1, ROWS - 1>>, <<>>), Start(COLS, ROWS - 1, <<2>>, <<>>)}
Mixture ==
  {Csi(<<1, 2>>, "r"), Csi(<<>>, "r"), Csi(<<1>>, "L"), Csi(<<1>>, "M"), Csi(<<>>, "J"),
   Csi(<<1>>, "P"), Csi(<<2, 2>>, "H"), Csi(<<9>>, "B"), Csi(<<9>>, "C"), Csi(<<>>, "s"),
   Csi(<<>>, "u"), Insert, Private(<<25>>, "l"), Private(<<25>>, "h"), Escape("7"), Escape("8"),
   Escape("c"), Escape("M"), Escape("D"), Char(Ord("x")), Char(20013), Byte(10), Unknown}

\* Every order of the bytes that the parser tells apart.
Alphabet ==
  {ESC, CAN, BEL, 195, 169} \cup {Ord(char) : char \in {"[", "?", "1", ";", "K", "z", "]", "c", "(", "0"}}

\* The attributes in any order, several in a sequence, and cut off.
Codes == {<<>>, <<1>>, <<5>>, <<7>>, <<22>>, <<25>>, <<27>>, <<31>>, <<39>>, <<42>>, <<49>>, <<91>>,
          <<102>>, <<7, 31>>, <<0, 1>>, <<38, 5, 9>>, <<48, 2, 1, 2, 3>>, <<38, 5>>, <<38, 3, 1>>,
          <<48, 5, 20>>, <<31, 1, 44, 5, 7, 49>>, <<1, 2, 3, 4, 5, 6, 7>>, <<7, 0, 0, 0, 0, 0, 0, 5>>}
Colouring == {Csi(args, "m") : args \in Codes} \cup {Escape("7"), Escape("8"), Escape("c"), Char(Ord("x"))}

\* The ends of the intervals of combining and of wide characters and what is next to
\* them, and glyphs.
Ends == UNION {{combining[k][1] - 1, combining[k][1], combining[k][2], combining[k][2] + 1} :
                 k \in DOMAIN combining}
Beyond == {160, 4351, 4352, 4447, 9001, 11903, 11904, 12351, 42191, 42192, 55203, 65376, 131072, 1114111}
Reading == {Char(code_point) : code_point \in Ends \cup Beyond \cup {LowGlyphs[7], HighGlyphs[9]}}

\* Line drawing characters.
Drawing == {Select("(", "0"), Select(")", "B"), Select("(", "B"), Byte(14), Byte(15)}
             \cup {Char(Ord(char)) : char \in {"q", "x", "A", "grave"}}

\* Several writes to a flush.
Delayed == {Char(Ord("x")), Csi(<<1>>, "L"), Csi(<<>>, "J"), Csi(<<2, 2>>, "H"), Byte(10), Escape("c"),
            Private(<<25>>, "l"), Csi(<<7>>, "m")}

\* The commands before the session and in it, how many of them, and whether the other
\* functions are called.
Session(starts, commands, budget, calls) ==
  [starts |-> starts, commands |-> commands, budget |-> budget, calls |-> calls]
Kinds ==
  [edit    |-> Session(Edit, Edits, 1, FALSE),
   mixed   |-> Session(Screens, Mixture, 3, FALSE),
   bytes   |-> Session({Start(1, 1, <<>>, <<>>)}, {Byte(b) : b \in Alphabet}, 5, FALSE),
   colours |-> Session({<<>>}, Colouring, 3, FALSE),
   reading |-> Session({Start(2, 2, <<>>, <<>>)}, Reading, 1, FALSE),
   drawing |-> Session({<<>>}, Drawing, 4, FALSE),
   delayed |-> Session({Start(3, 1, <<>>, <<>>)}, Delayed, 5, TRUE)]

-----------------------------------------------------------------------------
MCInit ==
  /\ session \in Sessions
  /\ \E commands \in Kinds[session].starts : ctx = After(commands)
  /\ asked = Nothing
  /\ spent = 0

Calls ==
  \/ Call(flanterm_flush)
  \/ Settled /\ Call(flanterm_full_refresh)
  \/ \E state \in BOOLEAN : Call(flanterm_set_autoflush(state))
  \/ Call(flanterm_set_oob_output(FALSE))

MCNext ==
  /\ spent < Kinds[session].budget
  /\ \/ \E command \in Kinds[session].commands : Ask(command)
     \/ Kinds[session].calls /\ Calls
  /\ spent' = spent + 1
  /\ UNCHANGED session

MCSpec == MCInit /\ [][MCNext]_mcVars
=============================================================================
