-------------------------------- MODULE Unicode -------------------------------
(***************************************************************************)
(* How the terminal reads text, kernel/src/flanterm/flanterm.c: UTF-8      *)
(* bytes, the code points that its font (code page 437) has a glyph for,   *)
(* and the width of those it has not.  Bytes and code points are numbers.  *)
(***************************************************************************)
EXTENDS Integers, Sequences

-----------------------------------------------------------------------------
(* Decoding.                                                               *)

Lead == 192 .. 247
Continuation == 128 .. 191

\* How many bytes follow a lead byte, and the bits it contributes.
Following(c) == CASE c <= 223 -> 1 [] c \in 224 .. 239 -> 2 [] c >= 240 -> 3
LeadBits(c) ==
  (CASE c <= 223 -> c % 32 [] c \in 224 .. 239 -> c % 16 [] c >= 240 -> c % 8)
    * 64 ^ Following(c)
ContinuationBits(c, remaining) == (c % 64) * 64 ^ remaining

-----------------------------------------------------------------------------
(* Glyphs.                                                                 *)

\* The code points of glyphs 1 to 31 and 127 to 254.
LowGlyphs == <<
    9786, 9787, 9829, 9830, 9827, 9824, 8226, 9688, 9675, 9689, 9794, 9792,
    9834, 9835, 9788, 9658, 9668, 8597, 8252, 182, 167, 9644, 8616, 8593, 8595,
    8594, 8592, 8735, 8596, 9650, 9660 >>
HighGlyphs == <<
    8962, 199, 252, 233, 226, 228, 224, 229, 231, 234, 235, 232, 239, 238, 236,
    196, 197, 201, 230, 198, 244, 246, 242, 251, 249, 255, 214, 220, 162, 163,
    165, 8359, 402, 225, 237, 243, 250, 241, 209, 170, 186, 191, 8976, 172,
    189, 188, 161, 171, 187, 9617, 9618, 9619, 9474, 9508, 9569, 9570, 9558,
    9557, 9571, 9553, 9559, 9565, 9564, 9563, 9488, 9492, 9524, 9516, 9500,
    9472, 9532, 9566, 9567, 9562, 9556, 9577, 9574, 9568, 9552, 9580, 9575,
    9576, 9572, 9573, 9561, 9560, 9554, 9555, 9579, 9578, 9496, 9484, 9608,
    9604, 9612, 9616, 9600, 945, 223, 915, 960, 931, 963, 181, 964, 934, 920,
    937, 948, 8734, 966, 949, 8745, 8801, 177, 8805, 8804, 8992, 8993, 247,
    8776, 176, 8729, 183, 8730, 8319, 178, 9632 >>

unicode_to_cp437(code_point) ==
  IF \E k \in DOMAIN LowGlyphs : LowGlyphs[k] = code_point
  THEN CHOOSE k \in DOMAIN LowGlyphs : LowGlyphs[k] = code_point
  ELSE IF \E k \in DOMAIN HighGlyphs : HighGlyphs[k] = code_point
  THEN 126 + CHOOSE k \in DOMAIN HighGlyphs : HighGlyphs[k] = code_point
  ELSE -1

-----------------------------------------------------------------------------
(* Widths.                                                                 *)

combining == <<
    <<768, 879>>, <<1155, 1158>>, <<1160, 1161>>, <<1425, 1469>>,
    <<1471, 1471>>, <<1473, 1474>>, <<1476, 1477>>, <<1479, 1479>>,
    <<1536, 1539>>, <<1552, 1557>>, <<1611, 1630>>, <<1648, 1648>>,
    <<1750, 1764>>, <<1767, 1768>>, <<1770, 1773>>, <<1807, 1807>>,
    <<1809, 1809>>, <<1840, 1866>>, <<1958, 1968>>, <<2027, 2035>>,
    <<2305, 2306>>, <<2364, 2364>>, <<2369, 2376>>, <<2381, 2381>>,
    <<2385, 2388>>, <<2402, 2403>>, <<2433, 2433>>, <<2492, 2492>>,
    <<2497, 2500>>, <<2509, 2509>>, <<2530, 2531>>, <<2561, 2562>>,
    <<2620, 2620>>, <<2625, 2626>>, <<2631, 2632>>, <<2635, 2637>>,
    <<2672, 2673>>, <<2689, 2690>>, <<2748, 2748>>, <<2753, 2757>>,
    <<2759, 2760>>, <<2765, 2765>>, <<2786, 2787>>, <<2817, 2817>>,
    <<2876, 2876>>, <<2879, 2879>>, <<2881, 2883>>, <<2893, 2893>>,
    <<2902, 2902>>, <<2946, 2946>>, <<3008, 3008>>, <<3021, 3021>>,
    <<3134, 3136>>, <<3142, 3144>>, <<3146, 3149>>, <<3157, 3158>>,
    <<3260, 3260>>, <<3263, 3263>>, <<3270, 3270>>, <<3276, 3277>>,
    <<3298, 3299>>, <<3393, 3395>>, <<3405, 3405>>, <<3530, 3530>>,
    <<3538, 3540>>, <<3542, 3542>>, <<3633, 3633>>, <<3636, 3642>>,
    <<3655, 3662>>, <<3761, 3761>>, <<3764, 3769>>, <<3771, 3772>>,
    <<3784, 3789>>, <<3864, 3865>>, <<3893, 3893>>, <<3895, 3895>>,
    <<3897, 3897>>, <<3953, 3966>>, <<3968, 3972>>, <<3974, 3975>>,
    <<3984, 3991>>, <<3993, 4028>>, <<4038, 4038>>, <<4141, 4144>>,
    <<4146, 4146>>, <<4150, 4151>>, <<4153, 4153>>, <<4184, 4185>>,
    <<4448, 4607>>, <<4959, 4959>>, <<5906, 5908>>, <<5938, 5940>>,
    <<5970, 5971>>, <<6002, 6003>>, <<6068, 6069>>, <<6071, 6077>>,
    <<6086, 6086>>, <<6089, 6099>>, <<6109, 6109>>, <<6155, 6157>>,
    <<6313, 6313>>, <<6432, 6434>>, <<6439, 6440>>, <<6450, 6450>>,
    <<6457, 6459>>, <<6679, 6680>>, <<6912, 6915>>, <<6964, 6964>>,
    <<6966, 6970>>, <<6972, 6972>>, <<6978, 6978>>, <<7019, 7027>>,
    <<7616, 7626>>, <<7678, 7679>>, <<8203, 8207>>, <<8234, 8238>>,
    <<8288, 8291>>, <<8298, 8303>>, <<8400, 8431>>, <<12330, 12335>>,
    <<12441, 12442>>, <<43014, 43014>>, <<43019, 43019>>, <<43045, 43046>>,
    <<64286, 64286>>, <<65024, 65039>>, <<65056, 65059>>, <<65279, 65279>>,
    <<65529, 65531>>, <<68097, 68099>>, <<68101, 68102>>, <<68108, 68111>>,
    <<68152, 68154>>, <<68159, 68159>>, <<119143, 119145>>, <<119155, 119170>>,
    <<119173, 119179>>, <<119210, 119213>>, <<119362, 119364>>,
    <<917505, 917505>>, <<917536, 917631>>, <<917760, 917999>> >>

\* Between the entries min and max, counted from 0.
bisearch(ucs, table) ==
  LET last == Len(table) - 1
      within[min \in 0 .. last + 1, max \in -1 .. last] ==
        LET mid == (min + max) \div 2
        IN  IF max < min THEN FALSE
            ELSE IF ucs > table[mid + 1][2] THEN within[mid + 1, max]
            ELSE IF ucs < table[mid + 1][1] THEN within[min, mid - 1]
            ELSE TRUE
  IN  table[1][1] <= ucs /\ ucs <= table[last + 1][2] /\ within[0, last]

Wide(ucs) ==
  \/ ucs \in 4352 .. 4447 \/ ucs \in {9001, 9002}
  \/ ucs \in 11904 .. 42191 /\ ucs # 12351
  \/ ucs \in 44032 .. 55203 \/ ucs \in 63744 .. 64255
  \/ ucs \in 65040 .. 65049 \/ ucs \in 65072 .. 65135
  \/ ucs \in 65280 .. 65376 \/ ucs \in 65504 .. 65510
  \/ ucs \in 131072 .. 196605 \/ ucs \in 196608 .. 262141

mk_wcwidth(ucs) ==
  IF ucs = 0 THEN 0
  ELSE IF ucs < 32 \/ ucs \in 127 .. 159 THEN 1
  ELSE IF bisearch(ucs, combining) THEN 0
  ELSE IF Wide(ucs) THEN 2 ELSE 1
=============================================================================
