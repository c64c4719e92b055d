------------------------------ MODULE MCVideo ------------------------------
(* Guests for Video: each starts in a BIOS mode and mixes the accesses whose *)
(* orders matter to one another.  An "out" is a sequence of port writes, so  *)
(* <<3D4h, i>>, <<3D5h, x>> in one is OUT DX, AX.                            *)
EXTENDS Video

One(port, value) == << <<port, value>> >>
Word(port, index, value) == << <<port, index>>, <<port + 1, value>> >>
All == {"hardware", "bios", "dac"}

AttributeGuest ==
  [mode |-> 3, setup |-> <<>>, steps |-> 3,
   args |-> [out |-> {One(\h3C0, 48), One(\h3C0, 51), One(\h3C0, 4), Word(\h3C4, 1, 33)},
             in |-> {\h3DA}, blink |-> {FALSE}, border |-> {5}, attribute |-> {<<1, 63>>},
             refresh |-> {TRUE}]]
DacGuest ==
  [mode |-> 3, setup |-> <<>>, steps |-> 3,
   args |-> [out |-> {One(\h3C8, 1), One(\h3C9, 33), One(\h3C7, 1), One(\h3C6, 15)}, in |-> {\h3C9},
             dac |-> {<<255, <<1, 2, 3>>>>}, gray |-> {<<1, 2>>}, mode |-> {3},
             restore |-> {{"dac"}}]]
MaskGuest ==
  [mode |-> 3, setup |-> <<>>, steps |-> 8,
   args |-> [out |-> {One(\h3C6, 7)}, in |-> {\h3C6}, mask |-> {3}, gray |-> {<<0, 1>>}]]
CrtcGuest ==
  [mode |-> 3, setup |-> <<>>, steps |-> 3,
   args |-> [out |-> {Word(\h3D4, 9, 13), Word(\h3D4, 17, 128), Word(\h3D4, 7, 0), Word(\h3D4, 14, 3),
                      Word(\h3D4, 12, 1), Word(\h3D4, 23, 0), One(\h3D5, 1)},
             cell |-> {8, 14}, cursor |-> {<<0, 24, 79>>}, page |-> {1}]]
MonoGuest ==
  [mode |-> 7, setup |-> <<>>, steps |-> 3,
   args |-> [out |-> {Word(\h3B4, 15, 7), Word(\h3B4, 10, 32), One(\h3C2, 99), One(\h3C2, 98), 
                      Word(\h3B4, 20, 0), One(\h3B8, 2)},
             in |-> {\h3BA}, access |-> {FALSE}, page |-> {7}, mode |-> {1}, shape |-> {<<1, 13>>}]]
CgaGuest ==
  [mode |-> 4, setup |-> <<>>, steps |-> 3,
   args |-> [out |-> {One(\h3D8, 26), One(\h3D8, 42), One(\h3D8, 41), One(\h3D9, 48), Word(\h3D4, 12, 4)},
             plot |-> {<<1, 1, 2, FALSE>>, <<3, 199, 3, TRUE>>}, page |-> {1}, mode |-> {3, 134},
             border |-> {6}, restore |-> {{"hardware"}, All}]]
PlaneGuest ==
  [mode |-> 13, setup |-> << <<\h3CE, 8>>, <<\h3CF, 60>>, <<\h3CE, 2>>, <<\h3CF, 5>> >>, steps |-> 3,
   args |-> [out |-> {Word(\h3CE, 0, 6), Word(\h3CE, 1, 10), Word(\h3CE, 3, 26), Word(\h3CE, 3, 9), Word(\h3CE, 5, 1),
                      Word(\h3CE, 5, 10), Word(\h3CE, 5, 3), Word(\h3CE, 5, 16), Word(\h3C4, 2, 13)},
             peek |-> {\hA0002}, poke |-> {<<\hA0002, 210>>, <<\hA0002, 85>>}]]
OddEvenGuest ==
  [mode |-> 16, setup |-> Word(\h3CE, 5, 16) \o Word(\h3C4, 4, 2), steps |-> 3,
   args |-> [out |-> {Word(\h3CE, 4, 2), Word(\h3CE, 6, 1), Word(\h3CE, 6, 13), Word(\h3C4, 4, 6), One(\h3C2, 97)},
             peek |-> {\hA0002}, poke |-> {<<\hA0001, 210>>, <<\hA0002, 85>>}, page |-> {1},
             plot |-> {<<8, 1, 11, FALSE>>}]]
ChainGuest ==
  [mode |-> 19, setup |-> <<>>, steps |-> 3,
   args |-> [out |-> {Word(\h3C4, 4, 6), Word(\h3D4, 20, 0), Word(\h3D4, 23, 195), Word(\h3C4, 2, 5), Word(\h3D4, 12, 64),
                      Word(\h3D4, 9, 193)},
             poke |-> {<<\hA0001, 210>>, <<\hA0141, 85>>}, plot |-> {<<1, 1, 200, FALSE>>}, page |-> {1, 3}]]
SplitGuest ==
  [mode |-> 14, setup |-> Word(\h3D4, 12, 1) \o Word(\h3D4, 7, 0) \o Word(\h3D4, 24, 99), steps |-> 3,
   args |-> [out |-> {Word(\h3D4, 24, 0), Word(\h3D4, 9, 1), Word(\h3D4, 8, 66), Word(\h3D4, 18, 100),
                      << <<\h3C0, 51>>, <<\h3C0, 3>> >>, << <<\h3C0, 48>>, <<\h3C0, 33>> >>, Word(\h3CE, 5, 32)},
             poke |-> {<<\hA0000, 210>>}, plot |-> {<<9, 1, 13, FALSE>>}, page |-> {1}]]
SaveGuest ==
  [mode |-> 18, setup |-> << <<\h3C0, 48>> >>, steps |-> 4,
   args |-> [out |-> {One(\h3C0, 35), One(\h3C9, 9), Word(\h3D4, 17, 140), Word(\h3D4, 3, 77), One(\h3DA, 8)},
             mode |-> {3, 19}, peek |-> {\hA0000}, restore |-> {All, {"bios"}}]]
PaletteGuest ==
  [mode |-> 3, setup |-> <<>>, steps |-> 3,
   args |-> [load |-> {FALSE}, sum |-> {TRUE, FALSE}, mode |-> {3, 19}, attribute |-> {<<20, 7>>},
             dac |-> {<<64, <<9, 8, 7>>>>}, paging |-> {TRUE}, colourPage |-> {2},
             out |-> {One(\h3C0, 37), One(\h3C6, 63)}, page |-> {1}]]

Guests == {AttributeGuest, DacGuest, MaskGuest, CrtcGuest, MonoGuest, CgaGuest, PlaneGuest, OddEvenGuest,
           ChainGuest, SplitGuest, SaveGuest, PaletteGuest}
Dots == {<<0, 0>>, <<1, 1>>, <<9, 1>>, <<1, 100>>, <<3, 199>>}
=============================================================================
