------------------------------ MODULE MCFat439 ------------------------------
(* Small images for TLC, and names: those of files, the directory's own, the *)
(* empty one, one that goes beyond a file's, one that differs in its last    *)
(* character and one that is longer than any entry.                          *)
EXTENDS Fat439
TwoNames == <<2, 1>>
LongName == <<1, 3>>
SomeNames == {<<1, 0>>, <<1, 2, 0>>, Dot, <<46, 46, 0>>, <<0>>,
              <<1, 2, 3, 0>>, <<1, 3, 0>>, <<1, 2, 3, 4, 5, 0>>}
=============================================================================
