---- MODULE MCHistogram ----
(* Histogram on three pictures: one with a slice longer than the others,   *)
(* whose pixels fall into few entries, one with fewer pixels than threads, *)
(* and one that is black.  The value 1 stands for the codes of white       *)
(* space, so that pixels look like it.  The files of other programs: a     *)
(* newline and more white space, no pixels, a bad magic number, white      *)
(* space before it, a maxrgb that is not supported, a value above maxrgb,  *)
(* a word in the place of xsize and a byte stuck to ysize.                 *)
EXTENDS Histogram

MCPictures ==
  { [ xsize |-> 2, ysize |-> 2,
      rgb |-> <<[p \in 0 .. 3 |-> p % 2], [p \in 0 .. 3 |-> 0], [p \in 0 .. 3 |-> 1]>> ],
    [ xsize |-> 1, ysize |-> 2,
      rgb |-> <<[p \in 0 .. 1 |-> 1], [p \in 0 .. 1 |-> p], [p \in 0 .. 1 |-> 0]>> ],
    [ xsize |-> 1, ysize |-> 1, rgb |-> [c \in Channel |-> [p \in 0 .. 0 |-> 0]] ] }

File(magic, x, y, max, bytes) ==
  <<magic, Blank, Blank, Number(x), Byte(2), Number(y), Blank, Number(max), Byte(2)>>
    \o [k \in DOMAIN bytes |-> Byte(bytes[k])]

MCForeignFiles ==
  { File(Magic, 1, 1, 1, <<1, 1, 0>>), File(Magic, 0, 1, 1, <<>>),
    File(Word, 1, 1, 1, <<0, 0, 0>>), <<Blank>> \o File(Magic, 1, 1, 1, <<0, 0, 0>>),
    File(Magic, 1, 1, 256, <<0, 0, 0>>), File(Magic, 1, 1, 1, <<0, 3, 0>>),
    File(Magic, 2, 1, 1, <<0, 1, 0, 1, 3, 0>>),
    <<Magic, Blank, Word, Blank, Number(1), Byte(7), Byte(1), Number(1), Blank, Byte(0), Byte(1), Byte(0)>> }
====
