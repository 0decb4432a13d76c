------------------------------ MODULE PPMFile ------------------------------
(***************************************************************************)
(* ppmb_io.c of a3: ppmb_write_test makes a picture and writes it,         *)
(* ppmb_read reads one, for ppmb_read_test, which checks and frees it, or  *)
(* for the histogram programs.  A file is a sequence of elements: a word   *)
(* of the header or a single byte; a byte that isspace takes for white     *)
(* space can end a word and can be a value of a pixel.  A crash or a full  *)
(* disk leaves the first elements of it, which ppmb_write does not notice. *)
(***************************************************************************)
EXTENDS Integers, Sequences, FiniteSetsExt

CONSTANTS
  Pictures,      \* the pictures that are written
  ForeignFiles,  \* files that other programs have made
  Leftovers,     \* what an int that nothing was stored in may hold
  Spaces,        \* the values of a byte that are white space
  Room           \* the largest number of elements that the disk can take

Channel == 1 .. 3              \* r, g, b

ASSUME PicturesAssumption ==
  \A p \in Pictures :
    /\ DOMAIN p = {"xsize", "ysize", "rgb"}
    /\ p.xsize \in Nat \ {0} /\ p.ysize \in Nat \ {0}
    /\ p.rgb \in [Channel -> [0 .. p.xsize * p.ysize - 1 -> Nat]]
ASSUME FileAssumption == Spaces # {} /\ Spaces \subseteq Nat /\ Room \in Nat

VARIABLES
  picture,   \* the picture that is written
  disk,      \* the elements of the file
  room,      \* how many elements the disk takes
  at,        \* the statement of ppmb_io that is executed
  held,      \* how many of the three arrays are allocated
  tell,      \* the elements read or, in ppmb_write, the pixels written
  state,     \* the state of ppmb_read_header
  string,    \* the last word of the header
  header,    \* the numbers read: xsize, ysize, maxrgb
  data       \* the bytes read into the arrays, in the order of the file

ppmVars == <<picture, disk, room, at, held, tell, state, string, header, data>>
readVars == <<state, string, header, data>>

Byte(v) == [kind |-> "byte", val |-> v]
Number(n) == [kind |-> "number", val |-> n]
Magic == [kind |-> "magic", val |-> 6]        \* "P6" or "p6"
Word == [kind |-> "word", val |-> 0]          \* any other word
Blank == Byte(CHOOSE s \in Spaces : TRUE)
isspace(c) == c.kind = "byte" /\ c.val \in Spaces

\* The files of other programs consist of the same elements: their numbers
\* have no sign, and no digit follows one.
Element == [kind : {"byte", "number", "magic", "word"}, val : Nat]
ASSUME ForeignAssumption == ForeignFiles \subseteq Seq(Element) /\ Leftovers \subseteq Nat

\* The string that is being read, with one more element: sscanf takes the
\* number that a word begins with.
Joined(word, c) == IF word.kind = "number" THEN word ELSE Word

\* Nothing is read, and nobody looks at the files any more.
NoRead == /\ state = 0 /\ string = Word /\ header = <<>> /\ data = <<>>

WriteInit ==
  /\ picture \in Pictures /\ disk = <<>> /\ room \in 0 .. Room
  /\ at = "write test" /\ held = 0 /\ tell = 0 /\ NoRead
ForeignInit ==
  /\ picture \in Pictures /\ disk \in ForeignFiles /\ room = Room
  /\ at = "open" /\ held = 0 /\ tell = 0 /\ NoRead

-----------------------------------------------------------------------------
\* malloc for the next of three arrays: NULL, or on to next after the third.
Allocate(here, failed, next) ==
  /\ at = here
  /\ \/ at' = failed /\ UNCHANGED held
     \/ held < 3 /\ held' = held + 1 /\ at' = IF held = 2 THEN next ELSE here

\* What the disk keeps when s is written to the end of the file.
Stored(s) == SubSeq(disk \o s, 1, Min({room, Len(disk \o s)}))

Pixels(p) == 0 .. p.xsize * p.ysize - 1
Maximum(p) == Max({0} \cup { p.rgb[c][k] : c \in Channel, k \in Pixels(p) })

\* ppmb_write_test: the arrays; ppmb_example is one of Pictures.
WriteTest ==
  /\ Allocate("write test", "open", "create")
  /\ UNCHANGED <<picture, disk, room, tell, readVars>>

\* ppmb_write: fopen, the largest value, ppmb_write_header.
WriteHeader ==
  /\ at = "create"
  /\ \/ at' = "close" /\ UNCHANGED disk
     \/ /\ disk' = Stored(<<Magic, Blank, Number(picture.xsize), Blank,
                            Number(picture.ysize), Blank, Number(Maximum(picture)), Blank>>)
        /\ at' = "write data"
  /\ UNCHANGED <<picture, room, held, tell, readVars>>

\* ppmb_write_data: three bytes for every pixel.
WriteData ==
  /\ at = "write data"
  /\ \/ /\ tell < picture.xsize * picture.ysize
        /\ disk' = Stored([c \in Channel |-> Byte(picture.rgb[c][tell])])
        /\ tell' = tell + 1
        /\ UNCHANGED at
     \/ tell >= picture.xsize * picture.ysize /\ at' = "close" /\ UNCHANGED <<disk, tell>>
  /\ UNCHANGED <<picture, room, held, readVars>>

\* fclose or the failure of fopen, and the three frees of ppmb_write_test.
WriteEnd ==
  /\ at = "close"
  /\ at' = "open" /\ held' = 0 /\ tell' = 0
  /\ UNCHANGED <<picture, disk, room, readVars>>

WriteStep == WriteTest \/ WriteHeader \/ WriteData \/ WriteEnd

-----------------------------------------------------------------------------
\* ppmb_read: fopen; the arrays of the caller are NULL, or not his any more.
OpenFile ==
  /\ at = "open"
  /\ at' \in {"header", "error"}
  /\ held' = 0
  /\ UNCHANGED <<picture, disk, room, tell, readVars>>

\* fgetc
Char == disk[tell + 1]
Eof == tell >= Len(disk)

\* A word has ended: the magic number, or one of the three numbers.  If it is
\* no number sscanf stores nothing, and returns 0 and not EOF: the int keeps
\* what it holds.  If that is below 0, arrays are used that hold no data, and
\* nothing is claimed of what the program does then.
WordEnd ==
  \/ /\ state = 1 /\ string.kind # "magic"
     /\ at' = "error" /\ UNCHANGED <<state, header>>
  \/ /\ state = 1 /\ string.kind = "magic"
     /\ state' = 2 /\ UNCHANGED <<at, header>>
  \/ /\ state \in {3, 5, 7} /\ string.kind # "number"
     /\ at' = "undefined" /\ UNCHANGED <<state, header>>
  \/ /\ state \in {3, 5, 7}
     /\ \E n \in IF string.kind = "number" THEN {string.val} ELSE Leftovers :
          header' = Append(header, n)
     /\ state' = state + 1
     /\ at' = IF state = 7 THEN "arrays" ELSE at

\* One element of the header; the odd states are inside a word.
HeaderElement ==
  /\ tell' = tell + 1
  /\ \/ /\ ~Eof => state = 0 /\ isspace(Char)
        /\ at' = "error" /\ UNCHANGED <<state, string, header>>
     \/ /\ ~Eof /\ ~isspace(Char)
        /\ state' = IF state % 2 = 0 THEN state + 1 ELSE state
        /\ string' = IF state % 2 = 0 THEN Char ELSE Joined(string, Char)
        /\ UNCHANGED <<at, header>>
     \/ /\ ~Eof /\ isspace(Char) /\ state % 2 = 1
        /\ WordEnd /\ UNCHANGED string
     \/ /\ ~Eof /\ isspace(Char) /\ state \in {2, 4, 6}
        /\ UNCHANGED <<at, state, string, header>>

\* Faulty: the header takes all the white space behind it.
ReadHeaderAllSpace ==
  /\ at = "header"
  /\ IF state = 7 /\ tell + 1 < Len(disk) /\ isspace(Char) /\ isspace(disk[tell + 2])
     THEN tell' = tell + 1 /\ UNCHANGED <<at, state, string, header>>
     ELSE HeaderElement
  /\ UNCHANGED <<picture, disk, room, held, data>>

\* ppmb_read_header
ReadHeader ==
  /\ at = "header"
  /\ HeaderElement
  /\ UNCHANGED <<picture, disk, room, held, data>>

\* ppmb_read: the arrays.
ReadArrays ==
  /\ Allocate("arrays", "error", "data")
  /\ UNCHANGED <<picture, disk, room, tell, readVars>>

\* ppmb_read_data: one byte, for the channel whose turn it is.
ReadData ==
  /\ at = "data"
  /\ \/ /\ Len(data) < 3 * header[1] * header[2]
        /\ \/ Eof /\ at' = "error" /\ UNCHANGED data
           \/ ~Eof /\ data' = Append(data, Char.val) /\ UNCHANGED at
        /\ tell' = tell + 1
     \/ /\ Len(data) >= 3 * header[1] * header[2]
        /\ at' = "read"
        /\ UNCHANGED <<tell, data>>
  /\ UNCHANGED <<picture, disk, room, held, state, string, header>>

ReadStep == OpenFile \/ ReadHeader \/ ReadArrays \/ ReadData

\* The picture that ppmb_read has left to its caller.
PictureRead ==
  LET size == header[1] * header[2]
  IN  [ size |-> size, maxrgb |-> header[3],
        rgb |-> [c \in Channel |-> [k \in 0 .. size - 1 |-> data[3 * k + c]]] ]

\* ppmb_check_data
DataBad ==
  \/ header[1] <= 0 \/ header[2] <= 0
  \/ \E k \in DOMAIN data : data[k] > header[3]

\* ppmb_read_test: the check, the frees and the result.
ReadTest ==
  /\ at \in {"read", "error"}
  /\ at' = IF at = "read" /\ ~DataBad THEN "passed" ELSE "bad"
  /\ held' = 0
  /\ UNCHANGED <<picture, disk, room, tell, readVars>>

-----------------------------------------------------------------------------
\* The file has all that ppmb_write has to say of the picture.
Whole == Len(disk) = 8 + 3 * picture.xsize * picture.ysize

\* ppmb_read takes a file of ppmb_write if and only if no write was cut short:
\* then it is the picture that was written, whatever its bytes look like, and
\* ppmb_check_data finds nothing wrong with it; only fopen and malloc can fail.
PictureIntact ==
  at \in {"read", "passed", "error"} /\ disk \notin ForeignFiles =>
    IF at = "error" THEN Whole => tell \in {0, 8}
    ELSE /\ Whole
         /\ PictureRead = [ size |-> picture.xsize * picture.ysize,
                            maxrgb |-> Maximum(picture), rgb |-> picture.rgb ]
         /\ ~DataBad
=============================================================================
