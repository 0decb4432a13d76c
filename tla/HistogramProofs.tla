--------------------------- MODULE HistogramProofs ---------------------------
(***************************************************************************)
(* The histogram programs count every pixel once, for every picture and    *)
(* every number of threads: the locks exclude each other, an increment is  *)
(* never lost, the slices divide the pixels, and what main writes is what  *)
(* the sequential program writes.                                          *)
(***************************************************************************)
EXTENDS Histogram, FiniteSetTheorems, TLAPS

\* The statements of one channel of one pixel.
LabelsOf(p) ==
  CASE p = "lock1" -> {"test", "exchange", "load", "store", "release"}
    [] p = "lock2" -> {"take", "look", "pause", "load", "store", "release", "serve"}
    [] OTHER       -> {"add"}

\* Between acquire and the end of release.
Critical == {"load", "store", "release", "serve"}

\* How many numbers of the header have ended in state s.
Numbers(s) == IF s < 4 THEN 0 ELSE IF s < 6 THEN 1 ELSE IF s < 8 THEN 2 ELSE 3

\* The file and what is read of it, until main has taken the picture.
FileTypeOK ==
  /\ picture \in Pictures
  /\ disk \in Seq(Element) /\ room \in Nat /\ tell \in Nat
  /\ string \in Element
  /\ header \in Seq(Nat)
  /\ state \in 0 .. 8
  /\ Len(header) = Numbers(state)
  /\ at \in {"arrays", "data", "read"} => state = 8
  /\ at \in {"write test", "create", "write data", "close", "open", "header"} => state < 8
FileOK == main = "read" => FileTypeOK

LockTypeOK ==
  /\ f \in [Channel -> BOOLEAN]
  /\ next_ticket \in [Channel -> Nat] /\ now_serving \in [Channel -> Nat]
  /\ my_ticket \in [Thread -> Nat] /\ ns \in [Thread -> Nat] /\ serve \in [Thread -> Nat]

CountTypeOK ==
  /\ hist \in [Channel -> [Value -> Nat]]
  /\ p_hist \in [Thread -> [Channel -> [Value -> Nat]]]
  /\ DOMAIN register = Thread /\ register = [t \in Thread |-> register[t]]

\* Where threads and main are.
ScanOK ==
  /\ program \in Programs
  /\ input.size \in Nat
  /\ main \in {"read", "exit", "start", "join", "merge", "done", "undefined"}
  /\ i \in Thread
  /\ pc \in [Thread -> {"idle", "begin", "done"} \cup LabelsOf(program)]
  /\ pix \in [Thread -> Nat]
  /\ chan \in [Thread -> Channel]
  /\ \A t \in Thread :
       /\ pc[t] \in LabelsOf(program) => pix[t] \in Start(t) .. End(t) - 1
       /\ pc[t] = "done" => pix[t] = End(t)

\* main starts the threads one by one, waits for them, and then merges.
Workers ==
  /\ main \in {"read", "exit"} => i = 0 /\ \A t \in Thread : pc[t] = "idle"
  /\ main = "start" => \A t \in Thread : pc[t] = "idle" <=> t >= i
  /\ main \in {"join", "merge", "done"} => \A t \in Thread : pc[t] # "idle"
  /\ main = "join" => \A t \in Thread : t < i => pc[t] = "done"
  /\ main \in {"merge", "done"} => \A t \in Thread : pc[t] = "done"
  /\ main = "merge" => program = "private"

\* Two threads that use the same lock are not both between acquire and release.
Mutex ==
  \A t, u \in Thread :
    t # u /\ pc[t] \in Critical /\ pc[u] \in Critical => chan[t] # chan[u]

\* The flag of a lock is set while a thread has the lock.
FlagHeld ==
  program = "lock1" =>
    \A c \in Channel : f[c] <=> \E t \in Thread : pc[t] \in Critical /\ chan[t] = c

\* The thread that has the lock has the ticket that is served.
Served ==
  /\ \A c \in Channel : now_serving[c] <= next_ticket[c]
  /\ program # "lock2" => \A c \in Channel : next_ticket[c] = 0
  /\ \A c \in Channel : \A t \in InLine(c) :
       pc[t] \in Critical => my_ticket[t] = now_serving[c]
  /\ \A t \in Thread : pc[t] = "serve" => serve[t] = now_serving[chan[t]] + 1

\* The numbers of the tickets that are out are those from now_serving on, each
\* once; what a pausing thread has read is behind its ticket, but not far.
Line ==
  /\ \A c \in Channel :
       /\ { my_ticket[t] : t \in InLine(c) } = now_serving[c] .. next_ticket[c] - 1
       /\ \A t, u \in InLine(c) : t # u => my_ticket[t] # my_ticket[u]
  /\ \A t \in Thread : pc[t] = "pause" => my_ticket[t] - ns[t] \in 1 .. threads - 1

\* The pixels for whose channel c thread t has taken a ticket.
TakenBy(t, c) ==
  { p \in Start(t) .. End(t) - 1 : p \in Passed(t, c) \/ (p = pix[t] /\ t \in InLine(c)) }
Taken(c) == UNION { TakenBy(t, c) : t \in Thread }
TicketPerPixel ==
  program = "lock2" => \A c \in Channel : next_ticket[c] = Cardinality(Taken(c))

\* What a thread has loaded stays what is in the histogram until it stores.
Held ==
  \A t \in Thread : pc[t] = "store" => register[t] = hist[chan[t]][Bucket(t)]

\* What ppmb_write has to say of a picture: the header, three bytes a pixel.
Size(p) == p.xsize * p.ysize
Header(p) == <<Magic, Blank, Number(p.xsize), Blank, Number(p.ysize), Blank,
             Number(Maximum(p)), Blank>>
Dims(p) == <<p.xsize, p.ysize, Maximum(p)>>

\* The file is the beginning of that.
OnDisk ==
  /\ Len(disk) <= 8 + 3 * Size(picture)
  /\ \A j \in 1 .. 8 : j <= Len(disk) => disk[j] = Header(picture)[j]
  /\ \A k \in Pixels(picture), c \in Channel :
       8 + 3 * k + c <= Len(disk) => disk[8 + 3 * k + c] = Byte(picture.rgb[c][k])

\* As much of it as ppmb_write has written, unless the disk is full.
Written ==
  /\ at \in {"write test", "create"} => disk = <<>> /\ tell = 0
  /\ at = "write data" =>
       /\ tell <= Size(picture) /\ Len(disk) <= room
       /\ \/ Len(disk) = room /\ room <= 8 + 3 * tell
          \/ Len(disk) = 8 + 3 * tell
  /\ at = "open" => tell = 0
  /\ at \in {"write test", "create", "write data", "close", "open"} => NoRead

\* What ppmb_read has read of the header: an odd state is in the word of its number.
HeadRead ==
  /\ at = "header" => tell = state /\ data = <<>>
  /\ at = "header" /\ state \in {1, 3, 5, 7} => string = Header(picture)[state]
  /\ at \in {"header", "arrays", "data", "read", "passed"} =>
       \A j \in 1 .. Len(header) : header[j] = Dims(picture)[j]
  /\ at = "arrays" => tell = 8 /\ 8 <= Len(disk) /\ data = <<>>
  /\ at = "passed" => Len(header) = 3

\* What it has read of the pixels.
DataRead ==
  /\ at = "data" => tell = 8 + Len(data)
  /\ at \in {"data", "read", "passed"} =>
       /\ data \in Seq(Nat) /\ 8 + Len(data) <= Len(disk)
       /\ \A j \in 1 .. Len(data) : data[j] = disk[8 + j].val
  /\ at \in {"read", "passed"} => Len(data) = 3 * Size(picture)
  /\ at = "error" /\ Whole => tell \in {0, 8}

\* The file is one of ppmb_write, and ppmb_read reads it as it was written; or
\* it is not, or main has taken the picture, without which it does not start.
Mine == OnDisk /\ Written /\ HeadRead /\ DataRead
Foreign ==
  /\ disk \in ForeignFiles
  /\ at \notin {"write test", "create", "write data", "close"}
PictureInv ==
  /\ main # "read" => at = "over"
  /\ at = "over" \/ Mine \/ Foreign

TypeOK == FileOK /\ LockTypeOK /\ CountTypeOK /\ ScanOK
Locks == Mutex /\ FlagHeld /\ Served /\ Line /\ TicketPerPixel
IInv == TypeOK /\ Workers /\ Locks /\ Held /\ NothingLost
-----------------------------------------------------------------------------
(***************************************************************************)
(* The slices.                                                             *)
(***************************************************************************)

\* The length of a slice is a natural number.
LEMMA LenFacts ==
  ASSUME input.size \in Nat
  PROVE  LET q == SliceLen(input.size, threads)
         IN  q \in Nat /\ threads * q <= input.size
<1>1. \A a, b \in Nat : b > 0 => a \div b \in Nat /\ b * (a \div b) <= a
  OBVIOUS
<1>. QED
  BY <1>1, ThreadsAssumption DEF SliceLen

\* Multiplication by a natural number is monotonic.
LEMMA TimesMono ==
  ASSUME NEW a \in Nat, NEW b \in Nat, NEW q \in Nat, a <= b
  PROVE  a * q <= b * q
<1>1. b * q = a * q + (b - a) * q
  OBVIOUS
<1>2. (b - a) * q >= 0
  OBVIOUS
<1>. QED  BY <1>1, <1>2

\* A slice is a piece of the picture, and its end is not behind the next start.
LEMMA SlicesInRow ==
  ASSUME input.size \in Nat, NEW t \in Thread
  PROVE  /\ Start(t) \in 0 .. input.size /\ End(t) \in 0 .. input.size
         /\ Start(t) <= End(t)
         /\ \A u \in Thread : t < u => End(t) <= Start(u)
<1>. DEFINE q == SliceLen(input.size, threads)
<1>0. t \in Nat /\ t + 1 <= threads /\ threads \in Nat
  BY ThreadsAssumption DEF Thread
<1>1. q \in Nat /\ threads * q <= input.size
  BY LenFacts
<1>2. Start(t) = t * q /\ End(t) = IF t + 1 = threads THEN input.size ELSE t * q + q
  BY DEF Start, End, SliceStart, SliceEnd
<1>3. \A u \in Thread : Start(u) = u * q
  BY DEF Start, SliceStart
<1>. HIDE DEF q
<1>4. (t + 1) * q <= threads * q /\ t * q \in Nat /\ (t + 1) * q = t * q + q
  BY <1>0, <1>1, TimesMono
<1>5. ASSUME NEW u \in Thread, t < u
      PROVE  End(t) <= Start(u)
  <2>1. u \in Nat /\ t + 1 <= u /\ t + 1 # threads
    BY <1>0, <1>5 DEF Thread
  <2>2. (t + 1) * q <= u * q
    BY <1>0, <1>1, <2>1, TimesMono
  <2>. QED
    BY <1>2, <1>3, <1>4, <2>1, <2>2
<1>6. threads * q \in Nat
  BY <1>0, <1>1
<1>7. /\ Start(t) \in 0 .. input.size /\ End(t) \in 0 .. input.size
      /\ Start(t) <= End(t)
  BY <1>1, <1>2, <1>4, <1>6
<1>. QED
  BY <1>5, <1>7

\* No pixel is in two slices.
LEMMA OneSlice ==
  ASSUME input.size \in Nat, NEW t \in Thread, NEW u \in Thread, NEW p,
         p \in Start(t) .. End(t) - 1, p \in Start(u) .. End(u) - 1
  PROVE  t = u
<1>1. t \in Int /\ u \in Int
  BY DEF Thread
<1>2. /\ Start(t) \in Int /\ End(t) \in Int /\ Start(u) \in Int /\ End(u) \in Int
      /\ t < u => End(t) <= Start(u)
      /\ u < t => End(u) <= Start(t)
  BY SlicesInRow
<1>. QED
  BY <1>1, <1>2

\* The slices together are the picture.
LEMMA AllSlices ==
  ASSUME input.size \in Nat
  PROVE  UNION { Start(t) .. End(t) - 1 : t \in Thread } = 0 .. input.size - 1
<1>. DEFINE q == SliceLen(input.size, threads)
<1>0. threads \in Nat /\ threads > 0
  BY ThreadsAssumption
<1>1. q \in Nat
  BY LenFacts
<1>2. \A t \in Thread : /\ Start(t) = t * q
                        /\ End(t) = IF t + 1 = threads THEN input.size ELSE t * q + q
  BY DEF Start, End, SliceStart, SliceEnd
<1>. HIDE DEF q
<1>3. ASSUME NEW t \in Thread, NEW p \in Start(t) .. End(t) - 1
      PROVE  p \in 0 .. input.size - 1
  BY SlicesInRow
<1>4. ASSUME NEW p \in 0 .. input.size - 1
      PROVE  \E t \in Thread : p \in Start(t) .. End(t) - 1
  <2>0. p \in Nat
    OBVIOUS
  <2>1. CASE (threads - 1) * q <= p
    <3>1. threads - 1 \in Thread
      BY <1>0 DEF Thread
    <3>2. (threads - 1) * q \in Nat
      BY <1>0, <1>1
    <3>. QED
      BY <1>0, <1>2, <2>0, <2>1, <3>1, <3>2
  <2>2. CASE p < (threads - 1) * q
    <3>1. q > 0
      BY <1>0, <1>1, <2>0, <2>2
    <3>. DEFINE t == p \div q
    <3>2. t \in Nat /\ q * t <= p /\ p < q * t + q
      BY <1>1, <2>0, <3>1
    <3>. HIDE DEF t
    <3>3. q * t = t * q /\ t * q \in Nat
      BY <1>1, <3>2
    <3>4. t < threads - 1
      <4>1. SUFFICES ASSUME threads - 1 <= t PROVE FALSE
        BY <1>0, <3>2
      <4>2. (threads - 1) * q <= t * q /\ (threads - 1) * q \in Nat
        BY <1>0, <1>1, <3>2, <4>1, TimesMono
      <4>. QED
        BY <2>0, <2>2, <3>2, <3>3, <4>2
    <3>5. t \in Thread /\ t + 1 # threads
      BY <1>0, <3>2, <3>4 DEF Thread
    <3>6. Start(t) = t * q /\ End(t) = t * q + q
      BY <1>2, <3>5
    <3>. QED
      BY <1>1, <2>0, <3>2, <3>3, <3>5, <3>6
  <2>3. (threads - 1) * q \in Nat
    BY <1>0, <1>1
  <2>. QED
    BY <2>0, <2>1, <2>2, <2>3
<1>. QED
  BY <1>3, <1>4
-----------------------------------------------------------------------------
(***************************************************************************)
(* The largest value of a picture.                                         *)
(***************************************************************************)

\* A set of natural numbers that is not empty has a least element.
LEMMA Least ==
  ASSUME NEW T \in SUBSET Nat, T # {}
  PROVE  \E x \in T : \A y \in T : x <= y
<1>1. PICK x \in T : \A y \in T : ~(<<y, x>> \in OpToRel(<, Nat))
  BY WFMin, NatLessThanWellFounded
<1>2. \A y \in T : ~(y < x)
  BY <1>1 DEF OpToRel
<1>. QED
  BY <1>2

\* A finite set of natural numbers has a largest element: a smallest one that
\* has none, without one of its elements, would have one.
LEMMA MaxType ==
  ASSUME NEW S \in SUBSET Nat, IsFiniteSet(S), S # {}
  PROVE  Max(S) \in Nat /\ \A n \in S : Max(S) >= n
<1>. DEFINE HasMax(T) == \E x \in T : \A y \in T : x >= y
            Bad == { n \in Nat : \E T \in SUBSET S : T # {} /\ Cardinality(T) = n /\ ~HasMax(T) }
<1>1. SUFFICES HasMax(S)
  BY <1>1 DEF Max
<1>2. \A T \in SUBSET S : IsFiniteSet(T) /\ Cardinality(T) \in Nat
  BY FS_Subset, FS_CardinalityType
<1>3. SUFFICES ASSUME Bad # {} PROVE FALSE
  <2>1. \A T \in SUBSET S : T # {} /\ ~HasMax(T) => Cardinality(T) \in Bad
    BY <1>2
  <2>. QED
    BY <1>3, <2>1
<1>4. PICK n \in Bad : \A m \in Bad : n <= m
  <2>1. Bad \in SUBSET Nat
    OBVIOUS
  <2>. HIDE DEF Bad
  <2>. QED
    BY <1>3, <2>1, Least
<1>5. PICK T \in SUBSET S : T # {} /\ Cardinality(T) = n /\ ~HasMax(T)
  BY <1>4
<1>6. PICK x \in T : TRUE
  BY <1>5
<1>7. Cardinality(T \ {x}) = n - 1 /\ n \in Nat
  BY <1>2, <1>5, <1>6, FS_RemoveElement
<1>8. CASE T \ {x} = {}
  BY <1>5, <1>6, <1>8
<1>9. CASE T \ {x} # {}
  <2>1. T \ {x} \in SUBSET S
    OBVIOUS
  <2>2. n - 1 \in Nat
    BY <1>2, <1>7, <2>1
  <2>3. n - 1 \notin Bad
    BY <1>4, <1>7, <2>2
  <2>4. HasMax(T \ {x})
    BY <1>7, <1>9, <2>1, <2>2, <2>3
  <2>5. PICK y \in T \ {x} : \A z \in T \ {x} : y >= z
    BY <2>4
  <2>6. x \in Nat /\ y \in Nat /\ \A z \in T : z \in Nat
    BY <1>6
  <2>7. CASE y >= x
    BY <1>5, <2>5, <2>6, <2>7
  <2>8. CASE x >= y
    BY <1>5, <1>6, <2>5, <2>6, <2>8
  <2>. QED
    BY <2>6, <2>7, <2>8
<1>. QED
  BY <1>8, <1>9

\* The largest value of a picture is a number, and no value is larger.
LEMMA MaximumType ==
  ASSUME NEW p \in Pictures
  PROVE  /\ Maximum(p) \in Nat
         /\ \A c \in Channel, k \in Pixels(p) : p.rgb[c][k] <= Maximum(p)
<1>. DEFINE T == { p.rgb[c][k] : c \in Channel, k \in Pixels(p) }
            g == [z \in Channel \X Pixels(p) |-> p.rgb[z[1]][z[2]]]
<1>1. /\ p.xsize \in Nat /\ p.ysize \in Nat
      /\ p.rgb \in [Channel -> [0 .. p.xsize * p.ysize - 1 -> Nat]]
  BY PicturesAssumption
<1>2. p.xsize * p.ysize \in Int
  BY <1>1
<1>3. IsFiniteSet(Channel) /\ IsFiniteSet(Pixels(p))
  <2>1. IsFiniteSet(1 .. 3)
    <3>1. 1 \in Int /\ 3 \in Int
      OBVIOUS
    <3>. QED
      BY <3>1, FS_Interval, Zenon
  <2>2. p.xsize * p.ysize - 1 \in Int
    BY <1>2
  <2>3. IsFiniteSet(0 .. p.xsize * p.ysize - 1)
    BY <2>2, FS_Interval
  <2>. QED
    BY <2>1, <2>3 DEF Channel, Pixels
<1>4. IsFiniteSet(Channel \X Pixels(p))
  BY <1>3, FS_Product
<1>5. g \in Surjection(Channel \X Pixels(p), T)
  <2>1. g \in [Channel \X Pixels(p) -> T]
    OBVIOUS
  <2>2. ASSUME NEW v \in T
        PROVE  \E z \in Channel \X Pixels(p) : g[z] = v
    <3>1. PICK c \in Channel, k \in Pixels(p) : v = p.rgb[c][k]
      OBVIOUS
    <3>2. <<c, k>> \in Channel \X Pixels(p) /\ g[<<c, k>>] = p.rgb[c][k]
      OBVIOUS
    <3>. QED
      BY <3>1, <3>2
  <2>. HIDE DEF T, g
  <2>. QED
    BY <2>1, <2>2 DEF Surjection
<1>6. IsFiniteSet(T)
  BY <1>4, <1>5, FS_Surjection
<1>7. T \in SUBSET Nat
  BY <1>1 DEF Pixels
<1>. HIDE DEF T
<1>8. IsFiniteSet({0} \cup T) /\ {0} \cup T \in SUBSET Nat
  <2>1. IsFiniteSet({0})
    BY FS_Singleton
  <2>2. IsFiniteSet({0} \cup T)
    BY <1>6, <2>1, FS_Union
  <2>. QED
    BY <1>7, <2>2
<1>9. Max({0} \cup T) \in Nat /\ \A n \in T : Max({0} \cup T) >= n
  BY <1>8, MaxType
<1>10. \A c \in Channel, k \in Pixels(p) : p.rgb[c][k] \in T
  BY DEF T
<1>11. Maximum(p) = Max({0} \cup T)
  BY DEF Maximum, T
<1>12. \A n \in T : n \in Nat
  BY <1>7
<1>. QED
  BY <1>9, <1>10, <1>11, <1>12
-----------------------------------------------------------------------------
(***************************************************************************)
(* The file: what main takes has a size.                                   *)
(***************************************************************************)
LEMMA Elements ==
  /\ Magic \in Element /\ Word \in Element /\ Blank \in Element
  /\ \A v \in Nat : Byte(v) \in Element /\ Number(v) \in Element
<1>1. (CHOOSE s \in Spaces : TRUE) \in Nat
  BY FileAssumption
<1>. QED
  BY <1>1 DEF Element, Magic, Word, Blank, Byte, Number

\* What the disk keeps is made of elements.
LEMMA StoredType ==
  ASSUME disk \in Seq(Element), room \in Nat, NEW s \in Seq(Element)
  PROVE  Stored(s) \in Seq(Element)
<1>1. disk \o s \in Seq(Element)
  OBVIOUS
<1>2. \A a, b \in Nat : Min({a, b}) \in Nat /\ Min({a, b}) <= b
  <2>1. \A a, b \in Nat : \E x \in {a, b} : \A y \in {a, b} : x <= y
    OBVIOUS
  <2>. QED
    BY <2>1 DEF Min
<1>3. Len(disk \o s) \in Nat
  BY <1>1
<1>. DEFINE n == Min({room, Len(disk \o s)})
<1>4. n \in 0 .. Len(disk \o s)
  BY <1>2, <1>3
<1>. HIDE DEF n
<1>5. SubSeq(disk \o s, 1, n) \in Seq(Element)
  <2>1. \A w \in Seq(Element) : \A m \in 0 .. Len(w) : SubSeq(w, 1, m) \in Seq(Element)
    OBVIOUS
  <2>. QED
    BY <1>1, <1>4, <2>1
<1>. QED
  BY <1>5 DEF Stored, n

\* Writing keeps the file in order.
LEMMA WriteKeeps ==
  ASSUME FileTypeOK, WriteStep
  PROVE  FileTypeOK'
<1>2. CASE WriteTest
  BY <1>2 DEF FileTypeOK, WriteTest, Allocate, readVars
<1>3. CASE WriteHeader
  <2>. DEFINE s == <<Magic, Blank, Number(picture.xsize), Blank,
                     Number(picture.ysize), Blank, Number(Maximum(picture)), Blank>>
  <2>1. picture.xsize \in Nat /\ picture.ysize \in Nat /\ Maximum(picture) \in Nat
    BY PicturesAssumption, MaximumType DEF FileTypeOK
  <2>2. s \in Seq(Element)
    <3>1. /\ Magic \in Element /\ Blank \in Element /\ Number(picture.xsize) \in Element
          /\ Number(picture.ysize) \in Element /\ Number(Maximum(picture)) \in Element
      BY <2>1, Elements
    <3>. QED
      BY <3>1
  <2>. HIDE DEF s
  <2>3. Stored(s) \in Seq(Element)
    BY <2>2, StoredType DEF FileTypeOK
  <2>4. disk' \in Seq(Element)
    BY <1>3, <2>3 DEF FileTypeOK, WriteHeader, s
  <2>. QED
    BY <1>3, <2>4 DEF FileTypeOK, WriteHeader, readVars
<1>4. CASE WriteData
  <2>1. CASE tell < picture.xsize * picture.ysize
    <3>. DEFINE s == [c \in Channel |-> Byte(picture.rgb[c][tell])]
    <3>1. /\ picture.xsize \in Nat /\ picture.ysize \in Nat
          /\ picture.rgb \in [Channel -> [0 .. picture.xsize * picture.ysize - 1 -> Nat]]
      BY PicturesAssumption DEF FileTypeOK
    <3>2. tell \in 0 .. picture.xsize * picture.ysize - 1
      <4>1. tell \in Nat
        BY DEF FileTypeOK
      <4>2. picture.xsize * picture.ysize \in Nat
        BY <3>1
      <4>. QED
        BY <2>1, <4>1, <4>2
    <3>3. \A c \in Channel : picture.rgb[c][tell] \in Nat
      BY <3>1, <3>2
    <3>4. s \in [1 .. 3 -> Element]
      BY <3>3, Elements DEF Channel
    <3>5. s \in Seq(Element)
      <4>1. s = <<s[1], s[2], s[3]>>
        BY DEF Channel
      <4>2. s[1] \in Element /\ s[2] \in Element /\ s[3] \in Element
        BY <3>4
      <4>. HIDE DEF s
      <4>3. <<s[1], s[2], s[3]>> \in Seq(Element)
        BY <4>2
      <4>. QED
        BY <4>1, <4>3
    <3>. HIDE DEF s
    <3>6. Stored(s) \in Seq(Element)
      BY <3>5, StoredType DEF FileTypeOK
    <3>7. ~(tell >= picture.xsize * picture.ysize)
      <4>1. picture.xsize * picture.ysize \in Nat
        BY <3>1
      <4>2. tell \in Nat
        BY DEF FileTypeOK
      <4>. QED
        BY <2>1, <4>1, <4>2
    <3>8. tell' = tell + 1 /\ at' = at /\ disk' = Stored(s)
      BY <1>4, <3>7 DEF WriteData, s
    <3>9. UNCHANGED <<picture, room, state, string, header>>
      BY <1>4 DEF WriteData, readVars
    <3>. QED
      <4>0. tell \in Nat
        BY DEF FileTypeOK
      <4>1. disk' \in Seq(Element)
        BY <3>6, <3>8
      <4>2. tell' \in Nat /\ at' = "write data" /\ state < 8
        <5>1. at = "write data"
          BY <1>4 DEF WriteData
        <5>2. tell' = tell + 1
          BY <3>8
        <5>3. at' = at
          BY <3>8
        <5>4. tell' \in Nat
          BY <5>2, <4>0
        <5>5. at' = "write data"
          BY <5>1, <5>3
        <5>6. state < 8
          BY <5>1 DEF FileTypeOK
        <5>. QED
          BY <5>4, <5>5, <5>6
      <4>3. header' \in Seq(Nat) /\ Len(header') = Numbers(state')
        BY <3>9 DEF FileTypeOK
      <4>. QED
        BY <3>9, <4>1, <4>2, <4>3 DEF FileTypeOK
  <2>2. CASE tell >= picture.xsize * picture.ysize
    <3>1. UNCHANGED disk /\ UNCHANGED tell
      <4>1. picture.xsize \in Nat /\ picture.ysize \in Nat /\ tell \in Nat
        BY PicturesAssumption DEF FileTypeOK
      <4>2. picture.xsize * picture.ysize \in Nat
        BY <4>1
      <4>3. ~(tell < picture.xsize * picture.ysize)
        BY <2>2, <4>1, <4>2
      <4>. QED
        BY <1>4, <4>3 DEF WriteData
    <3>2. at' \in {"write data", "close"} /\ at = "write data"
      BY <1>4 DEF WriteData
    <3>3. UNCHANGED <<picture, room, state, string, header>>
      BY <1>4 DEF WriteData, readVars
    <3>. QED
      BY <3>1, <3>2, <3>3 DEF FileTypeOK
  <2>3. tell < picture.xsize * picture.ysize \/ tell >= picture.xsize * picture.ysize
    BY <1>4 DEF WriteData
  <2>. QED
    BY <2>1, <2>2, <2>3
<1>5. CASE WriteEnd
  BY <1>5 DEF FileTypeOK, WriteEnd, readVars
<1>. QED
  BY <1>2, <1>3, <1>4, <1>5 DEF WriteStep

\* Reading, too.
LEMMA ReadKeeps ==
  ASSUME FileTypeOK, ReadStep
  PROVE  FileTypeOK'
<1>2. CASE OpenFile
  BY <1>2 DEF FileTypeOK, OpenFile, readVars
<1>3. CASE ReadHeader
  <2>1. /\ UNCHANGED <<picture, disk, room>> /\ tell' = tell + 1 /\ tell \in Nat
        /\ at = "header" /\ state \in 0 .. 7
    BY <1>3 DEF FileTypeOK, ReadHeader, HeaderElement
  <2>2. CASE at' = "error" /\ UNCHANGED <<state, string, header>>
    BY <2>1, <2>2 DEF FileTypeOK
  <2>3. CASE /\ ~Eof
             /\ state' = IF state % 2 = 0 THEN state + 1 ELSE state
             /\ string' = IF state % 2 = 0 THEN Char ELSE Joined(string, Char)
             /\ UNCHANGED <<at, header>>
    <3>1. string' \in Element
      <4>1. Char \in Element
        BY <2>1, <2>3 DEF FileTypeOK, Char, Eof
      <4>2. Joined(string, Char) \in Element
        BY Elements DEF FileTypeOK, Joined
      <4>. QED
        BY <2>3, <4>1, <4>2
    <3>2. /\ state' \in 0 .. 7
          /\ (state' < 4 <=> state < 4) /\ (state' < 6 <=> state < 6)
      <4>1. \A m \in {1, 3, 5, 7} : m % 2 # 0
        OBVIOUS
      <4>. QED
        BY <2>1, <2>3, <4>1
    <3>3. state' \in 0 .. 7 /\ Numbers(state') = Numbers(state)
      BY <2>1, <3>2 DEF Numbers
    <3>. QED
      BY <2>1, <2>3, <3>1, <3>3 DEF FileTypeOK
  <2>4. CASE WordEnd /\ UNCHANGED string
    <3>1. CASE state = 1
      <4>1. /\ UNCHANGED header /\ at' \in {"error", "header"}
            /\ state' = 1 \/ state' = 2
        BY <2>1, <2>4, <3>1 DEF WordEnd
      <4>2. header' \in Seq(Nat) /\ Len(header') = Numbers(state')
        BY <3>1, <4>1 DEF FileTypeOK, Numbers
      <4>3. disk' \in Seq(Element) /\ room' \in Nat /\ picture' \in Pictures /\ string' \in Element
        BY <2>1, <2>4 DEF FileTypeOK
      <4>4. state' \in 0 .. 7 /\ tell' \in Nat
        BY <2>1, <4>1
      <4>5. at' \notin {"arrays", "data", "read"} /\ state' < 8
        BY <4>1, <4>4
      <4>6. state' \in 0 .. 8
        BY <4>4
      <4>. QED
        BY <4>2, <4>3, <4>4, <4>5, <4>6 DEF FileTypeOK
    <3>3. CASE at' = "undefined" /\ UNCHANGED <<state, header>>
      BY <2>1, <2>4, <3>3 DEF FileTypeOK
    <3>2. CASE /\ state \in {3, 5, 7} /\ state' = state + 1
               /\ \E n \in IF string.kind = "number" THEN {string.val} ELSE Leftovers :
                    header' = Append(header, n)
               /\ at' = IF state = 7 THEN "arrays" ELSE at
      <4>0. string.val \in Nat /\ Leftovers \subseteq Nat
        BY ForeignAssumption DEF FileTypeOK, Element
      <4>2. PICK n \in Nat : header' = Append(header, n)
        BY <3>2, <4>0
      <4>1. state' = state + 1 /\ at' = IF state = 7 THEN "arrays" ELSE at
        BY <3>2
      <4>3. header \in Seq(Nat) /\ Len(header) = Numbers(state)
        BY DEF FileTypeOK
      <4>4. header' \in Seq(Nat) /\ Len(header') = Len(header) + 1
        BY <4>2, <4>3
      <4>5. /\ state' \in 0 .. 8
            /\ Len(header') = Numbers(state')
            /\ at' \in {"arrays", "header"} /\ (at' = "arrays" => state' = 8) /\ (at' = "header" => state' < 8)
        BY <2>1, <3>2, <4>1, <4>3, <4>4 DEF Numbers
      <4>6. disk' \in Seq(Element) /\ room' \in Nat /\ picture' \in Pictures /\ string' \in Element
        BY <2>1, <2>4 DEF FileTypeOK
      <4>7. tell' \in Nat
        BY <2>1
      <4>8. at' \in {"arrays", "data", "read"} => state' = 8
        BY <4>5
      <4>9. at' \in {"write test", "create", "write data", "close", "open", "header"} => state' < 8
        BY <4>5
      <4>. QED
        BY <4>4, <4>5, <4>6, <4>7, <4>8, <4>9 DEF FileTypeOK
    <3>. QED
      BY <2>4, <3>1, <3>2, <3>3 DEF WordEnd
  <2>5. CASE UNCHANGED <<at, state, string, header>>
    BY <2>1, <2>5 DEF FileTypeOK
  <2>. QED
    BY <1>3, <2>2, <2>3, <2>4, <2>5 DEF ReadHeader, HeaderElement
<1>4. CASE ReadArrays
  BY <1>4 DEF FileTypeOK, ReadArrays, Allocate, readVars
<1>5. CASE ReadData
  <2>1. /\ at = "data" /\ at' \in {"error", "data", "read"} /\ (tell' = tell \/ tell' = tell + 1)
        /\ UNCHANGED <<picture, disk, room, state, string, header>>
    BY <1>5 DEF ReadData
  <2>2. /\ tell \in Nat /\ state = 8
    BY <2>1 DEF FileTypeOK
  <2>3. disk' \in Seq(Element)
    BY <2>1 DEF FileTypeOK
  <2>4. header' \in Seq(Nat)
    BY <2>1 DEF FileTypeOK
  <2>5. Len(header') = Numbers(state')
    BY <2>1 DEF FileTypeOK
  <2>6. tell' \in Nat
    BY <2>1, <2>2 DEF FileTypeOK
  <2>7. state' = 8 /\ picture' \in Pictures /\ room' \in Nat /\ string' \in Element
    BY <2>1, <2>2 DEF FileTypeOK
  <2>. QED
    BY <2>1, <2>2, <2>3, <2>4, <2>5, <2>6, <2>7 DEF FileTypeOK
<1>. QED
  BY <1>2, <1>3, <1>4, <1>5 DEF ReadStep

\* The picture that main takes has a size.
LEMMA SizeTaken ==
  ASSUME FileTypeOK, at = "read"
  PROVE  PictureRead.size \in Nat
<1>1. header \in Seq(Nat) /\ Len(header) = 3
  BY DEF FileTypeOK, Numbers
<1>2. header[1] \in Nat /\ header[2] \in Nat
  <2>1. \A k \in 1 .. Len(header) : header[k] \in Nat
    BY <1>1
  <2>. QED
    BY <1>1, <2>1
<1>3. header[1] * header[2] \in Nat
  BY <1>2
<1>. QED
  BY <1>3 DEF PictureRead
-----------------------------------------------------------------------------
(***************************************************************************)
(* The picture: the file is what ppmb_write says, and is read as such.     *)
(***************************************************************************)

\* A picture has pixels, and their values are between zero and the largest.
LEMMA PictureFacts ==
  ASSUME NEW p \in Pictures
  PROVE  /\ p.xsize \in Nat \ {0} /\ p.ysize \in Nat \ {0} /\ Maximum(p) \in Nat
         /\ Size(p) \in Nat \ {0}
         /\ Pixels(p) = 0 .. Size(p) - 1
         /\ 3 * p.xsize * p.ysize = 3 * Size(p)
         /\ p.rgb = [c \in Channel |-> [k \in Pixels(p) |-> p.rgb[c][k]]]
         /\ \A c \in Channel, k \in Pixels(p) :
              p.rgb[c][k] \in Nat /\ p.rgb[c][k] <= Maximum(p)
<1>1. /\ p.xsize \in Nat \ {0} /\ p.ysize \in Nat \ {0}
      /\ p.rgb \in [Channel -> [0 .. p.xsize * p.ysize - 1 -> Nat]]
  BY PicturesAssumption
<1>2. /\ Maximum(p) \in Nat
      /\ \A c \in Channel, k \in Pixels(p) : p.rgb[c][k] <= Maximum(p)
  BY MaximumType
<1>3. Size(p) \in Nat \ {0} /\ 3 * p.xsize * p.ysize = 3 * Size(p)
  <2>1. \A a, b \in Nat \ {0} : a * b \in Nat \ {0} /\ 3 * a * b = 3 * (a * b)
    OBVIOUS
  <2>. QED
    BY <1>1, <2>1 DEF Size
<1>4. Pixels(p) = 0 .. Size(p) - 1 /\ p.rgb \in [Channel -> [Pixels(p) -> Nat]]
  BY <1>1 DEF Pixels, Size
<1>5. \A c \in Channel, k \in Pixels(p) : p.rgb[c][k] \in Nat
  BY <1>4
<1>6. p.rgb = [c \in Channel |-> [k \in Pixels(p) |-> p.rgb[c][k]]]
  BY <1>4
<1>. QED
  BY <1>1, <1>2, <1>3, <1>4, <1>5, <1>6

\* What the disk keeps: what is there and what comes behind it, until it is full.
LEMMA StoredIs ==
  ASSUME disk \in Seq(Element), room \in Nat, NEW s \in Seq(Element), Len(disk) <= room
  PROVE  /\ Len(Stored(s)) = IF room <= Len(disk) + Len(s) THEN room ELSE Len(disk) + Len(s)
         /\ \A j \in 1 .. Len(Stored(s)) :
              Stored(s)[j] = IF j <= Len(disk) THEN disk[j] ELSE s[j - Len(disk)]
<1>. DEFINE w == disk \o s
            n == Min({room, Len(w)})
<1>1. /\ w \in Seq(Element) /\ Len(w) = Len(disk) + Len(s) /\ Len(disk) \in Nat /\ Len(s) \in Nat
      /\ \A j \in 1 .. Len(w) : w[j] = IF j <= Len(disk) THEN disk[j] ELSE s[j - Len(disk)]
  OBVIOUS
<1>. HIDE DEF w
<1>2. \A a, b \in Nat : Min({a, b}) = IF a <= b THEN a ELSE b
  <2>1. \A a, b \in Nat : \E x \in {a, b} : \A y \in {a, b} : x <= y
    OBVIOUS
  <2>2. ASSUME NEW a \in Nat, NEW b \in Nat
        PROVE  Min({a, b}) \in {a, b} /\ Min({a, b}) <= a /\ Min({a, b}) <= b
    BY <2>1 DEF Min
  <2>3. ASSUME NEW a \in Nat, NEW b \in Nat
        PROVE  Min({a, b}) = IF a <= b THEN a ELSE b
    <3>1. Min({a, b}) \in {a, b} /\ Min({a, b}) <= a /\ Min({a, b}) <= b
      BY <2>2
    <3>. QED
      BY <3>1
  <2>. QED
    BY <2>3
<1>3. Len(w) \in Nat
  BY <1>1
<1>4. n = IF room <= Len(w) THEN room ELSE Len(w)
  BY <1>2, <1>3
<1>5. n \in 0 .. Len(w)
  BY <1>3, <1>4
<1>. HIDE DEF n
<1>6. Len(SubSeq(w, 1, n)) = n /\ \A j \in 1 .. n : SubSeq(w, 1, n)[j] = w[j]
  BY <1>1, <1>5
<1>7. Stored(s) = SubSeq(w, 1, n)
  BY DEF Stored, w, n
<1>. QED
  BY <1>1, <1>4, <1>5, <1>6, <1>7

\* The header is eight elements: no word of it is white space.
LEMMA HeaderFacts ==
  ASSUME NEW p \in Pictures
  PROVE  /\ Header(p) \in Seq(Element) /\ Len(Header(p)) = 8
         /\ \A j \in {1, 3, 5, 7} : ~isspace(Header(p)[j])
         /\ \A j \in {2, 4, 6, 8} : isspace(Header(p)[j])
         /\ Header(p)[1].kind = "magic"
         /\ \A j \in {1, 2, 3} : Header(p)[2 * j + 1].val = Dims(p)[j]
         /\ \A j \in {3, 5, 7} : Header(p)[j].kind = "number"
<1>1. /\ Magic \in Element /\ Blank \in Element /\ Number(p.xsize) \in Element
      /\ Number(p.ysize) \in Element /\ Number(Maximum(p)) \in Element
  BY PictureFacts, Elements
<1>2. Header(p) \in Seq(Element) /\ Len(Header(p)) = 8
  BY <1>1 DEF Header
<1>3. /\ Header(p)[1] = Magic /\ Header(p)[2] = Blank /\ Header(p)[3] = Number(p.xsize)
      /\ Header(p)[4] = Blank /\ Header(p)[5] = Number(p.ysize) /\ Header(p)[6] = Blank
      /\ Header(p)[7] = Number(Maximum(p)) /\ Header(p)[8] = Blank
  BY DEF Header
<1>4. isspace(Blank)
  <2>1. (CHOOSE s \in Spaces : TRUE) \in Spaces
    BY FileAssumption
  <2>. QED
    BY <2>1 DEF isspace, Blank, Byte
<1>5. ~isspace(Magic) /\ \A n : ~isspace(Number(n))
  BY DEF isspace, Magic, Number
<1>6. \A j \in {1, 3, 5, 7} : ~isspace(Header(p)[j])
  BY <1>3, <1>5
<1>7. \A j \in {2, 4, 6, 8} : isspace(Header(p)[j])
  BY <1>3, <1>4
<1>8. Header(p)[1].kind = "magic"
  BY <1>3 DEF Magic
<1>9. \A j \in {1, 2, 3} : Header(p)[2 * j + 1].val = Dims(p)[j]
  <2>1. Dims(p)[1] = p.xsize /\ Dims(p)[2] = p.ysize /\ Dims(p)[3] = Maximum(p)
    BY DEF Dims
  <2>2. 2 * 1 + 1 = 3 /\ 2 * 2 + 1 = 5 /\ 2 * 3 + 1 = 7
    OBVIOUS
  <2>3. /\ Header(p)[3].val = p.xsize /\ Header(p)[5].val = p.ysize
        /\ Header(p)[7].val = Maximum(p)
    BY <1>3 DEF Number
  <2>. QED
    BY <2>1, <2>2, <2>3
<1>10. \A j \in {3, 5, 7} : Header(p)[j].kind = "number"
  BY <1>3 DEF Number
<1>. QED
  BY <1>2, <1>6, <1>7, <1>8, <1>9, <1>10

\* The bytes of a pixel.
LEMMA PixelBytes ==
  ASSUME NEW p \in Pictures, NEW k \in Nat, k < Size(p)
  PROVE  LET s == [c \in Channel |-> Byte(p.rgb[c][k])]
         IN  s \in Seq(Element) /\ Len(s) = 3 /\ \A c \in Channel : s[c] = Byte(p.rgb[c][k])
<1>. DEFINE s == [c \in Channel |-> Byte(p.rgb[c][k])]
<1>1. k \in Pixels(p)
  <2>1. Size(p) \in Nat /\ Pixels(p) = 0 .. Size(p) - 1
    BY PictureFacts
  <2>. QED
    BY <2>1
<1>2. \A c \in Channel : s[c] = Byte(p.rgb[c][k]) /\ s[c] \in Element
  BY <1>1, PictureFacts, Elements
<1>3. s = <<s[1], s[2], s[3]>>
  BY DEF Channel
<1>4. s[1] \in Element /\ s[2] \in Element /\ s[3] \in Element
  BY <1>2 DEF Channel
<1>. HIDE DEF s
<1>5. <<s[1], s[2], s[3]>> \in Seq(Element) /\ Len(<<s[1], s[2], s[3]>>) = 3
  BY <1>4
<1>. QED
  BY <1>2, <1>3, <1>5 DEF s

\* ppmb_write keeps to what it has to say of the picture.
LEMMA MineWrite ==
  ASSUME FileTypeOK, Mine, WriteStep
  PROVE  Mine'
<1>. DEFINE N == Size(picture)
<1>0. /\ N \in Nat /\ Pixels(picture) = 0 .. N - 1 /\ picture.xsize * picture.ysize = N
      /\ disk \in Seq(Element) /\ Len(disk) \in Nat /\ room \in Nat /\ tell \in Nat
      /\ picture \in Pictures /\ N = Size(picture)
  <2>1. disk \in Seq(Element) /\ room \in Nat /\ tell \in Nat /\ picture \in Pictures
    BY DEF FileTypeOK
  <2>2. N \in Nat /\ Pixels(picture) = 0 .. N - 1
    BY <2>1, PictureFacts
  <2>3. picture.xsize * picture.ysize = N
    BY DEF Size
  <2>4. Len(disk) \in Nat
    BY <2>1
  <2>. QED
    BY <2>1, <2>2, <2>3, <2>4
<1>1. /\ UNCHANGED picture /\ at \in {"write test", "create", "write data", "close"}
      /\ UNCHANGED <<room, state, string, header, data>>
  BY DEF WriteStep, WriteTest, Allocate, WriteHeader, WriteData, WriteEnd, readVars
<1>2. at' \in {"write test", "create", "write data", "close", "open"}
  BY <1>1 DEF WriteStep, WriteTest, Allocate, WriteHeader, WriteData, WriteEnd
<1>3. NoRead'
  BY <1>1 DEF Mine, Written, NoRead
<1>4. HeadRead' /\ DataRead'
  BY <1>2 DEF HeadRead, DataRead
<1>5. /\ Size(picture)' = N /\ Header(picture)' = Header(picture)
      /\ Pixels(picture)' = Pixels(picture)
  <2>1. picture' = picture
    BY <1>1
  <2>. QED
    BY <2>1 DEF Size, Header, Pixels, Maximum
<1>. HIDE DEF N
<1>6. CASE UNCHANGED disk /\ at' \in {"write test", "create", "close", "open"}
  <2>1. OnDisk'
    BY <1>1, <1>5, <1>6 DEF Mine, OnDisk, N
  <2>2. CASE WriteTest
    <3>1. tell' = tell /\ tell = 0 /\ disk = <<>>
      BY <2>2 DEF Mine, Written, WriteTest, Allocate
    <3>. QED
      BY <1>3, <1>4, <1>6, <2>1, <3>1 DEF Mine, Written
  <2>3. CASE at' = "close"
    BY <1>3, <1>4, <2>1, <2>3 DEF Mine, Written
  <2>4. CASE WriteEnd
    BY <1>3, <1>4, <2>1, <2>4 DEF Mine, Written, WriteEnd
  <2>5. WriteTest \/ WriteEnd \/ at' = "close"
    BY <1>6 DEF WriteStep, WriteHeader, WriteData
  <2>. QED
    BY <2>2, <2>3, <2>4, <2>5
<1>7. CASE WriteHeader /\ at' = "write data"
  <2>1. disk = <<>> /\ tell = 0 /\ tell' = tell /\ at' = "write data" /\ Len(disk) = 0
    BY <1>7 DEF WriteHeader, Mine, Written
  <2>9. N \in Nat /\ room \in Nat /\ room' = room
    BY <1>0, <1>1
  <2>10. tell' = 0 /\ Len(disk) = 0
    BY <2>1
  <2>2. Len(Header(picture)) = 8 /\ Header(picture) \in Seq(Element)
    BY <1>0, HeaderFacts
  <2>3. disk' = Stored(Header(picture))
    BY <1>7 DEF WriteHeader, Header
  <2>4. /\ Len(disk') = IF room <= 8 THEN room ELSE 8
        /\ \A j \in 1 .. Len(disk') : disk'[j] = Header(picture)[j]
    <3>0. Len(disk) <= room
      BY <2>9, <2>10
    <3>1. disk \in Seq(Element) /\ room \in Nat /\ Len(disk) <= room
      BY <1>0, <3>0
    <3>2. /\ Len(disk') = IF room <= Len(disk) + 8 THEN room ELSE Len(disk) + 8
          /\ \A j \in 1 .. Len(disk') :
               disk'[j] = IF j <= Len(disk) THEN disk[j] ELSE Header(picture)[j - Len(disk)]
      BY <2>2, <2>3, <3>1, StoredIs
    <3>3. \A j \in 1 .. Len(disk') : ~(j <= 0) /\ j - 0 = j
      OBVIOUS
    <3>4. room <= Len(disk) + 8 <=> room <= 8
      BY <2>9, <2>10
    <3>5. Len(disk) + 8 = 8
      BY <2>10
    <3>6. \A j \in 1 .. Len(disk') : disk'[j] = Header(picture)[j]
      BY <2>10, <3>2, <3>3
    <3>. QED
      BY <3>2, <3>4, <3>5, <3>6
  <2>5. Len(disk') \in Nat /\ Len(disk') <= 8 /\ Len(disk') <= room
    BY <1>0, <2>4
  <2>6. OnDisk'
    <3>1. \A j \in 1 .. 8 : j <= Len(disk') => disk'[j] = Header(picture)[j]
      BY <2>4, <2>5
    <3>2. \A k \in Pixels(picture), c \in Channel : ~(8 + 3 * k + c <= Len(disk'))
      BY <1>0, <2>5 DEF Channel
    <3>3. Len(disk') <= 8 + 3 * N
      BY <2>5, <2>9
    <3>4. picture' = picture
      BY <1>1
    <3>. QED
      BY <1>5, <3>1, <3>2, <3>3, <3>4 DEF OnDisk
  <2>7. Written'
    <3>1. Len(disk') = room \/ Len(disk') = 8
      BY <2>4
    <3>2. tell' <= N /\ room' = room /\ 8 + 3 * tell' = 8
      BY <2>9, <2>10
    <3>3. \/ Len(disk') = room' /\ room' <= 8 + 3 * tell'
          \/ Len(disk') = 8 + 3 * tell'
      BY <2>5, <3>1, <3>2
    <3>. QED
      BY <1>3, <1>5, <2>1, <2>5, <3>2, <3>3 DEF Written
  <2>. QED
    BY <1>4, <2>6, <2>7 DEF Mine
<1>8. CASE WriteData /\ at' = "write data"
  <2>1. tell < N /\ tell' = tell + 1 /\ at = "write data" /\ at' = "write data"
    BY <1>0, <1>8 DEF WriteData
  <2>12. tell \in Nat /\ N \in Nat /\ room \in Nat /\ Len(disk) \in Nat /\ room' = room
    BY <1>0, <1>1
  <2>13. tell < N /\ tell' = tell + 1
    BY <2>1
  <2>2. /\ tell <= N /\ Len(disk) <= room
        /\ \/ Len(disk) = room /\ room <= 8 + 3 * tell
           \/ Len(disk) = 8 + 3 * tell
    BY <1>0, <2>1 DEF Mine, Written
  <2>. DEFINE s == [c \in Channel |-> Byte(picture.rgb[c][tell])]
  <2>0. tell \in Nat /\ tell < Size(picture) /\ picture \in Pictures
    BY <1>0, <2>1
  <2>3. s \in Seq(Element) /\ Len(s) = 3 /\ \A c \in Channel : s[c] = Byte(picture.rgb[c][tell])
    BY <2>0, PixelBytes
  <2>. HIDE DEF s
  <2>4. disk' = Stored(s)
    BY <1>8, <2>1 DEF WriteData, s
  <2>5. /\ Len(disk') = IF room <= Len(disk) + 3 THEN room ELSE Len(disk) + 3
        /\ \A j \in 1 .. Len(disk') : disk'[j] = IF j <= Len(disk) THEN disk[j] ELSE s[j - Len(disk)]
    BY <1>0, <2>2, <2>3, <2>4, StoredIs
  <2>6. Len(disk') \in Nat /\ Len(disk') <= Len(disk) + 3 /\ Len(disk) <= Len(disk') /\ Len(disk') <= room
    BY <1>0, <2>2, <2>5
  <2>7. Len(disk') <= 8 + 3 * N
    <3>1. tell + 1 <= N
      BY <2>12, <2>13
    <3>2. Len(disk) <= 8 + 3 * tell
      BY <2>2, <2>12
    <3>3. 8 + 3 * tell + 3 <= 8 + 3 * N
      BY <2>12, <3>1
    <3>. QED
      BY <2>6, <2>12, <3>2, <3>3
  <2>8. ASSUME NEW j \in 1 .. 8, j <= Len(disk')
        PROVE  disk'[j] = Header(picture)[j]
    <3>1. j <= Len(disk)
      BY <1>0, <2>2, <2>5, <2>6, <2>8
    <3>2. disk'[j] = disk[j]
      BY <2>5, <2>6, <2>8, <3>1
    <3>. QED
      BY <3>1, <3>2 DEF Mine, OnDisk
  <2>9. ASSUME NEW k \in Pixels(picture), NEW c \in Channel, 8 + 3 * k + c <= Len(disk')
        PROVE  disk'[8 + 3 * k + c] = Byte(picture.rgb[c][k])
    <3>1. k \in Nat /\ c \in 1 .. 3 /\ 8 + 3 * k + c \in 1 .. Len(disk')
      BY <1>0, <2>6, <2>9 DEF Channel
    <3>2. CASE 8 + 3 * k + c <= Len(disk)
      <4>1. disk'[8 + 3 * k + c] = disk[8 + 3 * k + c]
        BY <2>5, <3>1, <3>2
      <4>. QED
        BY <3>2, <4>1 DEF Mine, OnDisk
    <3>3. CASE ~(8 + 3 * k + c <= Len(disk))
      <4>1. Len(disk) = 8 + 3 * tell
        BY <1>0, <2>2, <2>6, <2>9, <3>1, <3>3
      <4>2. k = tell /\ 8 + 3 * k + c - Len(disk) = c
        BY <1>0, <2>6, <2>9, <3>1, <3>3, <4>1
      <4>3. disk'[8 + 3 * k + c] = s[8 + 3 * k + c - Len(disk)]
        BY <2>5, <3>1, <3>3
      <4>. QED
        BY <2>3, <4>2, <4>3
    <3>. QED
      BY <3>2, <3>3
  <2>10. OnDisk'
    BY <1>1, <1>5, <2>7, <2>8, <2>9 DEF OnDisk
  <2>11. Written'
    <3>1. \/ Len(disk') = room' /\ room' <= 8 + 3 * tell'
          \/ Len(disk') = 8 + 3 * tell'
      <4>1. Len(disk') = IF room <= Len(disk) + 3 THEN room ELSE Len(disk) + 3
        BY <2>5
      <4>2. 8 + 3 * (tell + 1) = 8 + 3 * tell + 3
        BY <2>12
      <4>. QED
        BY <2>2, <2>12, <2>13, <4>1, <4>2
    <3>2. tell' <= N /\ Len(disk') <= room'
      BY <2>6, <2>12, <2>13
    <3>. QED
      BY <1>3, <1>5, <2>1, <3>1, <3>2 DEF Written
  <2>. QED
    BY <1>4, <2>10, <2>11 DEF Mine
<1>9. \/ UNCHANGED disk /\ at' \in {"write test", "create", "close", "open"}
      \/ WriteHeader /\ at' = "write data"
      \/ WriteData /\ at' = "write data"
  BY <1>0 DEF WriteStep, WriteTest, Allocate, WriteHeader, WriteData, WriteEnd
<1>. QED
  BY <1>6, <1>7, <1>8, <1>9

\* ppmb_read_header finds the header of ppmb_write.
LEMMA MineHeader ==
  ASSUME FileTypeOK, Mine, ReadHeader
  PROVE  HeadRead' /\ DataRead'
<1>. DEFINE N == Size(picture)
            e == Header(picture)[state + 1]
<1>0. /\ at = "header" /\ tell = state /\ state \in 0 .. 7 /\ data = <<>> /\ tell' = tell + 1
      /\ UNCHANGED <<picture, disk, room, held, data>>
      /\ picture \in Pictures
  BY DEF ReadHeader, HeaderElement, FileTypeOK, Mine, HeadRead
<1>1. /\ Header(picture)' = Header(picture) /\ Dims(picture)' = Dims(picture) /\ Whole' = Whole
  <2>1. picture' = picture /\ disk' = disk
    BY <1>0
  <2>. QED
    BY <2>1 DEF Header, Dims, Maximum, Pixels, Whole
<1>2. header \in Seq(Nat) /\ Len(header) = Numbers(state) /\ Len(disk) \in Nat
  <2>1. header \in Seq(Nat) /\ Len(header) = Numbers(state) /\ disk \in Seq(Element)
    BY DEF FileTypeOK
  <2>2. Len(disk) \in Nat
    BY <2>1
  <2>. QED
    BY <2>1, <2>2
<1>3. \A j \in 1 .. Len(header) : header[j] = Dims(picture)[j]
  BY <1>0 DEF Mine, HeadRead
<1>4. ~Eof => Char = e
  <2>1. SUFFICES ASSUME ~(state >= Len(disk)) PROVE disk[state + 1] = Header(picture)[state + 1]
    BY <1>0 DEF Eof, Char
  <2>2. state + 1 \in 1 .. 8 /\ state + 1 <= Len(disk)
    BY <1>0, <1>2, <2>1
  <2>. QED
    BY <2>2 DEF Mine, OnDisk
<1>5. isspace(e) <=> state \in {1, 3, 5, 7}
  <2>1. state + 1 \in {1, 3, 5, 7} \/ state + 1 \in {2, 4, 6, 8}
    BY <1>0
  <2>2. state + 1 \in {2, 4, 6, 8} <=> state \in {1, 3, 5, 7}
    BY <1>0
  <2>3. state + 1 \in {1, 3, 5, 7} => state \notin {1, 3, 5, 7}
    BY <1>0
  <2>. QED
    BY <1>0, <2>1, <2>2, <2>3, HeaderFacts
<1>. HIDE DEF e
<1>6. CASE /\ ~Eof => state = 0 /\ isspace(Char)
           /\ at' = "error"
  <2>1. Eof
    BY <1>4, <1>5, <1>6
  <2>2. Len(disk) <= 7
    BY <1>0, <1>2, <2>1 DEF Eof
  <2>3. ~Whole
    <3>1. Size(picture) \in Nat /\ 3 * picture.xsize * picture.ysize = 3 * Size(picture)
      BY <1>0, PictureFacts
    <3>2. ~(Len(disk) = 8 + 3 * Size(picture))
      BY <1>2, <2>2, <3>1
    <3>. QED
      BY <3>1, <3>2 DEF Whole
  <2>. QED
    BY <1>1, <1>6, <2>3 DEF HeadRead, DataRead
<1>7. CASE /\ ~Eof /\ ~isspace(Char)
           /\ state' = IF state % 2 = 0 THEN state + 1 ELSE state
           /\ string' = IF state % 2 = 0 THEN Char ELSE Joined(string, Char)
           /\ UNCHANGED <<at, header>>
  <2>1. state \in {0, 2, 4, 6} /\ Char = e
    BY <1>0, <1>4, <1>5, <1>7
  <2>2. state' = state + 1 /\ string' = Char
    <3>1. \A m \in {0, 2, 4, 6} : m % 2 = 0
      OBVIOUS
    <3>. QED
      BY <1>7, <2>1, <3>1
  <2>3. tell' = state' /\ data' = <<>>
    BY <1>0, <2>2
  <2>4. string' = Header(picture)[state']
    BY <1>7, <2>1, <2>2 DEF e
  <2>5. \A j \in 1 .. Len(header') : header'[j] = Dims(picture)[j]
    BY <1>3, <1>7
  <2>6. at' = "header"
    BY <1>0, <1>7
  <2>. QED
    BY <1>1, <2>3, <2>4, <2>5, <2>6 DEF HeadRead, DataRead
<1>8. CASE ~Eof /\ state \in {1, 3, 5, 7} /\ WordEnd
  <2>1. string = Header(picture)[state]
    BY <1>0, <1>8 DEF Mine, HeadRead
  <2>2. CASE state = 1
    <3>1. string.kind = "magic"
      BY <1>0, <2>1, <2>2, HeaderFacts
    <3>2. state' = 2 /\ at' = at /\ header' = header
      BY <1>8, <2>2, <3>1 DEF WordEnd
    <3>3. tell' = state' /\ data' = <<>>
      BY <1>0, <2>2, <3>2
    <3>4. at' = "header" /\ state' \notin {1, 3, 5, 7}
      BY <1>0, <3>2
    <3>5. \A j \in 1 .. Len(header') : header'[j] = Dims(picture)[j]
      BY <1>3, <3>2
    <3>. QED
      BY <1>1, <3>3, <3>4, <3>5 DEF HeadRead, DataRead
  <2>3. CASE state \in {3, 5, 7}
    <3>0. string.kind = "number"
      BY <1>0, <2>1, <2>3, HeaderFacts
    <3>1. /\ header' = Append(header, string.val) /\ state' = state + 1
          /\ at' = IF state = 7 THEN "arrays" ELSE at
      BY <1>8, <2>3, <3>0 DEF WordEnd
    <3>. DEFINE l == Len(header) + 1
    <3>2. l \in {1, 2, 3} /\ state = 2 * l + 1
      BY <1>2, <2>3 DEF Numbers
    <3>3. string.val = Dims(picture)[l]
      <4>. HIDE DEF l
      <4>. QED
        BY <1>0, <2>1, <3>2, HeaderFacts
    <3>4. string.val \in Nat
      BY DEF FileTypeOK, Element
    <3>5. Len(header') = l /\ \A j \in 1 .. l : header'[j] = IF j = l THEN string.val ELSE header[j]
      BY <1>2, <3>1, <3>4
    <3>6. \A j \in 1 .. Len(header') : header'[j] = Dims(picture)[j]
      <4>1. \A j \in 1 .. l : j = l \/ j \in 1 .. Len(header)
        BY <1>2
      <4>. HIDE DEF l
      <4>. QED
        BY <1>3, <3>3, <3>5, <4>1
    <3>7. tell' = state' /\ state' \in {4, 6, 8} /\ (state = 7 => tell' = 8)
      BY <1>0, <2>3, <3>1
    <3>8. state' \notin {1, 3, 5, 7}
      BY <3>7
    <3>9. state = 7 => 8 <= Len(disk')
      BY <1>0, <1>2, <1>8 DEF Eof
    <3>10. at' = "header" \/ (at' = "arrays" /\ state = 7)
      BY <1>0, <3>1
    <3>11. data' = <<>>
      BY <1>0
    <3>. QED
      BY <1>1, <3>6, <3>7, <3>8, <3>9, <3>10, <3>11 DEF HeadRead, DataRead
  <2>. QED
    BY <1>8, <2>2, <2>3
<1>9. ~(~Eof /\ isspace(Char) /\ state \in {2, 4, 6})
  BY <1>4, <1>5
<1>10. state % 2 = 1 => state \in {1, 3, 5, 7}
  <2>1. \A m \in {0, 2, 4, 6} : m % 2 # 1
    OBVIOUS
  <2>2. state \in {0, 2, 4, 6} \/ state \in {1, 3, 5, 7}
    BY <1>0
  <2>. QED
    BY <2>1, <2>2
<1>. QED
  BY <1>6, <1>7, <1>8, <1>9, <1>10 DEF ReadHeader, HeaderElement

\* ppmb_read_data finds the bytes behind it.
LEMMA MineData ==
  ASSUME FileTypeOK, Mine, ReadData
  PROVE  HeadRead' /\ DataRead'
<1>. DEFINE N == Size(picture)
<1>0. /\ at = "data" /\ tell = 8 + Len(data) /\ UNCHANGED <<picture, disk, header>>
      /\ picture \in Pictures /\ data \in Seq(Nat) /\ Len(data) \in Nat
  <2>1. at = "data" /\ UNCHANGED <<picture, disk, header>>
    BY DEF ReadData
  <2>2. tell = 8 + Len(data) /\ data \in Seq(Nat) /\ picture \in Pictures
    BY <2>1 DEF Mine, DataRead, FileTypeOK
  <2>. QED
    BY <2>1, <2>2
<1>1. N \in Nat /\ 3 * picture.xsize * picture.ysize = 3 * N
  BY <1>0, PictureFacts
<1>2. 3 * header[1] * header[2] = 3 * N /\ Len(header) = 3
  <2>1. Len(header) = 3
    BY <1>0 DEF FileTypeOK, Numbers
  <2>2. header[1] = picture.xsize /\ header[2] = picture.ysize
    BY <1>0, <2>1 DEF Mine, HeadRead, Dims
  <2>. QED
    BY <1>1, <2>1, <2>2
<1>3. /\ Len(disk) \in Nat /\ 8 + Len(data) <= Len(disk) /\ Len(disk) <= 8 + 3 * N
      /\ \A j \in 1 .. Len(data) : data[j] = disk[8 + j].val
  BY <1>0 DEF Mine, OnDisk, DataRead, FileTypeOK
<1>4. Dims(picture)' = Dims(picture) /\ Whole' = Whole /\ Size(picture)' = N
  <2>1. picture' = picture /\ disk' = disk
    BY <1>0
  <2>. QED
    BY <2>1 DEF Dims, Maximum, Pixels, Whole, Size
<1>5. Whole <=> Len(disk) = 8 + 3 * N
  BY <1>1 DEF Whole
<1>. HIDE DEF N
<1>6. at' = "error" \/ HeadRead'
  <2>1. at' \in {"error", "data", "read"}
    BY DEF ReadData
  <2>2. \A j \in 1 .. Len(header') : header'[j] = Dims(picture)[j]
    BY <1>0 DEF Mine, HeadRead
  <2>. QED
    BY <1>4, <2>1, <2>2 DEF HeadRead
<1>7. CASE Len(data) < 3 * N /\ Eof /\ at' = "error"
  <2>1. ~Whole
    BY <1>0, <1>1, <1>3, <1>5, <1>7 DEF Eof
  <2>. QED
    BY <1>4, <1>7, <2>1 DEF HeadRead, DataRead
<1>8. CASE ~Eof /\ data' = Append(data, Char.val) /\ UNCHANGED at /\ tell' = tell + 1
  <2>1. tell + 1 \in 1 .. Len(disk) /\ tell + 1 = 8 + (Len(data) + 1)
    BY <1>0, <1>3, <1>8 DEF Eof
  <2>2. Char.val \in Nat
    <3>1. disk \in Seq(Element)
      BY DEF FileTypeOK
    <3>2. disk[tell + 1] \in Element
      BY <2>1, <3>1
    <3>. QED
      BY <3>2 DEF Element, Char
  <2>3. /\ data' \in Seq(Nat) /\ Len(data') = Len(data) + 1
        /\ \A j \in 1 .. Len(data') : data'[j] = IF j = Len(data) + 1 THEN Char.val ELSE data[j]
    BY <1>0, <1>8, <2>2
  <2>4. \A j \in 1 .. Len(data') : data'[j] = disk[8 + j].val
    <3>1. \A j \in 1 .. Len(data') : j = Len(data) + 1 \/ j \in 1 .. Len(data)
      BY <1>0, <2>3
    <3>2. Char.val = disk[8 + (Len(data) + 1)].val
      BY <2>1 DEF Char
    <3>. QED
      BY <1>3, <2>3, <3>1, <3>2
  <2>5. tell' = 8 + Len(data') /\ 8 + Len(data') <= Len(disk)
    <3>1. tell + 1 <= Len(disk)
      BY <2>1
    <3>. QED
      BY <1>8, <2>1, <2>3, <3>1
  <2>6. at' = "data" /\ disk' = disk
    BY <1>0, <1>8
  <2>. QED
    BY <1>6, <2>3, <2>4, <2>5, <2>6 DEF DataRead
<1>9. CASE Len(data) >= 3 * N /\ at' = "read" /\ UNCHANGED <<tell, data>>
  <2>1. Len(data) = 3 * N
    BY <1>0, <1>1, <1>3, <1>9
  <2>2. data' = data /\ disk' = disk
    BY <1>0, <1>9
  <2>. QED
    BY <1>0, <1>3, <1>4, <1>6, <1>9, <2>1, <2>2 DEF DataRead
<1>. QED
  BY <1>2, <1>7, <1>8, <1>9 DEF ReadData

\* ppmb_read and ppmb_read_test keep to the file.
LEMMA MineRead ==
  ASSUME FileTypeOK, Mine, ReadStep \/ ReadTest
  PROVE  Mine'
<1>1. /\ UNCHANGED <<picture, disk, room>>
      /\ at' \in {"header", "arrays", "data", "read", "error", "passed", "bad", "undefined"}
  BY DEF ReadStep, OpenFile, ReadHeader, HeaderElement, WordEnd, ReadArrays, Allocate, ReadData, ReadTest
<1>2. OnDisk' /\ Written'
  <2>1. OnDisk'
    <3>1. picture' = picture /\ disk' = disk
      BY <1>1
    <3>. QED
      BY <3>1 DEF Mine, OnDisk, Size, Header, Maximum, Pixels
  <2>2. Written'
    BY <1>1 DEF Written
  <2>. QED
    BY <2>1, <2>2
<1>3. Dims(picture)' = Dims(picture) /\ Whole' = Whole /\ Size(picture)' = Size(picture)
  <2>1. picture' = picture /\ disk' = disk
    BY <1>1
  <2>. QED
    BY <2>1 DEF Dims, Maximum, Pixels, Whole, Size
<1>4. CASE OpenFile
  <2>1. tell = 0 /\ NoRead /\ UNCHANGED <<tell, state, string, header, data>>
    BY <1>4 DEF OpenFile, Mine, Written, readVars
  <2>2. tell' = 0 /\ state' = 0 /\ header' = <<>> /\ data' = <<>>
    BY <2>1 DEF NoRead
  <2>3. \A j \in 1 .. Len(header') : header'[j] = Dims(picture)[j]
    BY <2>2
  <2>4. at' \in {"header", "error"}
    BY <1>4 DEF OpenFile
  <2>. QED
    BY <1>2, <1>3, <2>2, <2>3, <2>4 DEF Mine, HeadRead, DataRead
<1>5. CASE ReadHeader
  BY <1>2, <1>5, MineHeader DEF Mine
<1>6. CASE ReadArrays
  <2>1. at = "arrays" /\ at' \in {"arrays", "data", "error"} /\ UNCHANGED <<tell, state, string, header, data>>
    BY <1>6 DEF ReadArrays, Allocate, readVars
  <2>2. tell = 8 /\ 8 <= Len(disk) /\ data = <<>> /\ \A j \in 1 .. Len(header) : header[j] = Dims(picture)[j]
    BY <2>1 DEF Mine, HeadRead
  <2>3. tell' = 8 /\ 8 <= Len(disk') /\ data' = <<>> /\ \A j \in 1 .. Len(header') : header'[j] = Dims(picture)[j]
    BY <1>1, <2>1, <2>2
  <2>4. Len(data') = 0 /\ data' \in Seq(Nat)
    BY <2>3
  <2>5. tell' = 8 + Len(data') /\ 8 + Len(data') <= Len(disk')
    BY <2>3, <2>4
  <2>6. \A j \in 1 .. Len(data') : data'[j] = disk'[8 + j].val
    BY <2>4
  <2>. QED
    BY <1>2, <1>3, <2>1, <2>3, <2>4, <2>5, <2>6 DEF Mine, HeadRead, DataRead
<1>7. CASE ReadData
  BY <1>2, <1>7, MineData DEF Mine
<1>8. CASE ReadTest
  <2>1. UNCHANGED <<tell, state, string, header, data>> /\ (at' = "bad" \/ (at = "read" /\ at' = "passed"))
    BY <1>8 DEF ReadTest, readVars
  <2>2. CASE at' = "bad"
    BY <1>2, <2>2 DEF Mine, HeadRead, DataRead
  <2>3. CASE at = "read" /\ at' = "passed"
    <3>1. Len(header) = 3
      BY <2>3 DEF FileTypeOK, Numbers
    <3>2. header' = header /\ data' = data /\ disk' = disk
      BY <1>1, <2>1
    <3>. QED
      BY <1>2, <1>3, <2>3, <3>1, <3>2 DEF Mine, HeadRead, DataRead
  <2>. QED
    BY <2>1, <2>2, <2>3
<1>. QED
  BY <1>4, <1>5, <1>6, <1>7, <1>8 DEF ReadStep

-----------------------------------------------------------------------------
(***************************************************************************)
(* Where the threads and main are.                                         *)
(***************************************************************************)

\* Thread t goes from one statement for its pixel to another.
Inside(t) ==
  /\ \E l \in LabelsOf(program) : pc' = [pc EXCEPT ![t] = l]
  /\ pc[t] \in LabelsOf(program)
  /\ UNCHANGED <<pix, chan>>

\* It has counted a channel and goes on.
On(t) == pc[t] \in LabelsOf(program) /\ Advance(t, First)

\* It finds its slice.
Begins(t) == pc[t] = "begin" /\ ToPixel(t, Start(t), First)

LEMMA Labels ==
  ASSUME program \in Programs
  PROVE  /\ First \in LabelsOf(program)
         /\ {"idle", "begin", "done"} \cap LabelsOf(program) = {}
         /\ First \notin Critical \cup {"look", "pause"}
         /\ program = "lock1" => First = "test" /\ LabelsOf(program) = {"test", "exchange", "load", "store", "release"}
         /\ program = "lock2" => First = "take" /\ LabelsOf(program) = {"take", "look", "pause", "load", "store", "release", "serve"}
         /\ program \notin {"lock1", "lock2"} => First = "add" /\ LabelsOf(program) = {"add"}
<1>1. CASE program = "lock1"
  BY <1>1 DEF First, LabelsOf, Critical
<1>2. CASE program = "lock2"
  BY <1>2 DEF First, LabelsOf, Critical
<1>3. CASE program \notin {"lock1", "lock2"}
  BY <1>3 DEF First, LabelsOf, Critical
<1>. QED
  BY <1>1, <1>2, <1>3

\* What a label says of the program.
LEMMA LabelProgram ==
  ASSUME ScanOK, NEW t \in Thread
  PROVE  /\ pc[t] \in {"load", "store", "release"} => program \in {"lock1", "lock2"}
         /\ pc[t] \in {"test", "exchange"} => program = "lock1"
         /\ pc[t] \in {"take", "look", "pause", "serve"} => program = "lock2"
         /\ pc[t] = "add" => program \notin {"lock1", "lock2"}
         /\ pc[t] \notin {"idle", "begin", "done"} => pc[t] \in LabelsOf(program)
<1>1. program \in Programs /\ pc[t] \in {"idle", "begin", "done"} \cup LabelsOf(program)
  BY DEF ScanOK
<1>. QED
  BY <1>1, Labels

\* A step of a thread is of one of three kinds.
LEMMA ThreadKind ==
  ASSUME ScanOK, NEW t \in Thread, ThreadStep(t)
  PROVE  /\ Inside(t) \/ On(t) \/ Begins(t)
         /\ UNCHANGED <<input, main, i, program>>
<1>0. program \in Programs
  BY DEF ScanOK
<1>1. CASE BeginSlice(t, First)
  BY <1>1 DEF ThreadStep, BeginSlice, Begins
<1>2. CASE TTASStep(t) /\ program = "lock1"
  BY <1>0, <1>2, Labels DEF ThreadStep, TTASStep, TestFlag, ExchangeFlag, ClearFlag, Inside, On
<1>3. CASE TicketStep(t) /\ program = "lock2"
  BY <1>0, <1>3, Labels
     DEF ThreadStep, TicketStep, TakeTicket, LookServing, EndPause, ReadServing, StoreServing,
         Inside, On
<1>4. CASE LoadCount(t)
  <2>1. program \in {"lock1", "lock2"}
    BY <1>4, LabelProgram DEF LoadCount
  <2>2. "load" \in LabelsOf(program) /\ "store" \in LabelsOf(program)
    BY <1>0, <2>1, Labels
  <2>. QED
    BY <1>4, <2>2 DEF ThreadStep, LoadCount, Inside
<1>5. CASE StoreCount(t)
  <2>1. program \in {"lock1", "lock2"}
    BY <1>5, LabelProgram DEF StoreCount
  <2>2. "store" \in LabelsOf(program) /\ "release" \in LabelsOf(program)
    BY <1>0, <2>1, Labels
  <2>. QED
    BY <1>5, <2>2 DEF ThreadStep, StoreCount, Inside
<1>6. CASE AddShared(t) \/ AddPrivate(t)
  <2>1. program \notin {"lock1", "lock2"}
    BY <1>6 DEF AddShared, AddPrivate
  <2>2. "add" \in LabelsOf(program)
    BY <1>0, <2>1, Labels
  <2>. QED
    BY <1>6, <2>2 DEF ThreadStep, AddShared, AddPrivate, On
<1>. QED
  BY <1>1, <1>2, <1>3, <1>4, <1>5, <1>6 DEF ThreadStep

\* What going to a pixel leaves.
LEMMA PixelReached ==
  ASSUME ScanOK, NEW t \in Thread, NEW p \in Nat, Start(t) <= p, p <= End(t), ToPixel(t, p, First),
         UNCHANGED <<input, program>>
  PROVE  /\ pc' \in [Thread -> {"idle", "begin", "done"} \cup LabelsOf(program)]
         /\ pix' \in [Thread -> Nat] /\ chan' \in [Thread -> Channel]
         /\ pc'[t] \in {First, "done"} /\ pix'[t] = p /\ chan'[t] = 1
         /\ pc'[t] = "done" <=> p = End(t)
         /\ \A u \in Thread \ {t} : pc'[u] = pc[u] /\ pix'[u] = pix[u] /\ chan'[u] = chan[u]
<1>1. program \in Programs /\ input.size \in Nat
  BY DEF ScanOK
<1>2. First \in LabelsOf(program) /\ First # "done"
  BY <1>1, Labels
<1>3. pc \in [Thread -> {"idle", "begin", "done"} \cup LabelsOf(program)]
  BY DEF ScanOK
<1>4. pix \in [Thread -> Nat] /\ chan \in [Thread -> Channel]
  BY DEF ScanOK
<1>5. End(t) \in Nat
  BY <1>1, SlicesInRow
<1>6. 1 \in Channel
  BY DEF Channel
<1>. QED
  BY <1>2, <1>3, <1>4, <1>5, <1>6 DEF ToPixel

\* What advancing leaves.
LEMMA Advanced ==
  ASSUME ScanOK, NEW t \in Thread, On(t), UNCHANGED <<input, program>>
  PROVE  /\ pc' \in [Thread -> {"idle", "begin", "done"} \cup LabelsOf(program)]
         /\ pix' \in [Thread -> Nat] /\ chan' \in [Thread -> Channel]
         /\ pc'[t] \in {First, "done"}
         /\ \/ chan[t] < 3 /\ chan'[t] = chan[t] + 1 /\ pix'[t] = pix[t] /\ pc'[t] = First
            \/ chan[t] = 3 /\ chan'[t] = 1 /\ pix'[t] = pix[t] + 1
         /\ pix'[t] <= End(t) /\ (pc'[t] = "done" <=> pix'[t] = End(t))
         /\ \A u \in Thread \ {t} : pc'[u] = pc[u] /\ pix'[u] = pix[u] /\ chan'[u] = chan[u]
<1>1. program \in Programs /\ input.size \in Nat
  BY DEF ScanOK
<1>2. First \in LabelsOf(program) /\ First # "done"
  BY <1>1, Labels
<1>3. pc \in [Thread -> {"idle", "begin", "done"} \cup LabelsOf(program)]
  BY DEF ScanOK
<1>4. pix \in [Thread -> Nat] /\ chan \in [Thread -> Channel]
  BY DEF ScanOK
<1>5. End(t) \in Nat /\ Start(t) \in Nat
  BY <1>1, SlicesInRow
<1>6. pix[t] \in Start(t) .. End(t) - 1
  BY DEF ScanOK, On
<1>7. chan[t] \in 1 .. 3
  BY <1>4 DEF Channel
<1>8. CASE chan[t] < 3
  <2>1. /\ chan' = [chan EXCEPT ![t] = chan[t] + 1] /\ pc' = [pc EXCEPT ![t] = First]
        /\ pix' = pix
    BY <1>8, <1>7 DEF On, Advance
  <2>2. chan[t] + 1 \in Channel
    BY <1>7, <1>8 DEF Channel
  <2>3. pix[t] < End(t)
    BY <1>5, <1>6
  <2>. QED
    BY <1>2, <1>3, <1>4, <1>5, <1>6, <1>8, <2>1, <2>2, <2>3
<1>9. CASE chan[t] = 3
  <2>1. ToPixel(t, pix[t] + 1, First)
    BY <1>9 DEF On, Advance
  <2>2. pix[t] + 1 \in Nat /\ Start(t) <= pix[t] + 1 /\ pix[t] + 1 <= End(t)
    BY <1>5, <1>6
  <2>. QED
    BY <1>9, <2>1, <2>2, PixelReached
<1>. QED
  BY <1>7, <1>8, <1>9
\* The slices stay as they are while the picture does.
LEMMA SlicesStay ==
  ASSUME input' = input, NEW t \in Thread
  PROVE  Start(t)' = Start(t) /\ End(t)' = End(t)
BY DEF Start, End

LEMMA ScanByThread ==
  ASSUME ScanOK, Workers, NEW t \in Thread, Inside(t) \/ On(t) \/ Begins(t),
         UNCHANGED <<input, main, i, program>>
  PROVE  ScanOK' /\ Workers'
<1>0. /\ program \in Programs /\ input.size \in Nat
      /\ LabelsOf(program)' = LabelsOf(program)
      /\ \A u \in Thread : Start(u)' = Start(u) /\ End(u)' = End(u)
  BY SlicesStay DEF ScanOK
<1>p. pc \in [Thread -> {"idle", "begin", "done"} \cup LabelsOf(program)]
  BY DEF ScanOK
<1>l. /\ First \in LabelsOf(program) /\ {"idle", "begin", "done"} \cap LabelsOf(program) = {}
  BY <1>0, Labels
<1>t. pix[t] \in Nat /\ Start(t) \in Nat /\ End(t) \in Nat /\ Start(t) <= End(t)
  BY <1>0, SlicesInRow DEF ScanOK
<1>1. /\ pc' \in [Thread -> {"idle", "begin", "done"} \cup LabelsOf(program)]
      /\ pix' \in [Thread -> Nat] /\ chan' \in [Thread -> Channel]
      /\ pc[t] \notin {"idle", "done"} /\ pc'[t] # "idle"
      /\ pc'[t] \in LabelsOf(program) => pix'[t] \in Start(t) .. End(t) - 1
      /\ pc'[t] = "done" => pix'[t] = End(t)
      /\ \A u \in Thread \ {t} : pc'[u] = pc[u] /\ pix'[u] = pix[u]
  <2>1. CASE Inside(t)
    BY <2>1, <1>p, <1>l DEF Inside, ScanOK
  <2>2. CASE On(t)
    <3>1. pix[t] \in Start(t) .. End(t) - 1 /\ pc[t] \in LabelsOf(program)
      BY <2>2 DEF On, ScanOK
    <3>2. pix'[t] = pix[t] \/ pix'[t] = pix[t] + 1
      BY <2>2, Advanced
    <3>3. pix'[t] <= End(t) /\ (pc'[t] = "done" <=> pix'[t] = End(t))
      BY <2>2, Advanced
    <3>4. pc'[t] # "done" => pix'[t] \in Start(t) .. End(t) - 1
      BY <1>t, <3>1, <3>2, <3>3
    <3>5. /\ pc' \in [Thread -> {"idle", "begin", "done"} \cup LabelsOf(program)]
          /\ pix' \in [Thread -> Nat] /\ chan' \in [Thread -> Channel]
          /\ pc'[t] \in {First, "done"}
          /\ \A u \in Thread \ {t} : pc'[u] = pc[u] /\ pix'[u] = pix[u]
      BY <2>2, Advanced
    <3>. QED
      BY <1>l, <3>1, <3>3, <3>4, <3>5
  <2>3. CASE Begins(t)
    <3>1. ToPixel(t, Start(t), First)
      BY <2>3 DEF Begins
    <3>2. /\ pc' \in [Thread -> {"idle", "begin", "done"} \cup LabelsOf(program)]
          /\ pix' \in [Thread -> Nat] /\ chan' \in [Thread -> Channel]
          /\ pc'[t] \in {First, "done"} /\ pix'[t] = Start(t)
          /\ pc'[t] = "done" <=> Start(t) = End(t)
          /\ \A u \in Thread \ {t} : pc'[u] = pc[u] /\ pix'[u] = pix[u] /\ chan'[u] = chan[u]
      BY <1>t, <3>1, PixelReached
    <3>3. pc'[t] # "done" => pix'[t] \in Start(t) .. End(t) - 1
      BY <1>t, <3>2
    <3>4. pc[t] = "begin"
      BY <2>3 DEF Begins
    <3>. QED
      BY <1>l, <3>2, <3>3, <3>4
  <2>. QED
    BY <2>1, <2>2, <2>3
<1>2. ASSUME NEW u \in Thread
      PROVE  /\ pc'[u] \in LabelsOf(program) => pix'[u] \in Start(u) .. End(u) - 1
             /\ pc'[u] = "done" => pix'[u] = End(u)
  BY <1>1 DEF ScanOK
<1>3. ScanOK'
  BY <1>0, <1>1, <1>2 DEF ScanOK
<1>4. \A u \in Thread : (pc'[u] = "idle" <=> pc[u] = "idle") /\ (pc[u] = "done" => pc'[u] = "done")
  BY <1>1
<1>5. main \notin {"read", "exit"}
  BY <1>1 DEF Workers
<1>6. Workers'
  BY <1>4, <1>5 DEF Workers
<1>. QED
  BY <1>3, <1>6

LEMMA ScanByMain ==
  ASSUME ScanOK, Workers, MainStep
  PROVE  ScanOK' /\ Workers'
<1>0. /\ program \in Programs /\ UNCHANGED <<input, pix, chan, program>>
      /\ i \in Thread /\ LabelsOf(program)' = LabelsOf(program)
      /\ \A u \in Thread : Start(u)' = Start(u) /\ End(u)' = End(u)
  BY SlicesStay DEF ScanOK, MainStep, StartThread, JoinThread, Merge
<1>i. /\ i \in Nat /\ i < threads /\ threads \in Nat /\ threads > 0
      /\ 0 \in Thread /\ (i + 1 < threads => i + 1 \in Thread)
      /\ \A u \in Thread : u \in Nat /\ u < threads
  BY <1>0, ThreadsAssumption DEF Thread
<1>p. pc \in [Thread -> {"idle", "begin", "done"} \cup LabelsOf(program)]
  BY DEF ScanOK
<1>l. {"idle", "begin", "done"} \cap LabelsOf(program) = {}
  BY <1>0, Labels
<1>1. CASE StartThread
  <2>1. pc' = [pc EXCEPT ![i] = "begin"] /\ main = "start"
    BY <1>1 DEF StartThread
  <2>2. \/ i + 1 < threads /\ i' = i + 1 /\ main' = "start"
        \/ i + 1 = threads /\ i' = 0 /\ main' = "join"
    BY <1>1 DEF StartThread
  <2>3. \A u \in Thread : pc[u] = "idle" <=> u >= i
    BY <2>1 DEF Workers
  <2>4. \A u \in Thread : pc'[u] = "idle" <=> u >= i + 1
    BY <1>i, <1>p, <2>1, <2>3
  <2>5. ScanOK'
    BY <1>0, <1>i, <1>p, <1>l, <2>1, <2>2 DEF ScanOK
  <2>6. Workers'
    <3>1. CASE i + 1 < threads /\ i' = i + 1 /\ main' = "start"
      BY <2>4, <3>1 DEF Workers
    <3>2. CASE i + 1 = threads /\ i' = 0 /\ main' = "join"
      <4>1. \A u \in Thread : pc'[u] # "idle" /\ ~(u < 0)
        BY <1>i, <2>4, <3>2
      <4>. QED
        BY <3>2, <4>1 DEF Workers
    <3>. QED
      BY <2>2, <3>1, <3>2
  <2>. QED
    BY <2>5, <2>6
<1>2. CASE JoinThread(IF program = "private" THEN "merge" ELSE "done")
  <2>1. main = "join" /\ pc[i] = "done" /\ pc' = pc
    BY <1>2 DEF JoinThread
  <2>2. \/ i + 1 < threads /\ i' = i + 1 /\ main' = "join"
        \/ i + 1 = threads /\ i' = 0 /\ main' = IF program = "private" THEN "merge" ELSE "done"
    BY <1>2, <2>1 DEF JoinThread
  <2>3. /\ \A u \in Thread : pc[u] # "idle"
        /\ \A u \in Thread : u < i + 1 => pc[u] = "done"
    BY <1>0, <1>i, <2>1 DEF Workers
  <2>5. ScanOK'
    BY <1>0, <1>i, <2>1, <2>2 DEF ScanOK
  <2>6. Workers'
    <3>1. CASE i + 1 < threads /\ i' = i + 1 /\ main' = "join"
      BY <2>1, <2>3, <3>1 DEF Workers
    <3>2. CASE i + 1 = threads /\ i' = 0 /\ main' = IF program = "private" THEN "merge" ELSE "done"
      <4>1. \A u \in Thread : pc'[u] = "done"
        BY <1>i, <2>1, <2>3, <3>2
      <4>. QED
        BY <1>0, <2>1, <2>3, <3>2, <4>1 DEF Workers
    <3>. QED
      BY <2>2, <3>1, <3>2
  <2>. QED
    BY <2>5, <2>6
<1>3. CASE Merge
  <2>1. main = "merge" /\ pc' = pc
    BY <1>3 DEF Merge
  <2>2. \/ i + 1 < threads /\ i' = i + 1 /\ main' = "merge"
        \/ i + 1 = threads /\ i' = 0 /\ main' = "done"
    BY <1>3, <2>1 DEF Merge
  <2>3. ScanOK'
    BY <1>0, <1>i, <2>1, <2>2 DEF ScanOK
  <2>4. Workers'
    BY <1>0, <2>1, <2>2 DEF Workers
  <2>. QED
    BY <2>3, <2>4
<1>. QED
  BY <1>1, <1>2, <1>3 DEF MainStep

LEMMA ScanByFile ==
  ASSUME FileOK, ScanOK, Workers, FileStep
  PROVE  ScanOK' /\ Workers'
<1>1. CASE UNCHANGED scanVars
  <2>1. UNCHANGED <<input, main, i, pc, pix, chan, program>>
    BY <1>1 DEF scanVars, FileStep
  <2>. QED
    BY <2>1, SlicesStay DEF ScanOK, Workers
<1>2. CASE TakePicture
  <2>1. UNCHANGED <<i, pc, pix, chan, program>> /\ main = "read" /\ main' \in {"start", "exit"}
    BY <1>2 DEF TakePicture, FileStep
  <2>2. input'.size \in Nat
    <3>1. CASE at = "read" /\ input' = PictureRead
      BY <2>1, <3>1, SizeTaken DEF FileOK
    <3>2. CASE input' = input
      BY <3>2 DEF ScanOK
    <3>. QED
      BY <1>2, <3>1, <3>2 DEF TakePicture
  <2>3. i = 0 /\ \A t \in Thread : pc[t] = "idle" /\ t >= 0
    BY <2>1 DEF Workers, Thread
  <2>4. {"idle", "begin", "done"} \cap LabelsOf(program) = {}
    BY Labels DEF ScanOK
  <2>5. ScanOK'
    BY <2>1, <2>2, <2>3, <2>4 DEF ScanOK
  <2>6. Workers'
    BY <2>1, <2>3 DEF Workers
  <2>. QED
    BY <2>5, <2>6
<1>. QED
  BY <1>1, <1>2 DEF FileStep
\* The file stays in order until main has taken the picture.
LEMMA FileOKStep ==
  ASSUME FileOK, FileStep \/ MainStep \/ \E t \in Thread : ThreadStep(t)
  PROVE  FileOK'
<1>1. CASE FileStep
  <2>1. CASE WriteStep /\ UNCHANGED scanVars
    BY <2>1, WriteKeeps DEF FileOK, scanVars
  <2>2. CASE ReadStep /\ UNCHANGED scanVars
    BY <2>2, ReadKeeps DEF FileOK, scanVars
  <2>3. CASE ReadTest /\ UNCHANGED scanVars
    <3>1. /\ at' \in {"passed", "bad"} /\ main' = main
          /\ UNCHANGED <<picture, disk, room, tell, state, string, header>>
      BY <2>3 DEF ReadTest, scanVars, readVars
    <3>2. FileTypeOK => FileTypeOK'
      BY <3>1 DEF FileTypeOK
    <3>. QED
      BY <3>1, <3>2 DEF FileOK
  <2>4. CASE TakePicture
    BY <2>4 DEF TakePicture, FileOK
  <2>. QED
    BY <1>1, <2>1, <2>2, <2>3, <2>4 DEF FileStep
<1>2. CASE MainStep
  <2>1. main' # "read"
    BY <1>2 DEF MainStep, StartThread, JoinThread, Merge
  <2>. QED
    BY <2>1 DEF FileOK
<1>3. CASE \E t \in Thread : ThreadStep(t)
  <2>1. UNCHANGED ppmVars /\ main' = main
    BY <1>3 DEF ThreadStep, BeginSlice, TTASStep, TestFlag, ExchangeFlag, ClearFlag,
       TicketStep, TakeTicket, LookServing, EndPause, ReadServing, StoreServing,
       LoadCount, StoreCount, AddShared, AddPrivate
  <2>2. FileTypeOK => FileTypeOK'
    BY <2>1 DEF FileTypeOK, ppmVars
  <2>. QED
    BY <2>1, <2>2 DEF FileOK
<1>. QED
  BY <1>1, <1>2, <1>3

-----------------------------------------------------------------------------
(***************************************************************************)
(* The pixels that are counted.                                            *)
(***************************************************************************)
Counted == {"release", "serve"}    \* the channel is counted, the lock not free

\* Nothing changes for the other threads.
LEMMA PassedByOthers ==
  ASSUME input' = input, NEW u \in Thread, NEW c,
         pc'[u] = pc[u], pix'[u] = pix[u], chan'[u] = chan[u]
  PROVE  Passed(u, c)' = Passed(u, c)
BY SlicesStay DEF Passed

\* Inside acquire and release nothing is counted.
LEMMA PassedInside ==
  ASSUME ScanOK, NEW t \in Thread, NEW c, Inside(t), UNCHANGED <<input, program>>,
         pc[t] \in Counted <=> pc'[t] \in Counted
  PROVE  Passed(t, c)' = Passed(t, c)
<1>1. /\ pc[t] \notin {"idle", "begin"} /\ pc'[t] \notin {"idle", "begin"}
      /\ pix'[t] = pix[t] /\ chan'[t] = chan[t]
  BY Labels DEF ScanOK, Inside
<1>. QED
  BY <1>1, SlicesStay DEF Passed, Counted

\* The store of the count counts the pixel.
LEMMA PassedByStore ==
  ASSUME ScanOK, NEW t \in Thread, NEW c, Inside(t), UNCHANGED <<input, program>>,
         pc[t] \notin Counted, pc'[t] \in Counted
  PROVE  Passed(t, c)' = IF c = chan[t] THEN Passed(t, c) \cup {pix[t]} ELSE Passed(t, c)
<1>1. /\ pc[t] \notin {"idle", "begin"} /\ pc'[t] \notin {"idle", "begin"}
      /\ pix'[t] = pix[t] /\ chan'[t] = chan[t]
      /\ pix[t] \in Start(t) .. End(t) - 1
  BY Labels DEF ScanOK, Inside
<1>2. CASE c = chan[t]
  BY <1>1, <1>2, SlicesStay DEF Passed, Counted
<1>3. CASE c # chan[t]
  BY <1>1, <1>3, SlicesStay DEF Passed, Counted
<1>. QED
  BY <1>2, <1>3

\* Going on counts the channel, if that was not done before.
LEMMA PassedByAdvance ==
  ASSUME ScanOK, NEW t \in Thread, NEW c \in Channel, On(t), UNCHANGED <<input, program>>
  PROVE  Passed(t, c)' = IF c = chan[t] /\ pc[t] \notin Counted
                         THEN Passed(t, c) \cup {pix[t]} ELSE Passed(t, c)
<1>1. /\ pc[t] \notin {"idle", "begin"} /\ pc'[t] \notin {"idle", "begin"} \cup Counted
      /\ pix[t] \in Start(t) .. End(t) - 1
  <2>1. pc'[t] \in {First, "done"} /\ pc[t] \in LabelsOf(program)
    BY Advanced DEF On
  <2>2. First \notin {"idle", "begin"} \cup Counted
    BY Labels DEF ScanOK, Critical, Counted
  <2>. QED
    BY <2>1, <2>2, Labels DEF ScanOK, Counted
<1>2. \/ chan[t] < 3 /\ chan'[t] = chan[t] + 1 /\ pix'[t] = pix[t]
      \/ chan[t] = 3 /\ chan'[t] = 1 /\ pix'[t] = pix[t] + 1
  BY Advanced
<1>3. chan[t] \in 1 .. 3 /\ c \in 1 .. 3
  BY DEF ScanOK, Channel
<1>4. Start(t) \in Int /\ End(t) \in Int /\ pix[t] \in Int
  BY SlicesInRow DEF ScanOK
<1>5. ASSUME NEW p \in Start(t) .. End(t) - 1
      PROVE  p \in Passed(t, c)' <=>
                p \in Passed(t, c) \/ (p = pix[t] /\ c = chan[t] /\ pc[t] \notin Counted)
  <2>1. p \in Int
    BY <1>4
  <2>2. p \in Passed(t, c)' <=> p < pix'[t] \/ (p = pix'[t] /\ c < chan'[t])
    BY <1>1, SlicesStay DEF Passed, Counted
  <2>3. p \in Passed(t, c) <=> p < pix[t] \/ (p = pix[t] /\ c < chan[t])
                                \/ (p = pix[t] /\ c = chan[t] /\ pc[t] \in Counted)
    BY <1>1 DEF Passed, Counted
  <2>. QED
    BY <1>2, <1>3, <1>4, <2>1, <2>2, <2>3
<1>6. Passed(t, c)' \subseteq Start(t) .. End(t) - 1 /\ Passed(t, c) \subseteq Start(t) .. End(t) - 1
  BY SlicesStay DEF Passed
<1>. QED
  BY <1>1, <1>5, <1>6

\* At the beginning nothing is counted.
LEMMA PassedAtBegin ==
  ASSUME ScanOK, NEW t \in Thread, NEW c \in Channel, Begins(t), UNCHANGED <<input, program>>
  PROVE  Passed(t, c)' = {} /\ Passed(t, c) = {}
<1>1. pc[t] = "begin" /\ ToPixel(t, Start(t), First)
  BY DEF Begins
<1>2. input.size \in Nat /\ Start(t) \in Nat /\ End(t) \in Nat /\ Start(t) <= End(t)
  BY SlicesInRow DEF ScanOK
<1>3. pc'[t] \in {First, "done"} /\ pix'[t] = Start(t) /\ chan'[t] = 1
  BY <1>1, <1>2, PixelReached
<1>4. pc'[t] \notin Counted
  BY <1>3, Labels DEF ScanOK, Critical, Counted
<1>5. \A p \in Start(t) .. End(t) - 1 : ~(p < Start(t)) /\ ~(c < 1)
  BY <1>2 DEF Channel
<1>. QED
  BY <1>1, <1>3, <1>4, <1>5, SlicesStay DEF Passed, Counted

\* A pixel that is being counted has not been counted.
LEMMA NotPassed ==
  ASSUME ScanOK, NEW t \in Thread, pc[t] \in LabelsOf(program), pc[t] \notin Counted
  PROVE  \A u \in Thread : pix[t] \notin Passed(u, chan[t])
<1>1. /\ pix[t] \in Start(t) .. End(t) - 1 /\ pix[t] \in Int /\ chan[t] \in Int
      /\ input.size \in Nat
  BY DEF ScanOK, Channel
<1>2. pix[t] \notin Passed(t, chan[t])
  BY <1>1 DEF Passed, Counted
<1>3. ASSUME NEW u \in Thread, pix[t] \in Passed(u, chan[t])
      PROVE  u = t
  <2>1. pix[t] \in Start(u) .. End(u) - 1
    BY <1>3 DEF Passed
  <2>. QED
    BY <1>1, <2>1, OneSlice
<1>. QED
  BY <1>2, <1>3
-----------------------------------------------------------------------------
(***************************************************************************)
(* The locks.                                                              *)
(***************************************************************************)
InLineLabel == {"look", "pause", "load", "store", "release", "serve"}

LEMMA InLineIs ==
  ASSUME NEW c, NEW t \in Thread
  PROVE  t \in InLine(c) <=> program = "lock2" /\ chan[t] = c /\ pc[t] \in InLineLabel
BY DEF InLine, InLineLabel

\* With tickets, at most one thread is served.
LEMMA MutexByLine ==
  ASSUME ScanOK, Served, Line, program = "lock2"
  PROVE  Mutex
<1>1. SUFFICES ASSUME NEW t \in Thread, NEW u \in Thread, t # u,
                      pc[t] \in Critical, pc[u] \in Critical, chan[t] = chan[u]
               PROVE  FALSE
  BY DEF Mutex
<1>. DEFINE c == chan[t]
<1>2. c \in Channel
  BY DEF ScanOK
<1>3. t \in InLine(c) /\ u \in InLine(c)
  BY <1>1 DEF InLine, Critical
<1>. QED
  BY <1>1, <1>2, <1>3 DEF Served, Line

\* Steps that move nobody in the line.
LEMMA LineStays ==
  ASSUME ScanOK, ScanOK', Served, Line,
         UNCHANGED <<program, next_ticket, now_serving, my_ticket, ns>>,
         program = "lock2" =>
           \A u \in Thread :
             /\ pc'[u] \in InLineLabel <=> pc[u] \in InLineLabel
             /\ pc[u] \in InLineLabel => chan'[u] = chan[u]
             /\ pc'[u] \in Critical => pc[u] \in Critical
             /\ pc'[u] = "pause" => pc[u] = "pause"
             /\ pc'[u] = "serve" => serve'[u] = now_serving[chan[u]] + 1
  PROVE  Served' /\ Line'
<1>1. CASE program = "lock2"
  <2>1. \A c \in Channel : InLine(c)' = InLine(c)
    BY <1>1 DEF InLine, InLineLabel
  <2>2. \A u \in Thread : pc'[u] = "serve" => chan'[u] = chan[u]
    BY <1>1 DEF InLineLabel
  <2>3. Served'
    BY <1>1, <2>1, <2>2 DEF Served, InLine
  <2>4. Line'
    BY <1>1, <2>1 DEF Line
  <2>. QED
    BY <2>3, <2>4
<1>2. CASE program # "lock2"
  <2>1. \A c \in Channel : InLine(c)' = {} /\ InLine(c) = {}
    BY <1>2 DEF InLine
  <2>2. \A u \in Thread : pc'[u] \notin {"serve", "pause"}
    <3>1. ASSUME NEW u \in Thread PROVE pc'[u] \in {"idle", "begin", "done"} \cup LabelsOf(program)
      BY DEF ScanOK
    <3>2. "serve" \notin LabelsOf(program) /\ "pause" \notin LabelsOf(program)
      BY <1>2, Labels DEF ScanOK
    <3>. QED
      BY <3>1, <3>2
  <2>3. Served'
    BY <1>2, <2>1, <2>2 DEF Served
  <2>4. Line'
    BY <2>1, <2>2 DEF Line
  <2>. QED
    BY <2>3, <2>4
<1>. QED
  BY <1>1, <1>2

\* Steps after which the same threads have the locks.
LEMMA FlagStays ==
  ASSUME Mutex, FlagHeld, UNCHANGED <<program, f>>,
         \A u \in Thread :
           /\ pc'[u] \in Critical <=> pc[u] \in Critical
           /\ pc[u] \in Critical => chan'[u] = chan[u]
  PROVE  Mutex' /\ FlagHeld'
<1>1. Mutex'
  BY DEF Mutex
<1>2. FlagHeld'
  BY DEF FlagHeld
<1>. QED
  BY <1>1, <1>2

\* histo_lock1.
LEMMA FlagByTTAS ==
  ASSUME ScanOK, LockTypeOK, Mutex, FlagHeld, NEW t \in Thread, TTASStep(t), program = "lock1",
         program' = program
  PROVE  Mutex' /\ FlagHeld' /\ f' \in [Channel -> BOOLEAN]
<1>0. /\ chan[t] \in Channel /\ f \in [Channel -> BOOLEAN]
      /\ pc \in [Thread -> {"idle", "begin", "done"} \cup LabelsOf(program)]
      /\ \A u \in Thread : chan[u] \in Channel
  BY DEF ScanOK, LockTypeOK
<1>1. CASE TestFlag(t)
  <2>1. \A u \in Thread : /\ pc'[u] \in Critical <=> pc[u] \in Critical
                          /\ chan'[u] = chan[u]
    BY <1>0, <1>1 DEF TestFlag, Critical
  <2>. QED
    BY <1>0, <1>1, <2>1, FlagStays DEF TestFlag
<1>2. CASE ExchangeFlag(t)
  <2>1. /\ pc[t] = "exchange" /\ f' = [f EXCEPT ![chan[t]] = TRUE] /\ UNCHANGED chan
        /\ pc' = [pc EXCEPT ![t] = IF f[chan[t]] THEN "test" ELSE "load"]
    BY <1>2 DEF ExchangeFlag
  <2>2. CASE f[chan[t]]
    <3>1. f' = f
      BY <1>0, <2>1, <2>2
    <3>2. \A u \in Thread : /\ pc'[u] \in Critical <=> pc[u] \in Critical
                            /\ chan'[u] = chan[u]
      BY <1>0, <2>1, <2>2 DEF Critical
    <3>. QED
      BY <1>0, <3>1, <3>2, FlagStays
  <2>3. CASE ~f[chan[t]]
    <3>1. \A u \in Thread : pc[u] \in Critical => chan[u] # chan[t]
      BY <1>0, <2>3 DEF FlagHeld
    <3>2. \A u \in Thread : pc'[u] \in Critical <=> pc[u] \in Critical \/ u = t
      BY <1>0, <2>1, <2>3 DEF Critical
    <3>3. Mutex'
      BY <2>1, <3>1, <3>2 DEF Mutex
    <3>4. FlagHeld'
      BY <1>0, <2>1, <3>1, <3>2 DEF FlagHeld
    <3>. QED
      BY <1>0, <2>1, <3>3, <3>4
  <2>. QED
    BY <2>2, <2>3
<1>3. CASE ClearFlag(t)
  <2>1. /\ pc[t] = "release" /\ f' = [f EXCEPT ![chan[t]] = FALSE]
        /\ UNCHANGED <<input, program>> /\ Advance(t, First)
    BY <1>3, Labels DEF ClearFlag, ScanOK
  <2>2. On(t)
    BY <2>1, Labels DEF On, ScanOK
  <2>3. pc'[t] \notin Critical /\ \A u \in Thread \ {t} : pc'[u] = pc[u] /\ chan'[u] = chan[u]
    <3>1. pc'[t] \in {First, "done"} /\ \A u \in Thread \ {t} : pc'[u] = pc[u] /\ chan'[u] = chan[u]
      BY <2>1, <2>2, Advanced
    <3>2. First \notin Critical /\ "done" \notin Critical
      BY Labels DEF ScanOK, Critical
    <3>. QED
      BY <3>1, <3>2
  <2>4. pc[t] \in Critical
    BY <2>1 DEF Critical
  <2>5. \A u \in Thread : pc'[u] \in Critical <=> pc[u] \in Critical /\ u # t
    BY <2>3
  <2>6. Mutex'
    BY <2>3, <2>5 DEF Mutex
  <2>7. \A u \in Thread : pc'[u] \in Critical => chan'[u] = chan[u] /\ chan[u] # chan[t]
    BY <2>3, <2>4, <2>5 DEF Mutex
  <2>8. FlagHeld'
    <3>1. SUFFICES ASSUME NEW c \in Channel
                   PROVE  f'[c] <=> \E u \in Thread : pc'[u] \in Critical /\ chan'[u] = c
      BY DEF FlagHeld
    <3>2. CASE c = chan[t]
      BY <1>0, <2>1, <2>7, <3>2
    <3>3. CASE c # chan[t]
      <4>1. f'[c] = f[c]
        BY <1>0, <2>1, <3>3
      <4>2. f[c] <=> \E u \in Thread : pc[u] \in Critical /\ chan[u] = c
        BY DEF FlagHeld
      <4>. QED
        BY <2>5, <2>7, <3>3, <4>1, <4>2
    <3>. QED
      BY <3>2, <3>3
  <2>. QED
    BY <1>0, <2>1, <2>6, <2>8
<1>. QED
  BY <1>1, <1>2, <1>3 DEF TTASStep
-----------------------------------------------------------------------------
\* The line of a lock is not longer than there are threads.
LEMMA LineShort ==
  ASSUME LockTypeOK, Line, NEW c \in Channel
  PROVE  next_ticket[c] - now_serving[c] <= threads
<1>. DEFINE S == InLine(c)
            T == now_serving[c] .. next_ticket[c] - 1
            g == [u \in S |-> my_ticket[u]]
<1>1. next_ticket[c] \in Nat /\ now_serving[c] \in Nat
  BY DEF LockTypeOK
<1>2. threads \in Nat /\ threads > 0
  BY ThreadsAssumption
<1>3. IsFiniteSet(Thread) /\ Cardinality(Thread) = threads
  <2>1. 0 \in Int /\ threads - 1 \in Int
    BY <1>2
  <2>2. IsFiniteSet(0 .. threads - 1)
    BY <2>1, FS_Interval, Zenon
  <2>3. Cardinality(0 .. threads - 1) = IF 0 > threads - 1 THEN 0 ELSE (threads - 1) - 0 + 1
    BY <2>1, FS_Interval, Zenon
  <2>. QED
    BY <1>2, <2>2, <2>3 DEF Thread
<1>4. IsFiniteSet(S) /\ Cardinality(S) <= threads
  <2>1. S \in SUBSET Thread
    BY DEF InLine
  <2>. HIDE DEF S
  <2>. QED
    BY <1>3, <2>1, FS_Subset
<1>5. g \in Surjection(S, T)
  <2>1. T = { my_ticket[u] : u \in S }
    BY DEF Line
  <2>. HIDE DEF T, S
  <2>2. g \in [S -> T]
    BY <2>1
  <2>3. \A v \in T : \E u \in S : g[u] = v
    BY <2>1
  <2>. HIDE DEF g
  <2>. QED
    BY <2>2, <2>3 DEF Surjection
<1>6. Cardinality(T) <= Cardinality(S)
  <2>. HIDE DEF S, T, g
  <2>. QED
    BY <1>4, <1>5, FS_Surjection
<1>7. Cardinality(T) = IF now_serving[c] > next_ticket[c] - 1 THEN 0
                       ELSE (next_ticket[c] - 1) - now_serving[c] + 1
  <2>1. now_serving[c] \in Int /\ next_ticket[c] - 1 \in Int
    BY <1>1
  <2>. QED
    BY <2>1, FS_Interval, Zenon
<1>8. Cardinality(S) \in Nat
  <2>. HIDE DEF S
  <2>. QED
    BY <1>4, FS_CardinalityType
<1>. HIDE DEF S, T, g
<1>9. CASE now_serving[c] > next_ticket[c] - 1
  BY <1>1, <1>2, <1>9
<1>10. CASE ~(now_serving[c] > next_ticket[c] - 1)
  BY <1>1, <1>2, <1>4, <1>6, <1>7, <1>8, <1>10
<1>. QED
  BY <1>9, <1>10

\* A thread gets in line.
LEMMA LineByTake ==
  ASSUME ScanOK, LockTypeOK, Served, Line, NEW t \in Thread, TakeTicket(t),
         program = "lock2", UNCHANGED <<program, f>>
  PROVE  LockTypeOK' /\ Served' /\ Line'
<1>c. PICK c \in Channel : c = chan[t]
  BY DEF ScanOK
<1>. DEFINE n == next_ticket[c]
<1>1. c \in Channel /\ n \in Nat /\ now_serving[c] \in Nat /\ now_serving[c] <= n
  BY DEF ScanOK, LockTypeOK, Served
<1>2. /\ pc[t] = "take" /\ UNCHANGED <<chan, now_serving, ns, serve>>
      /\ \A u \in Thread : pc'[u] = IF u = t THEN "look" ELSE pc[u]
  BY DEF TakeTicket, ScanOK
<1>3. /\ my_ticket' \in [Thread -> Nat] /\ next_ticket' \in [Channel -> Nat]
      /\ \A u \in Thread : my_ticket'[u] = IF u = t THEN n ELSE my_ticket[u]
      /\ \A d \in Channel : next_ticket'[d] = IF d = c THEN n + 1 ELSE next_ticket[d]
  <2>1. my_ticket \in [Thread -> Nat] /\ next_ticket \in [Channel -> Nat]
    BY DEF LockTypeOK
  <2>2. my_ticket' = [my_ticket EXCEPT ![t] = n] /\ next_ticket' = [next_ticket EXCEPT ![c] = n + 1]
    BY <1>c, <1>1, <2>1 DEF TakeTicket
  <2>. HIDE DEF n
  <2>. QED
    BY <1>1, <2>1, <2>2
<1>4. LockTypeOK'
  BY <1>2, <1>3 DEF LockTypeOK
<1>5. t \notin InLine(c) /\ \A d \in Channel : \A u \in InLine(d) : u \in Thread /\ u # t
  BY <1>2 DEF InLine
<1>6. /\ InLine(c)' = InLine(c) \cup {t}
      /\ \A d \in Channel \ {c} : InLine(d)' = InLine(d)
  BY <1>c, <1>2 DEF InLine
<1>7. /\ { my_ticket[u] : u \in InLine(c) } = now_serving[c] .. n - 1
      /\ \A u, w \in InLine(c) : u # w => my_ticket[u] # my_ticket[w]
  BY <1>1 DEF Line
<1>8. Line'
  <2>1. { my_ticket'[u] : u \in InLine(c)' } = now_serving'[c] .. next_ticket'[c] - 1
    <3>1. { my_ticket'[u] : u \in InLine(c)' } = { my_ticket[u] : u \in InLine(c) } \cup {n}
      BY <1>3, <1>5, <1>6, <1>1
    <3>2. now_serving'[c] .. next_ticket'[c] - 1 = now_serving[c] .. n
      BY <1>1, <1>2, <1>3
    <3>3. now_serving[c] .. n = (now_serving[c] .. n - 1) \cup {n}
      BY <1>1
    <3>. QED
      BY <1>7, <3>1, <3>2, <3>3
  <2>2. \A u, w \in InLine(c)' : u # w => my_ticket'[u] # my_ticket'[w]
    <3>1. \A u \in InLine(c) : my_ticket[u] \in now_serving[c] .. n - 1
      BY <1>7
    <3>2. \A u \in InLine(c) : my_ticket[u] # n
      BY <1>1, <3>1
    <3>. QED
      BY <1>3, <1>5, <1>6, <1>7, <1>1, <3>2
  <2>3. ASSUME NEW d \in Channel, d # c
        PROVE  /\ { my_ticket'[u] : u \in InLine(d)' } = now_serving'[d] .. next_ticket'[d] - 1
               /\ \A u, w \in InLine(d)' : u # w => my_ticket'[u] # my_ticket'[w]
    <3>1. InLine(d)' = InLine(d) /\ now_serving'[d] = now_serving[d] /\ next_ticket'[d] = next_ticket[d]
      BY <1>2, <1>3, <1>6, <2>3
    <3>2. \A u \in InLine(d) : my_ticket'[u] = my_ticket[u]
      BY <1>3, <1>5
    <3>. QED
      BY <3>1, <3>2 DEF Line
  <2>4. ASSUME NEW u \in Thread, pc'[u] = "pause"
        PROVE  my_ticket'[u] - ns'[u] \in 1 .. threads - 1
    BY <1>2, <1>3, <2>4 DEF Line
  <2>5. \A d \in Channel :
       /\ { my_ticket'[u] : u \in InLine(d)' } = now_serving'[d] .. next_ticket'[d] - 1
       /\ \A u, w \in InLine(d)' : u # w => my_ticket'[u] # my_ticket'[w]
    BY <2>1, <2>2, <2>3
  <2>. QED
    BY <2>4, <2>5 DEF Line
<1>9. Served'
  <2>1. \A d \in Channel : now_serving'[d] <= next_ticket'[d]
    <3>1. now_serving \in [Channel -> Nat] /\ next_ticket \in [Channel -> Nat]
      BY DEF LockTypeOK
    <3>2. \A d \in Channel : now_serving[d] <= next_ticket[d]
      BY DEF Served
    <3>3. \A d \in Channel : next_ticket'[d] >= next_ticket[d] /\ next_ticket'[d] \in Nat
      BY <1>1, <1>3, <3>1
    <3>. QED
      BY <1>2, <3>1, <3>2, <3>3
  <2>2. ASSUME NEW d \in Channel, NEW u \in InLine(d)', pc'[u] \in Critical
        PROVE  my_ticket'[u] = now_serving'[d]
    <3>1. u # t /\ u \in Thread
      BY <1>2, <2>2 DEF InLine, Critical
    <3>2. u \in InLine(d)
      BY <1>6, <2>2, <3>1
    <3>3. pc[u] \in Critical
      BY <1>2, <2>2, <3>1
    <3>. QED
      BY <1>2, <1>3, <3>1, <3>2, <3>3 DEF Served
  <2>3. ASSUME NEW u \in Thread, pc'[u] = "serve"
        PROVE  serve'[u] = now_serving'[chan'[u]] + 1
    BY <1>2, <2>3 DEF Served
  <2>. QED
    BY <2>1, <2>2, <2>3 DEF Served
<1>. QED
  BY <1>4, <1>8, <1>9

\* A thread in line looks whom the lock serves: it is the one, or pauses.
LEMMA LineByLook ==
  ASSUME ScanOK, LockTypeOK, Served, Line, NEW t \in Thread, LookServing(t),
         program = "lock2", UNCHANGED <<program, f>>
  PROVE  LockTypeOK' /\ Served' /\ Line'
<1>c. PICK c \in Channel : c = chan[t]
  BY DEF ScanOK
<1>1. c \in Channel /\ t \in InLine(c)
  BY <1>c DEF LookServing, InLine
<1>2. next_ticket[c] \in Nat /\ now_serving[c] \in Nat /\ my_ticket[t] \in Nat /\ threads \in Nat
  BY <1>1, ThreadsAssumption DEF LockTypeOK
<1>3. /\ pc[t] = "look" /\ UNCHANGED <<chan, now_serving, next_ticket, my_ticket, serve>>
      /\ ns' \in [Thread -> Nat]
      /\ \A u \in Thread : ns'[u] = IF u = t THEN now_serving[c] ELSE ns[u]
  BY <1>c, <1>2 DEF LookServing, LockTypeOK
<1>4. \A u \in Thread : pc'[u] = IF u = t THEN IF now_serving[c] = my_ticket[t] THEN "load" ELSE "pause"
                                          ELSE pc[u]
  BY <1>c, <1>3 DEF LookServing, ScanOK
<1>5. my_ticket[t] \in now_serving[c] .. next_ticket[c] - 1
  BY <1>1 DEF Line
<1>6. next_ticket[c] - now_serving[c] <= threads
  BY <1>1, LineShort
<1>7. now_serving[c] # my_ticket[t] => my_ticket[t] - now_serving[c] \in 1 .. threads - 1
  BY <1>2, <1>5, <1>6
<1>8. \A d \in Channel : InLine(d)' = InLine(d)
  BY <1>3, <1>4 DEF InLine
<1>9. LockTypeOK'
  BY <1>3 DEF LockTypeOK
<1>10. Line'
  <2>1. \A u \in Thread : pc'[u] = "pause" => my_ticket'[u] - ns'[u] \in 1 .. threads - 1
    BY <1>3, <1>4, <1>7 DEF Line
  <2>2. \A d \in Channel :
       /\ { my_ticket'[u] : u \in InLine(d)' } = now_serving'[d] .. next_ticket'[d] - 1
       /\ \A u, w \in InLine(d)' : u # w => my_ticket'[u] # my_ticket'[w]
    BY <1>3, <1>8 DEF Line
  <2>. QED
    BY <2>1, <2>2 DEF Line
<1>11. Served'
  <2>1. ASSUME NEW d \in Channel, NEW u \in InLine(d)', pc'[u] \in Critical
        PROVE  my_ticket'[u] = now_serving'[d]
    <3>1. u \in InLine(d) /\ u \in Thread
      BY <1>8 DEF InLine
    <3>2. CASE u = t
      <4>1. d = c
        BY <1>c, <3>1, <3>2 DEF InLine
      <4>2. pc'[t] = "load"
        BY <1>4, <2>1, <3>2 DEF Critical
      <4>. QED
        BY <1>3, <1>4, <3>2, <4>1, <4>2
    <3>3. CASE u # t
      BY <1>3, <1>4, <2>1, <3>1, <3>3 DEF Served
    <3>. QED
      BY <3>2, <3>3
  <2>2. ASSUME NEW u \in Thread, pc'[u] = "serve"
        PROVE  serve'[u] = now_serving'[chan'[u]] + 1
    BY <1>3, <1>4, <2>2 DEF Served
  <2>. QED
    BY <1>3, <2>1, <2>2 DEF Served
<1>. QED
  BY <1>9, <1>10, <1>11

\* The first of the line leaves it, and the second one is served.
LEMMA LineByServe ==
  ASSUME ScanOK, LockTypeOK, Served, Line, NEW t \in Thread, StoreServing(t),
         program = "lock2", UNCHANGED <<program, f, input>>
  PROVE  LockTypeOK' /\ Served' /\ Line'
<1>c. PICK c \in Channel : c = chan[t]
  BY DEF ScanOK
<1>. DEFINE m == now_serving[c]
<1>1. c \in Channel /\ t \in InLine(c)
  BY <1>c DEF StoreServing, InLine
<1>2. next_ticket[c] \in Nat /\ m \in Nat
  BY <1>1 DEF LockTypeOK
<1>3. serve[t] = m + 1 /\ my_ticket[t] = m
  BY <1>c, <1>1 DEF Served, StoreServing, Critical
<1>4. /\ UNCHANGED <<next_ticket, my_ticket, ns, serve>>
      /\ now_serving' \in [Channel -> Nat]
      /\ \A d \in Channel : now_serving'[d] = IF d = c THEN m + 1 ELSE now_serving[d]
  <2>1. now_serving \in [Channel -> Nat] /\ m + 1 \in Nat
    BY <1>2 DEF LockTypeOK
  <2>2. now_serving' = [now_serving EXCEPT ![c] = m + 1]
    BY <1>c, <1>3 DEF StoreServing
  <2>. HIDE DEF m
  <2>. QED
    BY <1>1, <2>1, <2>2 DEF StoreServing
<1>5. On(t)
  BY Labels DEF StoreServing, On, ScanOK, First
<1>6. /\ pc'[t] \in {"take", "done"}
      /\ \A u \in Thread \ {t} : pc'[u] = pc[u] /\ chan'[u] = chan[u]
  BY <1>5, Advanced DEF First
<1>7. /\ InLine(c)' = InLine(c) \ {t}
      /\ \A d \in Channel \ {c} : InLine(d)' = InLine(d)
  BY <1>c, <1>6 DEF InLine
<1>8. /\ { my_ticket[u] : u \in InLine(c) } = m .. next_ticket[c] - 1
      /\ \A u, w \in InLine(c) : u # w => my_ticket[u] # my_ticket[w]
  BY <1>1 DEF Line
<1>9. LockTypeOK'
  BY <1>4 DEF LockTypeOK
<1>10. Line'
  <2>1. { my_ticket[u] : u \in InLine(c) \ {t} } = { my_ticket[u] : u \in InLine(c) } \ {m}
    BY <1>1, <1>3, <1>8
  <2>2. (m .. next_ticket[c] - 1) \ {m} = m + 1 .. next_ticket[c] - 1
    BY <1>2
  <2>3. { my_ticket'[u] : u \in InLine(c)' } = now_serving'[c] .. next_ticket'[c] - 1
    BY <1>1, <1>4, <1>7, <1>8, <2>1, <2>2
  <2>4. ASSUME NEW d \in Channel, d # c
        PROVE  { my_ticket'[u] : u \in InLine(d)' } = now_serving'[d] .. next_ticket'[d] - 1
    BY <1>4, <1>7, <2>4 DEF Line
  <2>5. ASSUME NEW d \in Channel, NEW u \in InLine(d)', NEW w \in InLine(d)', u # w
        PROVE  my_ticket'[u] # my_ticket'[w]
    <3>1. u \in InLine(d) /\ w \in InLine(d)
      BY <1>1, <1>7
    <3>. QED
      BY <1>4, <2>5, <3>1 DEF Line
  <2>6. \A u \in Thread : pc'[u] = "pause" => my_ticket'[u] - ns'[u] \in 1 .. threads - 1
    BY <1>4, <1>6 DEF Line
  <2>. QED
    BY <2>3, <2>4, <2>5, <2>6 DEF Line
<1>11. Served'
  <2>1. m < next_ticket[c]
    <3>1. m \in m .. next_ticket[c] - 1
      BY <1>1, <1>3, <1>8
    <3>. QED
      BY <1>2, <3>1
  <2>2. \A d \in Channel : now_serving'[d] <= next_ticket'[d]
    BY <1>2, <1>4, <2>1 DEF Served
  <2>3. Mutex
    BY MutexByLine
  <2>4. \A u \in Thread : pc'[u] \in Critical => u # t /\ pc[u] \in Critical /\ chan'[u] = chan[u] /\ chan[u] # c
    <3>1. pc[t] \in Critical
      BY DEF StoreServing, Critical
    <3>2. \A u \in Thread : pc'[u] \in Critical => u # t /\ pc[u] = pc'[u] /\ chan'[u] = chan[u]
      BY <1>6 DEF Critical
    <3>. QED
      BY <1>c, <2>3, <3>1, <3>2 DEF Mutex
  <2>5. ASSUME NEW d \in Channel, NEW u \in InLine(d)', pc'[u] \in Critical
        PROVE  my_ticket'[u] = now_serving'[d]
    <3>1. u \in Thread /\ chan'[u] = d
      BY DEF InLine
    <3>2. u \in InLine(d) /\ pc[u] \in Critical /\ d # c
      BY <1>7, <2>4, <2>5, <3>1
    <3>. QED
      BY <1>4, <3>2 DEF Served
  <2>6. ASSUME NEW u \in Thread, pc'[u] = "serve"
        PROVE  serve'[u] = now_serving'[chan'[u]] + 1
    <3>1. u # t /\ pc[u] = "serve" /\ chan'[u] = chan[u] /\ chan[u] # c /\ chan[u] \in Channel
      <4>1. pc'[u] \in Critical
        BY <2>6 DEF Critical
      <4>2. u # t /\ chan'[u] = chan[u] /\ chan[u] # c
        BY <2>4, <4>1
      <4>. QED
        BY <1>6, <2>6, <4>2 DEF ScanOK
    <3>. QED
      BY <1>4, <3>1 DEF Served
  <2>. QED
    BY <2>2, <2>5, <2>6 DEF Served
<1>. QED
  BY <1>9, <1>10, <1>11
-----------------------------------------------------------------------------
(***************************************************************************)
(* A ticket for every pixel.                                               *)
(***************************************************************************)
\* What has been counted and who is in line does not change in a step of main.
LEMMA CountedByMain ==
  ASSUME ScanOK, Workers, MainStep, NEW t \in Thread, NEW c
  PROVE  Passed(t, c)' = Passed(t, c) /\ (t \in InLine(c)' <=> t \in InLine(c))
<1>0. UNCHANGED <<input, pix, chan, program>>
  BY DEF MainStep, StartThread, JoinThread, Merge
<1>1. CASE UNCHANGED pc
  BY <1>0, <1>1, PassedByOthers DEF InLine
<1>2. CASE StartThread
  <2>1. main = "start" /\ pc' = [pc EXCEPT ![i] = "begin"]
    BY <1>2 DEF StartThread
  <2>2. i \in Int /\ i >= i
    BY DEF ScanOK, Thread
  <2>3. pc[i] = "idle" /\ i \in Thread
    BY <2>1, <2>2 DEF Workers, ScanOK
  <2>4. CASE t = i
    BY <2>1, <2>3, <2>4 DEF Passed, InLine, ScanOK
  <2>5. CASE t # i
    <3>1. pc'[t] = pc[t]
      BY <2>1, <2>5 DEF ScanOK
    <3>. QED
      BY <1>0, <3>1, PassedByOthers DEF InLine
  <2>. QED
    BY <2>4, <2>5
<1>. QED
  BY <1>1, <1>2 DEF MainStep, JoinThread, Merge

\* Nor in a step before that: nothing has been counted.
LEMMA CountedByFile ==
  ASSUME ScanOK, Workers, FileStep, NEW t \in Thread, NEW c
  PROVE  Passed(t, c)' = Passed(t, c) /\ (t \in InLine(c)' <=> t \in InLine(c))
<1>1. CASE UNCHANGED scanVars
  <2>1. UNCHANGED <<input, pc, pix, chan, program>>
    BY <1>1 DEF scanVars, FileStep
  <2>. QED
    BY <2>1, PassedByOthers DEF InLine
<1>2. CASE TakePicture
  <2>1. pc[t] = "idle" /\ pc'[t] = "idle"
    BY <1>2 DEF TakePicture, Workers
  <2>. QED
    BY <2>1 DEF Passed, InLine
<1>. QED
  BY <1>1, <1>2 DEF FileStep

\* Only taking a ticket changes for which pixels tickets have been taken.
LEMMA TakenByThread ==
  ASSUME ScanOK, NEW t \in Thread, ThreadStep(t), program = "lock2",
         NEW c \in Channel, NEW u \in Thread
  PROVE  TakenBy(u, c)' = IF u = t /\ pc[t] = "take" /\ c = chan[t]
                          THEN TakenBy(u, c) \cup {pix[t]} ELSE TakenBy(u, c)
<1>0. UNCHANGED <<input, program>>
  BY ThreadKind
<1>1. Start(u)' = Start(u) /\ End(u)' = End(u)
  BY <1>0, SlicesStay
<1>s. TakenBy(u, c)' = { p \in Start(u) .. End(u) - 1 :
                           p \in Passed(u, c)' \/ (p = pix'[u] /\ u \in InLine(c)') }
  BY <1>1 DEF TakenBy
<1>2. CASE u # t
  <2>1. pc'[u] = pc[u] /\ pix'[u] = pix[u] /\ chan'[u] = chan[u]
    <3>1. CASE Inside(t)
      BY <1>2, <3>1 DEF Inside, ScanOK
    <3>2. CASE On(t)
      BY <1>0, <1>2, <3>2, Advanced
    <3>3. CASE Begins(t)
      <4>1. Start(t) \in Nat /\ Start(t) <= Start(t) /\ Start(t) <= End(t)
        BY SlicesInRow DEF ScanOK
      <4>. QED
        BY <1>0, <1>2, <3>3, <4>1, PixelReached DEF Begins
    <3>. QED
      BY <3>1, <3>2, <3>3, ThreadKind
  <2>2. Passed(u, c)' = Passed(u, c)
    BY <1>0, <2>1, PassedByOthers
  <2>3. u \in InLine(c)' <=> u \in InLine(c)
    BY <1>0, <2>1 DEF InLine
  <2>. QED
    BY <1>2, <1>s, <2>1, <2>2, <2>3 DEF TakenBy
<1>3. CASE u = t /\ Begins(t)
  <2>1. Passed(t, c)' = {} /\ Passed(t, c) = {}
    BY <1>0, <1>3, PassedAtBegin
  <2>2. pc[t] = "begin" /\ pc'[t] \in {"take", "done"}
    <3>1. Start(t) \in Nat /\ Start(t) <= Start(t) /\ Start(t) <= End(t)
      BY SlicesInRow DEF ScanOK
    <3>. QED
      BY <1>0, <1>3, <3>1, PixelReached DEF Begins, First
  <2>3. t \notin InLine(c)' /\ t \notin InLine(c)
    BY <2>2 DEF InLine
  <2>. QED
    BY <1>3, <1>s, <2>1, <2>2, <2>3 DEF TakenBy
<1>4. CASE u = t /\ ~Begins(t)
  <2>1. pc[t] \in {"take", "look", "pause", "load", "store", "release", "serve"}
    <3>1. Inside(t) \/ On(t)
      BY <1>4, ThreadKind
    <3>2. pc[t] \in LabelsOf(program)
      BY <3>1 DEF Inside, On
    <3>. QED
      BY <3>2 DEF LabelsOf
  <2>2. CASE pc[t] = "take"
    <3>1. TakeTicket(t)
      BY <2>2 DEF ThreadStep, TTASStep, TicketStep, BeginSlice, LookServing, EndPause,
         ReadServing, StoreServing, LoadCount, StoreCount, AddShared, AddPrivate
    <3>2. Inside(t) /\ pc'[t] = "look"
      BY <3>1 DEF TakeTicket, Inside, ScanOK, LabelsOf
    <3>3. Passed(t, c)' = Passed(t, c)
      BY <1>0, <2>2, <3>2, PassedInside DEF Counted
    <3>4. t \notin InLine(c) /\ (t \in InLine(c)' <=> c = chan[t]) /\ pix'[t] = pix[t]
      BY <1>0, <2>2, <3>2 DEF InLine, Inside
    <3>5. pix[t] \in Start(t) .. End(t) - 1
      BY <2>2 DEF ScanOK, LabelsOf
    <3>. QED
      BY <1>4, <1>s, <2>2, <3>3, <3>4, <3>5 DEF TakenBy
  <2>3. CASE pc[t] \in {"look", "pause", "load", "release"}
    <3>1. LookServing(t) \/ EndPause(t) \/ LoadCount(t) \/ ReadServing(t)
      BY <2>3 DEF ThreadStep, TTASStep, TicketStep, BeginSlice, TakeTicket,
         StoreServing, StoreCount, AddShared, AddPrivate
    <3>2. pc \in [Thread -> {"idle", "begin", "done"} \cup LabelsOf(program)]
      BY DEF ScanOK
    <3>3. /\ \/ pc'[t] \in {"look", "pause", "load", "store"} /\ pc[t] # "release"
             \/ pc'[t] = "serve" /\ pc[t] = "release"
          /\ pc' = [pc EXCEPT ![t] = pc'[t]] /\ UNCHANGED <<pix, chan>>
      BY <2>3, <3>1, <3>2 DEF LookServing, EndPause, LoadCount, ReadServing
    <3>4. Inside(t)
      BY <2>3, <3>3 DEF Inside, LabelsOf
    <3>5. Passed(t, c)' = Passed(t, c)
      BY <1>0, <2>3, <3>3, <3>4, PassedInside DEF Counted
    <3>6. t \in InLine(c)' <=> t \in InLine(c)
      BY <1>0, <2>3, <3>3 DEF InLine
    <3>. QED
      BY <1>4, <1>s, <2>3, <3>3, <3>5, <3>6 DEF TakenBy
  <2>4. CASE pc[t] = "store"
    <3>1. StoreCount(t)
      BY <2>4 DEF ThreadStep, TTASStep, TicketStep, BeginSlice, TakeTicket, LookServing,
         EndPause, ReadServing, StoreServing, LoadCount, AddShared, AddPrivate
    <3>2. Inside(t) /\ pc'[t] = "release"
      BY <3>1 DEF StoreCount, Inside, ScanOK, LabelsOf
    <3>3. Passed(t, c)' = IF c = chan[t] THEN Passed(t, c) \cup {pix[t]} ELSE Passed(t, c)
      BY <1>0, <2>4, <3>2, PassedByStore DEF Counted
    <3>4. /\ t \in InLine(c) <=> c = chan[t]
          /\ t \in InLine(c)' <=> c = chan[t]
          /\ pix'[t] = pix[t]
      BY <1>0, <2>4, <3>2 DEF InLine, Inside
    <3>. QED
      BY <1>4, <1>s, <2>4, <3>3, <3>4 DEF TakenBy
  <2>5. CASE pc[t] = "serve"
    <3>1. StoreServing(t)
      BY <2>5 DEF ThreadStep, TTASStep, TicketStep, BeginSlice, TakeTicket, LookServing,
         EndPause, ReadServing, StoreCount, LoadCount, AddShared, AddPrivate
    <3>2. On(t)
      BY <3>1 DEF StoreServing, On, First, LabelsOf
    <3>3. Passed(t, c)' = Passed(t, c)
      BY <1>0, <2>5, <3>2, PassedByAdvance DEF Counted
    <3>4. pc'[t] \in {"take", "done"}
      BY <1>0, <3>2, Advanced DEF First
    <3>5. t \notin InLine(c)' /\ (t \in InLine(c) <=> c = chan[t])
      BY <2>5, <3>4 DEF InLine
    <3>6. c = chan[t] /\ pix[t] \in Start(t) .. End(t) - 1 => pix[t] \in Passed(t, c)
      BY <2>5 DEF Passed
    <3>. QED
      BY <1>4, <1>s, <2>5, <3>3, <3>5, <3>6 DEF TakenBy
  <2>. QED
    BY <2>1, <2>2, <2>3, <2>4, <2>5
<1>. QED
  BY <1>2, <1>3, <1>4

\* The pixels are a finite set.
LEMMA FinitePixels ==
  ASSUME input.size \in Nat
  PROVE  IsFiniteSet(0 .. input.size - 1) /\ Cardinality(0 .. input.size - 1) = input.size
<1>1. 0 \in Int /\ input.size - 1 \in Int
  OBVIOUS
<1>2. IsFiniteSet(0 .. input.size - 1)
  BY <1>1, FS_Interval, Zenon
<1>3. Cardinality(0 .. input.size - 1) = IF 0 > input.size - 1 THEN 0 ELSE (input.size - 1) - 0 + 1
  BY <1>1, FS_Interval, Zenon
<1>. QED
  BY <1>2, <1>3

\* The pixels with tickets are pixels.
LEMMA TakenBound ==
  ASSUME ScanOK, NEW c
  PROVE  Taken(c) \subseteq 0 .. input.size - 1 /\ IsFiniteSet(Taken(c)) /\ Cardinality(Taken(c)) <= input.size
<1>1. input.size \in Nat
  BY DEF ScanOK
<1>2. ASSUME NEW t \in Thread
      PROVE  TakenBy(t, c) \subseteq 0 .. input.size - 1
  <2>1. /\ Start(t) \in 0 .. input.size
        /\ End(t) \in 0 .. input.size
    BY <1>1, SlicesInRow
  <2>2. TakenBy(t, c) \subseteq Start(t) .. End(t) - 1
    BY DEF TakenBy
  <2>. QED
    BY <1>1, <2>1, <2>2
<1>3. Taken(c) \subseteq 0 .. input.size - 1
  BY <1>2 DEF Taken
<1>. QED
  BY <1>1, <1>3, FinitePixels, FS_Subset

\* No ticket has been taken for the pixel that a thread takes one for.
LEMMA NotTaken ==
  ASSUME ScanOK, NEW t \in Thread, program = "lock2", pc[t] = "take"
  PROVE  pix[t] \notin Taken(chan[t])
<1>1. /\ pix[t] \in Start(t) .. End(t) - 1
      /\ \A u \in Thread : pix[t] \notin Passed(u, chan[t])
  BY NotPassed DEF ScanOK, LabelsOf, Counted
<1>2. ASSUME NEW u \in Thread, pix[t] = pix[u], u \in InLine(chan[t])
      PROVE  FALSE
  <2>1. pc[u] \in LabelsOf(program) /\ u # t
    BY <1>2 DEF InLine, LabelsOf
  <2>2. pix[u] \in Start(u) .. End(u) - 1 /\ input.size \in Nat
    BY <2>1 DEF ScanOK
  <2>. QED
    BY <1>1, <1>2, <2>1, <2>2, OneSlice
<1>. QED
  BY <1>1, <1>2 DEF Taken, TakenBy

\* The number of tickets that have been taken is that of these pixels.
LEMMA TicketsByThread ==
  ASSUME ScanOK, LockTypeOK, TicketPerPixel, NEW t \in Thread, ThreadStep(t)
  PROVE  TicketPerPixel'
<1>0. program' = program /\ pc \in [Thread -> {"idle", "begin", "done"} \cup LabelsOf(program)]
  BY ThreadKind DEF ScanOK
<1>1. SUFFICES ASSUME program = "lock2", NEW c \in Channel
               PROVE  next_ticket'[c] = Cardinality(Taken(c)')
  BY <1>0 DEF TicketPerPixel
<1>2. next_ticket[c] = Cardinality(Taken(c)) /\ next_ticket \in [Channel -> Nat]
  BY <1>1 DEF TicketPerPixel, LockTypeOK
<1>3. CASE pc[t] = "take" /\ c = chan[t]
  <2>1. TakeTicket(t)
    BY <1>3 DEF ThreadStep, TTASStep, TicketStep, BeginSlice, LookServing, EndPause,
       ReadServing, StoreServing, LoadCount, StoreCount, AddShared, AddPrivate, TestFlag, ExchangeFlag, ClearFlag
  <2>2. next_ticket'[c] = next_ticket[c] + 1
    BY <1>2, <1>3, <2>1 DEF TakeTicket
  <2>3. \A u \in Thread : TakenBy(u, c)' = IF u = t THEN TakenBy(u, c) \cup {pix[t]} ELSE TakenBy(u, c)
    BY <1>1, <1>3, TakenByThread
  <2>4. Taken(c)' = Taken(c) \cup {pix[t]}
    BY <2>3 DEF Taken
  <2>5. pix[t] \notin Taken(c)
    BY <1>1, <1>3, NotTaken
  <2>6. IsFiniteSet(Taken(c))
    BY TakenBound
  <2>7. Cardinality(Taken(c) \cup {pix[t]}) = Cardinality(Taken(c)) + 1
    BY <2>5, <2>6, FS_AddElement
  <2>. QED
    BY <1>2, <2>2, <2>4, <2>7
<1>4. CASE ~(pc[t] = "take" /\ c = chan[t])
  <2>1. \A u \in Thread : TakenBy(u, c)' = TakenBy(u, c)
    BY <1>1, <1>4, TakenByThread
  <2>2. Taken(c)' = Taken(c)
    BY <2>1 DEF Taken
  <2>3. next_ticket'[c] = next_ticket[c]
    <3>1. TakeTicket(t) \/ UNCHANGED next_ticket
      BY <1>1 DEF ThreadStep, TTASStep, TicketStep, BeginSlice, LookServing, EndPause,
         ReadServing, StoreServing, LoadCount, StoreCount, AddShared, AddPrivate, ticketVars
    <3>2. CASE TakeTicket(t)
      BY <1>2, <1>4, <3>2 DEF TakeTicket
    <3>. QED
      BY <3>1, <3>2
  <2>. QED
    BY <1>2, <2>2, <2>3
<1>. QED
  BY <1>3, <1>4

LEMMA TicketsByOthers ==
  ASSUME ScanOK, Workers, TicketPerPixel, MainStep \/ FileStep
  PROVE  TicketPerPixel'
<1>1. UNCHANGED <<next_ticket, program>>
  BY DEF MainStep, FileStep, ticketVars, Merge
<1>2. ASSUME NEW c \in Channel PROVE Taken(c)' = Taken(c)
  <2>1. ASSUME NEW t \in Thread PROVE TakenBy(t, c)' = TakenBy(t, c)
    <3>1. Passed(t, c)' = Passed(t, c) /\ (t \in InLine(c)' <=> t \in InLine(c))
      BY CountedByMain, CountedByFile
    <3>2. CASE pc[t] # "idle"
      <4>1. main \notin {"read", "exit"}
        BY <3>2 DEF Workers
      <4>2. UNCHANGED <<input, pix>>
        BY <4>1 DEF MainStep, StartThread, JoinThread, Merge, FileStep, TakePicture, scanVars
      <4>3. Start(t)' = Start(t) /\ End(t)' = End(t)
        BY <4>2, SlicesStay
      <4>. QED
        BY <3>1, <4>2, <4>3 DEF TakenBy
    <3>3. CASE pc[t] = "idle"
      <4>1. Passed(t, c) = {} /\ t \notin InLine(c)
        BY <3>3 DEF Passed, InLine
      <4>. QED
        BY <3>1, <4>1 DEF TakenBy
    <3>. QED
      BY <3>2, <3>3
  <2>. QED
    BY <2>1 DEF Taken
<1>. QED
  BY <1>1, <1>2 DEF TicketPerPixel
-----------------------------------------------------------------------------
(***************************************************************************)
(* Every step keeps the locks in order.                                    *)
(***************************************************************************)
\* A beginning is no step of a lock.
LEMMA BeginLeaves ==
  ASSUME ScanOK, NEW t \in Thread, Begins(t), UNCHANGED <<input, program>>
  PROVE  /\ pc[t] = "begin" /\ pc'[t] \in {First, "done"}
         /\ First \notin Critical \cup {"look", "pause", "idle", "begin", "done"}
         /\ \A u \in Thread \ {t} : pc'[u] = pc[u] /\ pix'[u] = pix[u] /\ chan'[u] = chan[u]
<1>1. Start(t) \in Nat /\ Start(t) <= Start(t) /\ Start(t) <= End(t)
  BY SlicesInRow DEF ScanOK
<1>2. program \in Programs
  BY DEF ScanOK
<1>3. First \notin Critical \cup {"look", "pause", "idle", "begin", "done"}
  BY <1>2, Labels
<1>4. pc[t] = "begin" /\ ToPixel(t, Start(t), First)
  BY DEF Begins
<1>5. /\ pc'[t] \in {First, "done"}
      /\ \A u \in Thread \ {t} : pc'[u] = pc[u] /\ pix'[u] = pix[u] /\ chan'[u] = chan[u]
  BY <1>1, <1>4, PixelReached
<1>. QED
  BY <1>3, <1>4, <1>5

LEMMA LocksByTicket ==
  ASSUME ScanOK, ScanOK', LockTypeOK, Mutex, FlagHeld, Served, Line,
         NEW t \in Thread, TicketStep(t), program = "lock2", UNCHANGED <<input, program, f>>
  PROVE  LockTypeOK' /\ Mutex' /\ FlagHeld' /\ Served' /\ Line'
<1>0. pc \in [Thread -> {"idle", "begin", "done"} \cup LabelsOf(program)] /\ chan[t] \in Channel
  BY DEF ScanOK
<1>1. LockTypeOK' /\ Served' /\ Line'
  <2>1. CASE TakeTicket(t)
    BY <2>1, LineByTake
  <2>2. CASE LookServing(t)
    BY <2>2, LineByLook
  <2>3. CASE StoreServing(t)
    BY <2>3, LineByServe
  <2>4. CASE EndPause(t)
    <3>1. /\ pc[t] = "pause" /\ \A u \in Thread : pc'[u] = IF u = t THEN "look" ELSE pc[u]
          /\ UNCHANGED <<chan, next_ticket, now_serving, my_ticket, ns, serve>>
      BY <1>0, <2>4 DEF EndPause, ticketVars
    <3>2. LockTypeOK'
      BY <3>1 DEF LockTypeOK
    <3>3. \A u \in Thread : pc'[u] = "serve" => serve'[u] = now_serving[chan[u]] + 1
      BY <3>1 DEF Served
    <3>4. \A u \in Thread :
             /\ pc'[u] \in InLineLabel <=> pc[u] \in InLineLabel
             /\ pc'[u] \in Critical => pc[u] \in Critical
             /\ pc'[u] = "pause" => pc[u] = "pause"
      BY <3>1 DEF InLineLabel, Critical
    <3>. QED
      BY <3>1, <3>2, <3>3, <3>4, LineStays
  <2>5. CASE ReadServing(t)
    <3>1. /\ pc[t] = "release" /\ \A u \in Thread : pc'[u] = IF u = t THEN "serve" ELSE pc[u]
          /\ UNCHANGED <<chan, next_ticket, now_serving, my_ticket, ns>>
          /\ serve' = [serve EXCEPT ![t] = now_serving[chan[t]] + 1]
      BY <1>0, <2>5 DEF ReadServing
    <3>2. LockTypeOK'
      <4>1. now_serving[chan[t]] + 1 \in Nat /\ serve \in [Thread -> Nat]
        BY <1>0 DEF LockTypeOK
      <4>2. serve' \in [Thread -> Nat]
        BY <3>1, <4>1
      <4>. QED
        BY <3>1, <4>2 DEF LockTypeOK
    <3>3. \A u \in Thread : pc'[u] = "serve" => serve'[u] = now_serving[chan[u]] + 1
      BY <3>1 DEF Served, LockTypeOK
    <3>4. \A u \in Thread :
             /\ pc'[u] \in InLineLabel <=> pc[u] \in InLineLabel
             /\ pc'[u] \in Critical => pc[u] \in Critical
             /\ pc'[u] = "pause" => pc[u] = "pause"
      BY <3>1 DEF InLineLabel, Critical
    <3>. QED
      BY <3>1, <3>2, <3>3, <3>4, LineStays
  <2>. QED
    BY <2>1, <2>2, <2>3, <2>4, <2>5 DEF TicketStep
<1>2. Mutex'
  <2>1. SUFFICES ASSUME NEW u \in Thread, NEW w \in Thread, u # w,
                        pc'[u] \in Critical, pc'[w] \in Critical, chan'[u] = chan'[w]
                 PROVE  FALSE
    BY DEF Mutex
  <2>2. PICK c \in Channel : c = chan'[u]
    BY DEF ScanOK
  <2>3. u \in InLine(c)' /\ w \in InLine(c)'
    BY <2>1, <2>2 DEF InLine, Critical
  <2>4. my_ticket'[u] = now_serving'[c] /\ my_ticket'[w] = now_serving'[c]
    BY <1>1, <2>1, <2>3 DEF Served
  <2>5. my_ticket'[u] # my_ticket'[w]
    BY <1>1, <2>1, <2>3 DEF Line
  <2>. QED
    BY <2>4, <2>5
<1>3. FlagHeld'
  BY DEF FlagHeld
<1>. QED
  BY <1>1, <1>2, <1>3

\* Every step of a thread keeps the locks.
LEMMA LocksByThread ==
  ASSUME ScanOK, ScanOK', LockTypeOK, Mutex, FlagHeld, Served, Line,
         NEW t \in Thread, ThreadStep(t)
  PROVE  LockTypeOK' /\ Mutex' /\ FlagHeld' /\ Served' /\ Line'
<1>0. /\ UNCHANGED <<input, program>> /\ program \in Programs
      /\ pc \in [Thread -> {"idle", "begin", "done"} \cup LabelsOf(program)] /\ chan[t] \in Channel
  BY ThreadKind DEF ScanOK
<1>1. CASE TicketStep(t) /\ program = "lock2" /\ UNCHANGED <<f, countVars>>
  BY <1>0, <1>1, LocksByTicket
<1>2. CASE TTASStep(t) /\ program = "lock1" /\ UNCHANGED <<ticketVars, countVars>>
  <2>1. UNCHANGED <<next_ticket, now_serving, my_ticket, ns, serve>>
    BY <1>2 DEF ticketVars
  <2>2. Served' /\ Line'
    BY <1>0, <1>2, <2>1, LineStays
  <2>3. Mutex' /\ FlagHeld' /\ f' \in [Channel -> BOOLEAN]
    BY <1>0, <1>2, FlagByTTAS
  <2>. QED
    BY <2>1, <2>2, <2>3 DEF LockTypeOK
<1>3. ASSUME UNCHANGED <<f, ticketVars>>,
             \A u \in Thread \ {t} : pc'[u] = pc[u] /\ chan'[u] = chan[u],
             pc'[t] \in InLineLabel <=> pc[t] \in InLineLabel,
             pc'[t] \in Critical <=> pc[t] \in Critical,
             pc[t] \in InLineLabel => chan'[t] = chan[t],
             pc'[t] \notin {"pause", "serve"}
      PROVE  LockTypeOK' /\ Mutex' /\ FlagHeld' /\ Served' /\ Line'
  <2>1. UNCHANGED <<next_ticket, now_serving, my_ticket, ns, serve>>
    BY <1>3 DEF ticketVars
  <2>2. LockTypeOK'
    BY <1>3, <2>1 DEF LockTypeOK
  <2>3. \A u \in Thread :
           /\ pc'[u] \in InLineLabel <=> pc[u] \in InLineLabel
           /\ pc[u] \in InLineLabel => chan'[u] = chan[u]
           /\ pc'[u] \in Critical <=> pc[u] \in Critical
           /\ pc'[u] = "pause" => pc[u] = "pause"
           /\ pc'[u] = "serve" => pc[u] = "serve"
    BY <1>3
  <2>4. \A u \in Thread : pc'[u] = "serve" => serve'[u] = now_serving[chan[u]] + 1
    BY <2>1, <2>3 DEF Served
  <2>5. Served' /\ Line'
    BY <1>0, <2>1, <2>3, <2>4, LineStays
  <2>6. \A u \in Thread : pc[u] \in Critical => chan'[u] = chan[u]
    BY <2>3 DEF Critical, InLineLabel
  <2>7. Mutex' /\ FlagHeld'
    BY <1>0, <1>3, <2>3, <2>6, FlagStays
  <2>. QED
    BY <2>2, <2>5, <2>7
<1>4. CASE BeginSlice(t, First) /\ UNCHANGED <<f, ticketVars, countVars>>
  <2>1. Begins(t)
    BY <1>4 DEF BeginSlice, Begins
  <2>2. /\ pc[t] = "begin" /\ pc'[t] \in {First, "done"}
        /\ First \notin Critical \cup {"look", "pause", "idle", "begin", "done"}
        /\ \A u \in Thread \ {t} : pc'[u] = pc[u] /\ chan'[u] = chan[u]
    BY <1>0, <2>1, BeginLeaves
  <2>3. pc'[t] \notin InLineLabel \cup Critical /\ pc[t] \notin InLineLabel \cup Critical
    BY <2>2 DEF InLineLabel, Critical
  <2>. QED
    BY <1>3, <1>4, <2>2, <2>3 DEF InLineLabel
<1>5. CASE LoadCount(t)
  <2>1. /\ pc[t] = "load" /\ \A u \in Thread : pc'[u] = IF u = t THEN "store" ELSE pc[u]
        /\ UNCHANGED <<chan, f, ticketVars>>
    BY <1>0, <1>5 DEF LoadCount
  <2>. QED
    BY <1>3, <2>1 DEF InLineLabel, Critical
<1>6. CASE StoreCount(t)
  <2>1. /\ pc[t] = "store" /\ \A u \in Thread : pc'[u] = IF u = t THEN "release" ELSE pc[u]
        /\ UNCHANGED <<chan, f, ticketVars>>
    BY <1>0, <1>6 DEF StoreCount
  <2>. QED
    BY <1>3, <2>1 DEF InLineLabel, Critical
<1>7. CASE AddShared(t) \/ AddPrivate(t)
  <2>1. pc[t] = "add" /\ Advance(t, First) /\ UNCHANGED <<f, ticketVars>>
        /\ program \notin {"lock1", "lock2"}
    BY <1>7 DEF AddShared, AddPrivate
  <2>2. First = "add" /\ On(t)
    BY <1>0, <2>1 DEF First, On, LabelsOf
  <2>3. /\ pc'[t] \in {First, "done"}
        /\ \A u \in Thread \ {t} : pc'[u] = pc[u] /\ chan'[u] = chan[u]
    BY <1>0, <2>2, Advanced
  <2>. QED
    BY <1>3, <2>1, <2>2, <2>3 DEF InLineLabel, Critical
<1>. QED
  BY <1>1, <1>2, <1>4, <1>5, <1>6, <1>7 DEF ThreadStep

\* And every other step.
LEMMA LocksByOthers ==
  ASSUME ScanOK, ScanOK', LockTypeOK, Mutex, FlagHeld, Served, Line, Workers, MainStep \/ FileStep
  PROVE  LockTypeOK' /\ Mutex' /\ FlagHeld' /\ Served' /\ Line'
<1>1. UNCHANGED <<f, program, chan, next_ticket, now_serving, my_ticket, ns, serve>>
  BY DEF MainStep, FileStep, Merge, StartThread, JoinThread, TakePicture, ticketVars, scanVars
<1>2. \A u \in Thread : pc'[u] = pc[u] \/ (pc[u] = "idle" /\ pc'[u] = "begin")
  <2>1. CASE UNCHANGED pc
    BY <2>1
  <2>2. CASE StartThread
    <3>1. pc' = [pc EXCEPT ![i] = "begin"] /\ i \in Int /\ i >= i /\ i \in Thread /\ main = "start"
      BY <2>2 DEF StartThread, ScanOK, Thread
    <3>2. pc[i] = "idle"
      BY <3>1 DEF Workers
    <3>. QED
      BY <3>1, <3>2 DEF ScanOK
  <2>. QED
    BY <2>1, <2>2 DEF MainStep, FileStep, Merge, JoinThread, TakePicture, scanVars
<1>3. LockTypeOK'
  BY <1>1 DEF LockTypeOK
<1>4. \A u \in Thread :
         /\ pc'[u] \in InLineLabel <=> pc[u] \in InLineLabel
         /\ pc'[u] \in Critical <=> pc[u] \in Critical
         /\ pc'[u] = "pause" => pc[u] = "pause"
         /\ pc'[u] = "serve" => pc[u] = "serve"
  BY <1>2 DEF InLineLabel, Critical
<1>5. \A u \in Thread : pc'[u] = "serve" => serve'[u] = now_serving[chan[u]] + 1
  BY <1>1, <1>4 DEF Served
<1>6. Served' /\ Line'
  BY <1>1, <1>4, <1>5, LineStays
<1>7. Mutex' /\ FlagHeld'
  BY <1>1, <1>4, FlagStays
<1>. QED
  BY <1>3, <1>6, <1>7
-----------------------------------------------------------------------------
(***************************************************************************)
(* The counts.                                                             *)
(***************************************************************************)
\* The next step of thread t counts its pixel.
Counting(t) == pc[t] \in {"store", "add"}

\* The pixels of a slice, and those of them that are counted, are finite sets.
LEMMA FiniteSlice ==
  ASSUME input.size \in Nat, NEW t \in Thread
  PROVE  /\ Start(t) .. End(t) - 1 \subseteq 0 .. input.size - 1
         /\ \A S \in SUBSET (0 .. input.size - 1) : IsFiniteSet(S)
<1>1. Start(t) \in 0 .. input.size /\ End(t) \in 0 .. input.size
  BY SlicesInRow
<1>2. Start(t) .. End(t) - 1 \subseteq 0 .. input.size - 1
  BY <1>1
<1>. QED
  BY <1>2, FinitePixels, FS_Subset

LEMMA InHistFinite ==
  ASSUME input.size \in Nat, NEW c
  PROVE  InHist(c) \subseteq 0 .. input.size - 1 /\ IsFiniteSet(InHist(c))
<1>1. \A t \in Thread : /\ Start(t) .. End(t) - 1 \subseteq 0 .. input.size - 1
                        /\ Passed(t, c) \subseteq Start(t) .. End(t) - 1
  BY FiniteSlice DEF Passed
<1>2. InHist(c) \subseteq 0 .. input.size - 1
  BY <1>1 DEF InHist, Merged
<1>. QED
  BY <1>2, FinitePixels, FS_Subset

\* One more pixel is one more pixel of its value.
LEMMA HowManyAdd ==
  ASSUME NEW S, IsFiniteSet(S), NEW p, p \notin S, NEW c, NEW v
  PROVE  /\ HowMany(S, c, v) \in Nat
         /\ HowMany(S \cup {p}, c, v) = IF input.rgb[c][p] = v THEN HowMany(S, c, v) + 1
                                                              ELSE HowMany(S, c, v)
<1>. DEFINE F == { q \in S : input.rgb[c][q] = v }
<1>1. IsFiniteSet(F) /\ Cardinality(F) \in Nat
  BY FS_Subset, FS_CardinalityType
<1>2. CASE input.rgb[c][p] = v
  <2>1. { q \in S \cup {p} : input.rgb[c][q] = v } = F \cup {p} /\ p \notin F
    BY <1>2
  <2>2. Cardinality(F \cup {p}) = Cardinality(F) + 1
    BY <1>1, <2>1, FS_AddElement
  <2>. QED
    BY <1>1, <1>2, <2>1, <2>2 DEF HowMany
<1>3. CASE input.rgb[c][p] # v
  <2>1. { q \in S \cup {p} : input.rgb[c][q] = v } = F
    BY <1>3
  <2>. QED
    BY <1>1, <1>3, <2>1 DEF HowMany
<1>. QED
  BY <1>2, <1>3

\* Pixels of two sets that have none in common.
LEMMA HowManyUnion ==
  ASSUME NEW S, IsFiniteSet(S), NEW T, IsFiniteSet(T), S \cap T = {}, NEW c, NEW v
  PROVE  HowMany(S \cup T, c, v) = HowMany(S, c, v) + HowMany(T, c, v)
<1>. DEFINE F(U) == { q \in U : input.rgb[c][q] = v }
<1>1. IsFiniteSet(F(S)) /\ IsFiniteSet(F(T))
  BY FS_Subset
<1>2. F(S \cup T) = F(S) \cup F(T) /\ F(S) \cap F(T) = {}
  OBVIOUS
<1>3. Cardinality(F(S) \cup F(T)) = Cardinality(F(S)) + Cardinality(F(T)) - Cardinality(F(S) \cap F(T))
  <2>. HIDE DEF F
  <2>. QED
    BY <1>1, FS_Union
<1>4. Cardinality(F(S) \cap F(T)) = 0
  BY <1>2, FS_EmptySet
<1>5. Cardinality(F(S)) \in Nat /\ Cardinality(F(T)) \in Nat
  <2>. HIDE DEF F
  <2>. QED
    BY <1>1, FS_CardinalityType
<1>6. Cardinality(F(S \cup T)) = Cardinality(F(S)) + Cardinality(F(T))
  <2>1. Cardinality(F(S \cup T)) = Cardinality(F(S) \cup F(T))
    BY <1>2, Zenon
  <2>. HIDE DEF F
  <2>. QED
    BY <1>3, <1>4, <1>5, <2>1
<1>. QED
  BY <1>6 DEF HowMany

\* The pixels that a step of a thread adds to the counted ones.
LEMMA PassedByThread ==
  ASSUME ScanOK, NEW t \in Thread, ThreadStep(t), NEW c \in Channel, NEW u \in Thread
  PROVE  Passed(u, c)' = IF u = t /\ Counting(t) /\ c = chan[t]
                         THEN Passed(u, c) \cup {pix[t]} ELSE Passed(u, c)
<1>0. /\ UNCHANGED <<input, program>> /\ program \in Programs
      /\ pc \in [Thread -> {"idle", "begin", "done"} \cup LabelsOf(program)]
  BY ThreadKind DEF ScanOK
<1>1. CASE u # t
  <2>1. pc'[u] = pc[u] /\ pix'[u] = pix[u] /\ chan'[u] = chan[u]
    <3>1. CASE Inside(t)
      BY <1>1, <3>1 DEF Inside, ScanOK
    <3>2. CASE On(t)
      BY <1>0, <1>1, <3>2, Advanced
    <3>3. CASE Begins(t)
      BY <1>0, <1>1, <3>3, BeginLeaves
    <3>. QED
      BY <3>1, <3>2, <3>3, ThreadKind
  <2>. QED
    BY <1>0, <1>1, <2>1, PassedByOthers
<1>2. CASE u = t /\ BeginSlice(t, First)
  <2>1. Begins(t)
    BY <1>2 DEF BeginSlice, Begins
  <2>2. pc[t] = "begin"
    BY <2>1 DEF Begins
  <2>. QED
    BY <1>0, <1>2, <2>1, <2>2, PassedAtBegin DEF Counting
<1>3. CASE u = t /\ (ClearFlag(t) \/ StoreServing(t)) /\ pc[t] \in LabelsOf(program)
           /\ program \in {"lock1", "lock2"} /\ Advance(t, First)
  <2>1. On(t) /\ pc[t] \in Counted
    BY <1>3 DEF On, ClearFlag, StoreServing, Counted
  <2>2. Passed(t, c)' = Passed(t, c)
    BY <1>0, <2>1, PassedByAdvance
  <2>. QED
    BY <1>3, <2>1, <2>2 DEF Counting, Counted
<1>4. CASE u = t /\ (AddShared(t) \/ AddPrivate(t))
  <2>1. pc[t] = "add" /\ Advance(t, First)
    BY <1>4 DEF AddShared, AddPrivate
  <2>2. On(t) /\ pc[t] \notin Counted
    BY <2>1, LabelProgram DEF On, Counted
  <2>3. Passed(t, c)' = IF c = chan[t] THEN Passed(t, c) \cup {pix[t]} ELSE Passed(t, c)
    BY <1>0, <2>2, PassedByAdvance
  <2>. QED
    BY <1>4, <2>1, <2>3 DEF Counting
<1>5. CASE u = t /\ StoreCount(t)
  <2>1. pc[t] = "store" /\ pc' = [pc EXCEPT ![t] = "release"] /\ UNCHANGED <<pix, chan>>
    BY <1>5 DEF StoreCount
  <2>2. program \in {"lock1", "lock2"}
    BY <2>1, LabelProgram
  <2>3. Inside(t) /\ pc'[t] = "release"
    BY <1>0, <2>1, <2>2, Labels DEF Inside
  <2>4. Passed(t, c)' = IF c = chan[t] THEN Passed(t, c) \cup {pix[t]} ELSE Passed(t, c)
    BY <1>0, <2>1, <2>3, PassedByStore DEF Counted
  <2>. QED
    BY <1>5, <2>1, <2>4 DEF Counting
<1>6. CASE u = t /\ (TestFlag(t) \/ ExchangeFlag(t) \/ LoadCount(t) \/ TakeTicket(t) \/ LookServing(t)
                       \/ EndPause(t) \/ ReadServing(t))
  <2>1. /\ pc[t] \in {"test", "exchange", "load", "take", "look", "pause", "release"}
        /\ pc' = [pc EXCEPT ![t] = pc'[t]] /\ UNCHANGED <<pix, chan>>
        /\ pc'[t] \in {"test", "exchange", "load", "store", "look", "pause", "serve"}
        /\ pc[t] = "release" <=> pc'[t] = "serve"
    BY <1>0, <1>6 DEF TestFlag, ExchangeFlag, LoadCount, TakeTicket, LookServing, EndPause, ReadServing
  <2>2. Inside(t)
    <3>1. ~Begins(t)
      BY <2>1 DEF Begins
    <3>2. CASE On(t)
      <4>1. pc'[t] \in {First, "done"} /\ pix'[t] = pix[t] /\ chan'[t] = chan[t] /\ chan[t] \in Int /\ pix[t] \in Int
        BY <1>0, <2>1, <3>2, Advanced DEF ScanOK, Channel
      <4>. QED
        BY <1>0, <3>2, <4>1, Advanced
    <3>. QED
      BY <3>1, <3>2, ThreadKind
  <2>3. pc[t] \in Counted <=> pc'[t] \in Counted
    BY <2>1 DEF Counted
  <2>4. Passed(t, c)' = Passed(t, c)
    BY <1>0, <2>2, <2>3, PassedInside
  <2>. QED
    BY <1>6, <2>1, <2>4 DEF Counting
<1>7. CASE ClearFlag(t) /\ program = "lock1"
  BY <1>1, <1>3, <1>7, <1>0, Labels DEF ClearFlag
<1>8. CASE StoreServing(t) /\ program = "lock2"
  BY <1>1, <1>3, <1>8, <1>0, Labels DEF StoreServing
<1>. QED
  BY <1>1, <1>2, <1>4, <1>5, <1>6, <1>7, <1>8 DEF ThreadStep, TTASStep, TicketStep
\* The entries that a step of a thread changes.
LEMMA CountsByThread ==
  ASSUME ScanOK, CountTypeOK, Held, NEW t \in Thread, ThreadStep(t)
  PROVE  /\ CountTypeOK'
         /\ \A c \in Channel, v \in Value :
              hist'[c][v] = IF Counting(t) /\ program # "private" /\ c = chan[t] /\ v = Bucket(t)
                            THEN hist[c][v] + 1 ELSE hist[c][v]
         /\ \A u \in Thread, c \in Channel, v \in Value :
              p_hist'[u][c][v] = IF Counting(t) /\ program = "private" /\ u = t
                                    /\ c = chan[t] /\ v = Bucket(t)
                                 THEN p_hist[u][c][v] + 1 ELSE p_hist[u][c][v]
         /\ pc[t] # "load" => register' = register
         /\ \A u \in Thread : register'[u] = IF u = t /\ pc[t] = "load"
                                             THEN hist[chan[t]][Bucket(t)] ELSE register[u]
<1>0. /\ UNCHANGED <<input, program>> /\ chan[t] \in Channel
      /\ Value' = Value
  BY ThreadKind DEF ScanOK, Value
<1>t. /\ hist \in [Channel -> [Value -> Nat]]
      /\ p_hist \in [Thread -> [Channel -> [Value -> Nat]]]
      /\ DOMAIN register = Thread /\ register = [u \in Thread |-> register[u]]
  BY DEF CountTypeOK
<1>n. \A c \in Channel, v \in Value : hist[c][v] \in Nat /\ hist[c][v] + 1 \in Nat
  BY <1>t
<1>p. \A u \in Thread, c \in Channel, v \in Value : p_hist[u][c][v] + 1 \in Nat
  BY <1>t
<1>1. CASE ~Counting(t) /\ pc[t] # "load"
  <2>1. UNCHANGED <<hist, p_hist, register>>
    BY <1>1 DEF ThreadStep, BeginSlice, TTASStep, TestFlag, ExchangeFlag, ClearFlag, TicketStep,
       TakeTicket, LookServing, EndPause, ReadServing, StoreServing, LoadCount, StoreCount,
       AddShared, AddPrivate, Counting, countVars
  <2>. QED
    BY <1>0, <1>1, <1>t, <2>1 DEF CountTypeOK
<1>2. CASE pc[t] = "load"
  <2>1. LoadCount(t)
    BY <1>2 DEF ThreadStep, BeginSlice, TTASStep, TestFlag, ExchangeFlag, ClearFlag, TicketStep,
       TakeTicket, LookServing, EndPause, ReadServing, StoreServing, StoreCount,
       AddShared, AddPrivate
  <2>2. /\ UNCHANGED <<hist, p_hist>>
        /\ register' = [register EXCEPT ![t] = hist[chan[t]][Bucket(t)]]
    BY <2>1 DEF LoadCount
  <2>3. /\ DOMAIN register' = Thread /\ register' = [u \in Thread |-> register'[u]]
        /\ \A u \in Thread : register'[u] = IF u = t THEN hist[chan[t]][Bucket(t)] ELSE register[u]
    BY <1>t, <2>2
  <2>. QED
    BY <1>0, <1>2, <1>t, <2>2, <2>3 DEF CountTypeOK, Counting
<1>3. CASE pc[t] = "store"
  <2>1. StoreCount(t)
    BY <1>3 DEF ThreadStep, BeginSlice, TTASStep, TestFlag, ExchangeFlag, ClearFlag, TicketStep,
       TakeTicket, LookServing, EndPause, ReadServing, StoreServing, LoadCount,
       AddShared, AddPrivate
  <2>2. /\ UNCHANGED <<p_hist, register>>
        /\ hist' = [hist EXCEPT ![chan[t]][Bucket(t)] = hist[chan[t]][Bucket(t)] + 1]
    BY <1>3, <2>1 DEF StoreCount, Held, countVars
  <2>3. program # "private" /\ Counting(t)
    BY <1>3, LabelProgram DEF Counting
  <2>4. /\ hist' \in [Channel -> [Value -> Nat]]
        /\ \A c \in Channel, v \in Value :
              hist'[c][v] = IF c = chan[t] /\ v = Bucket(t) THEN hist[c][v] + 1 ELSE hist[c][v]
    BY <1>0, <1>t, <1>n, <2>2
  <2>. QED
    BY <1>0, <1>3, <1>t, <2>2, <2>3, <2>4 DEF CountTypeOK
<1>4. CASE pc[t] = "add"
  <2>1. AddShared(t) \/ AddPrivate(t)
    BY <1>4 DEF ThreadStep, BeginSlice, TTASStep, TestFlag, ExchangeFlag, ClearFlag, TicketStep,
       TakeTicket, LookServing, EndPause, ReadServing, StoreServing, LoadCount, StoreCount
  <2>2. Counting(t)
    BY <1>4 DEF Counting
  <2>3. CASE AddShared(t)
    <3>1. /\ UNCHANGED <<p_hist, register>> /\ program # "private"
          /\ hist' = [hist EXCEPT ![chan[t]][Bucket(t)] = hist[chan[t]][Bucket(t)] + 1]
      BY <2>3 DEF AddShared, countVars
    <3>2. /\ hist' \in [Channel -> [Value -> Nat]]
          /\ \A c \in Channel, v \in Value :
                hist'[c][v] = IF c = chan[t] /\ v = Bucket(t) THEN hist[c][v] + 1 ELSE hist[c][v]
      BY <1>0, <1>t, <1>n, <3>1
    <3>. QED
      BY <1>0, <1>4, <1>t, <2>2, <3>1, <3>2 DEF CountTypeOK
  <2>4. CASE AddPrivate(t)
    <3>1. /\ UNCHANGED <<hist, register>> /\ program = "private"
          /\ p_hist' = [p_hist EXCEPT ![t][chan[t]][Bucket(t)] = p_hist[t][chan[t]][Bucket(t)] + 1]
      BY <2>4 DEF AddPrivate
    <3>2. p_hist' = [p_hist EXCEPT ![t] = [p_hist[t] EXCEPT ![chan[t]][Bucket(t)] = p_hist[t][chan[t]][Bucket(t)] + 1]]
      BY <1>0, <1>t, <3>1
    <3>3. p_hist[t] \in [Channel -> [Value -> Nat]]
      BY <1>t
    <3>. DEFINE h == [p_hist[t] EXCEPT ![chan[t]][Bucket(t)] = p_hist[t][chan[t]][Bucket(t)] + 1]
    <3>4. /\ h \in [Channel -> [Value -> Nat]]
          /\ \A c \in Channel, v \in Value :
                h[c][v] = IF c = chan[t] /\ v = Bucket(t) THEN p_hist[t][c][v] + 1 ELSE p_hist[t][c][v]
      BY <1>0, <1>p, <3>3
    <3>5. p_hist' = [p_hist EXCEPT ![t] = h]
      BY <3>2
    <3>. HIDE DEF h
    <3>6. /\ p_hist' \in [Thread -> [Channel -> [Value -> Nat]]]
          /\ \A u \in Thread : p_hist'[u] = IF u = t THEN h ELSE p_hist[u]
      BY <1>t, <3>4, <3>5
    <3>7. \A u \in Thread, c \in Channel, v \in Value :
             p_hist'[u][c][v] = IF u = t /\ c = chan[t] /\ v = Bucket(t)
                                THEN p_hist[u][c][v] + 1 ELSE p_hist[u][c][v]
      BY <3>4, <3>6
    <3>. QED
      BY <1>0, <1>4, <1>t, <2>2, <3>1, <3>6, <3>7 DEF CountTypeOK
  <2>. QED
    BY <2>1, <2>3, <2>4
<1>. QED
  BY <1>1, <1>2, <1>3, <1>4 DEF Counting

\* A step of a thread leaves the pixel and the channel of a thread that is in
\* the middle of an increment, and the entry that it has loaded.
LEMMA HeldByThread ==
  ASSUME ScanOK, ScanOK', CountTypeOK, Mutex, Held, NEW t \in Thread, ThreadStep(t)
  PROVE  Held'
<1>0. /\ UNCHANGED <<input, program>> /\ program \in Programs
      /\ pc \in [Thread -> {"idle", "begin", "done"} \cup LabelsOf(program)]
  BY ThreadKind DEF ScanOK
<1>1. SUFFICES ASSUME NEW u \in Thread, pc'[u] = "store"
               PROVE  register'[u] = hist'[chan'[u]][Bucket(u)']
  BY DEF Held
<1>2. CASE u = t
  <2>1. LoadCount(t)
    <3>1. CASE On(t) \/ Begins(t)
      <4>1. pc'[t] \in {First, "done"} /\ First # "store"
        <5>1. First # "store"
          BY <1>0, Labels DEF Critical
        <5>. QED
          BY <1>0, <3>1, <5>1, Advanced, BeginLeaves
      <4>. QED
        BY <1>1, <1>2, <4>1
    <3>2. CASE Inside(t)
      <4>1. pc[t] \in LabelsOf(program) /\ UNCHANGED <<pix, chan>>
        BY <3>2 DEF Inside
      <4>2. ~BeginSlice(t, First)
        BY <1>0, <4>1, Labels DEF BeginSlice
      <4>3. ~AddShared(t) /\ ~AddPrivate(t)
        <5>1. SUFFICES ASSUME pc[t] = "add", Advance(t, First) PROVE FALSE
          BY DEF AddShared, AddPrivate
        <5>2. On(t)
          BY <4>1, <5>1 DEF On
        <5>3. pc'[t] \in {First, "done"} /\ First # "store"
          BY <1>0, <5>2, Advanced, Labels DEF Critical
        <5>. QED
          BY <1>1, <1>2, <5>3
      <4>4. ~ClearFlag(t) /\ ~StoreServing(t)
        <5>1. SUFFICES ASSUME ClearFlag(t) \/ StoreServing(t) PROVE FALSE
          OBVIOUS
        <5>2. pix[t] \in Int /\ chan[t] \in Int
          BY DEF ScanOK, Channel
        <5>3. chan' # chan
          <6>1. chan'[t] = chan[t] + 1 \/ (chan[t] = 3 /\ chan'[t] = 1)
            BY <5>1, <5>2 DEF ClearFlag, StoreServing, Advance, ToPixel, ScanOK
          <6>. QED
            BY <5>2, <6>1
        <5>. QED
          BY <4>1, <5>3
      <4>. QED
        BY <1>0, <1>1, <1>2, <4>2, <4>3, <4>4
           DEF ThreadStep, TTASStep, TestFlag, ExchangeFlag, TicketStep, TakeTicket, LookServing,
               EndPause, ReadServing, StoreCount
    <3>. QED
      BY <3>1, <3>2, ThreadKind
  <2>2. register'[t] = hist[chan[t]][Bucket(t)]
    BY <2>1, CountsByThread DEF LoadCount
  <2>3. Bucket(t)' = Bucket(t) /\ UNCHANGED <<hist, chan>>
    BY <2>1 DEF LoadCount, Bucket
  <2>. QED
    BY <1>2, <2>2, <2>3
<1>3. CASE u # t
  <2>1. pc[u] = "store" /\ pix'[u] = pix[u] /\ chan'[u] = chan[u]
    <3>1. CASE Inside(t)
      BY <1>0, <1>1, <1>3, <3>1 DEF Inside
    <3>2. CASE On(t)
      BY <1>0, <1>1, <1>3, <3>2, Advanced
    <3>3. CASE Begins(t)
      BY <1>0, <1>1, <1>3, <3>3, BeginLeaves
    <3>. QED
      BY <3>1, <3>2, <3>3, ThreadKind
  <2>2. register'[u] = hist[chan[u]][Bucket(u)] /\ Bucket(u)' = Bucket(u)
    BY <1>0, <1>3, <2>1, CountsByThread DEF Held, Bucket
  <2>3. program \in {"lock1", "lock2"}
    BY <2>1, LabelProgram
  <2>4. pc[t] = "store" => chan[t] # chan[u]
    BY <1>3, <2>1 DEF Mutex, Critical
  <2>5. hist'[chan[u]] = hist[chan[u]]
    <3>1. chan[t] \in Channel /\ chan[u] \in Channel /\ hist \in [Channel -> [Value -> Nat]]
      BY DEF ScanOK, CountTypeOK
    <3>2. CASE pc[t] = "store"
      <4>1. StoreCount(t)
        BY <3>2 DEF ThreadStep, BeginSlice, TTASStep, TestFlag, ExchangeFlag, ClearFlag, TicketStep,
           TakeTicket, LookServing, EndPause, ReadServing, StoreServing, LoadCount,
           AddShared, AddPrivate
      <4>2. hist' = [hist EXCEPT ![chan[t]][Bucket(t)] = register[t] + 1]
        BY <4>1 DEF StoreCount
      <4>. QED
        BY <2>4, <3>1, <3>2, <4>2
    <3>3. CASE pc[t] # "store"
      <4>1. hist' = hist
        BY <2>3, <3>3 DEF ThreadStep, BeginSlice, TTASStep, TestFlag, ExchangeFlag, ClearFlag, TicketStep,
           TakeTicket, LookServing, EndPause, ReadServing, StoreServing, LoadCount, StoreCount,
           AddShared, AddPrivate
      <4>. QED
        BY <4>1
    <3>. QED
      BY <3>2, <3>3
  <2>. QED
    BY <2>1, <2>2, <2>5
<1>. QED
  BY <1>2, <1>3

\* A step of a thread counts what it says.
LEMMA NothingLostByThread ==
  ASSUME ScanOK, CountTypeOK, Held, NothingLost, NEW t \in Thread, ThreadStep(t)
  PROVE  NothingLost'
<1>0. /\ UNCHANGED <<input, main, i, program>> /\ input.size \in Nat /\ chan[t] \in Channel
      /\ Value' = Value
  BY ThreadKind DEF ScanOK, Value
<1>s. \A u \in Thread : Start(u)' = Start(u) /\ End(u)' = End(u)
  BY <1>0, SlicesStay
<1>p. Counting(t) => /\ \A u \in Thread : pix[t] \notin Passed(u, chan[t])
                     /\ Bucket(t) = input.rgb[chan[t]][pix[t]]
  <2>1. SUFFICES ASSUME Counting(t) PROVE \A u \in Thread : pix[t] \notin Passed(u, chan[t])
    BY DEF Bucket
  <2>2. pc[t] \in LabelsOf(program) /\ pc[t] \notin Counted
    BY <2>1, LabelProgram DEF Counting, Counted
  <2>. QED
    BY <2>2, NotPassed
<1>1. ASSUME NEW c \in Channel, NEW v \in Value
      PROVE  hist'[c][v] = HowMany(InHist(c)', c, v)
  <2>1. hist[c][v] = HowMany(InHist(c), c, v)
    BY DEF NothingLost
  <2>2. IsFiniteSet(InHist(c))
    BY <1>0, InHistFinite
  <2>3. CASE program # "private"
    <3>1. InHist(c) = UNION { Passed(u, c) : u \in Thread }
      BY <2>3 DEF InHist
    <3>2. InHist(c)' = UNION { Passed(u, c)' : u \in Thread }
      BY <1>0, <2>3 DEF InHist
    <3>3. CASE Counting(t) /\ c = chan[t]
      <4>1. \A u \in Thread : Passed(u, c)' = IF u = t THEN Passed(u, c) \cup {pix[t]} ELSE Passed(u, c)
        BY <3>3, PassedByThread
      <4>2. InHist(c)' = InHist(c) \cup {pix[t]}
        BY <3>1, <3>2, <4>1
      <4>3. pix[t] \notin InHist(c)
        BY <1>p, <3>1, <3>3
      <4>4. hist'[c][v] = IF v = input.rgb[c][pix[t]] THEN hist[c][v] + 1 ELSE hist[c][v]
        BY <1>p, <2>3, <3>3, CountsByThread
      <4>. HIDE DEF InHist
      <4>5. HowMany(InHist(c) \cup {pix[t]}, c, v) = IF input.rgb[c][pix[t]] = v THEN HowMany(InHist(c), c, v) + 1
                                                     ELSE HowMany(InHist(c), c, v)
        BY <2>2, <4>3, HowManyAdd
      <4>. QED
        BY <2>1, <4>2, <4>4, <4>5
    <3>4. CASE ~(Counting(t) /\ c = chan[t])
      <4>1. \A u \in Thread : Passed(u, c)' = Passed(u, c)
        BY <3>4, PassedByThread
      <4>2. InHist(c)' = InHist(c)
        BY <3>1, <3>2, <4>1
      <4>3. hist'[c][v] = hist[c][v]
        BY <3>4, CountsByThread
      <4>. QED
        BY <2>1, <4>2, <4>3
    <3>. QED
      BY <3>3, <3>4
  <2>4. CASE program = "private"
    <3>1. InHist(c)' = InHist(c)
      <4>1. Merged' = Merged
        BY <1>0 DEF Merged
      <4>. QED
        BY <1>0, <1>s, <2>4, <4>1 DEF InHist, Merged
    <3>2. hist'[c][v] = hist[c][v]
      BY <2>4, CountsByThread
    <3>. QED
      BY <2>1, <3>1, <3>2
  <2>. QED
    BY <2>3, <2>4
<1>2. ASSUME NEW c \in Channel, NEW v \in Value, NEW u \in Thread
      PROVE  p_hist'[u][c][v] = HowMany(InPrivate(u, c)', c, v)
  <2>1. p_hist[u][c][v] = HowMany(InPrivate(u, c), c, v)
    BY DEF NothingLost
  <2>2. CASE program # "private"
    <3>1. InPrivate(u, c)' = {} /\ InPrivate(u, c) = {}
      BY <1>0, <2>2 DEF InPrivate
    <3>2. p_hist'[u][c][v] = p_hist[u][c][v]
      BY <2>2, CountsByThread
    <3>. QED
      BY <2>1, <3>1, <3>2
  <2>3. CASE program = "private"
    <3>1. InPrivate(u, c) = Passed(u, c) /\ InPrivate(u, c)' = Passed(u, c)'
      BY <1>0, <2>3 DEF InPrivate
    <3>2. IsFiniteSet(Passed(u, c))
      BY <1>0, FiniteSlice DEF Passed
    <3>3. CASE u = t /\ Counting(t) /\ c = chan[t]
      <4>1. Passed(u, c)' = Passed(u, c) \cup {pix[t]} /\ pix[t] \notin Passed(u, c)
        BY <1>p, <3>3, PassedByThread
      <4>2. p_hist'[u][c][v] = IF v = input.rgb[c][pix[t]] THEN p_hist[u][c][v] + 1 ELSE p_hist[u][c][v]
        BY <1>p, <2>3, <3>3, CountsByThread
      <4>3. HowMany(Passed(u, c) \cup {pix[t]}, c, v) = IF input.rgb[c][pix[t]] = v THEN HowMany(Passed(u, c), c, v) + 1
                                                        ELSE HowMany(Passed(u, c), c, v)
        <5>1. pix[t] \notin Passed(u, c)
          BY <4>1
        <5>. QED
          BY <3>2, <5>1, HowManyAdd
      <4>. QED
        BY <2>1, <3>1, <4>1, <4>2, <4>3
    <3>4. CASE ~(u = t /\ Counting(t) /\ c = chan[t])
      <4>1. Passed(u, c)' = Passed(u, c)
        BY <3>4, PassedByThread
      <4>2. p_hist'[u][c][v] = p_hist[u][c][v]
        BY <3>4, CountsByThread
      <4>. QED
        BY <2>1, <3>1, <4>1, <4>2
    <3>. QED
      BY <3>3, <3>4
  <2>. QED
    BY <2>2, <2>3
<1>. QED
  BY <1>0, <1>1, <1>2 DEF NothingLost, HowMany

\* Before main has taken the picture, and while no thread has begun, nothing is
\* counted.
LEMMA NothingCounted ==
  ASSUME \A t \in Thread : pc[t] \in {"idle", "begin"}, main \notin {"merge", "done"}
  PROVE  \A c, t : InHist(c) = {} /\ (t \in Thread => InPrivate(t, c) = {})
<1>1. \A t \in Thread : \A c : Passed(t, c) = {}
  BY DEF Passed
<1>2. Merged = {}
  BY DEF Merged
<1>. QED
  BY <1>1, <1>2 DEF InHist, InPrivate

LEMMA NothingLostByFile ==
  ASSUME ScanOK, Workers, CountTypeOK, NothingLost, Held, FileStep
  PROVE  CountTypeOK' /\ NothingLost' /\ Held'
<1>1. CASE UNCHANGED <<scanVars, p_hist>>
  <2>1. UNCHANGED <<input, hist, main, i, pc, pix, chan, p_hist, register, program>>
    BY <1>1 DEF scanVars, FileStep
  <2>2. CountTypeOK'
    BY <2>1 DEF CountTypeOK, Value
  <2>3. \A t \in Thread : Start(t)' = Start(t) /\ End(t)' = End(t)
    BY <2>1, SlicesStay
  <2>4. \A t \in Thread : \A c : Passed(t, c)' = Passed(t, c)
    BY <2>1, PassedByOthers
  <2>5. \A c : InHist(c)' = InHist(c)
    BY <2>1, <2>3, <2>4 DEF InHist, Merged
  <2>6. \A t \in Thread : \A c : InPrivate(t, c)' = InPrivate(t, c)
    BY <2>1, <2>4 DEF InPrivate
  <2>7. NothingLost'
    BY <2>1, <2>5, <2>6 DEF NothingLost, HowMany, Value
  <2>8. Held'
    BY <2>1 DEF Held, Bucket
  <2>. QED
    BY <2>2, <2>7, <2>8
<1>2. CASE TakePicture /\ p_hist' = [t \in Thread |-> Zeros']
  <2>1. /\ main = "read" /\ main' \in {"start", "exit"} /\ UNCHANGED <<pc, register>>
        /\ \A t \in Thread : pc[t] = "idle"
    BY <1>2 DEF TakePicture, Workers, FileStep
  <2>2. Zeros' \in [Channel -> [Value' -> Nat]] /\ \A c \in Channel, v \in Value' : Zeros'[c][v] = 0
    BY DEF Zeros
  <2>3. /\ hist' \in [Channel -> [Value' -> Nat]]
        /\ \A c \in Channel, v \in Value' : hist'[c][v] = 0
    <3>1. CASE hist' = Zeros'
      BY <2>2, <3>1
    <3>2. CASE UNCHANGED <<input, hist>>
      <4>1. Value' = Value
        BY <3>2 DEF Value
      <4>2. \A c \in Channel, v \in Value : hist[c][v] = HowMany({}, c, v)
        BY <2>1, NothingCounted DEF NothingLost
      <4>3. \A c, v : HowMany({}, c, v) = 0
        BY FS_EmptySet DEF HowMany
      <4>. QED
        BY <3>2, <4>1, <4>2, <4>3 DEF CountTypeOK
    <3>. QED
      BY <1>2, <3>1, <3>2 DEF TakePicture
  <2>4. /\ p_hist' \in [Thread -> [Channel -> [Value' -> Nat]]]
        /\ \A t \in Thread, c \in Channel, v \in Value' : p_hist'[t][c][v] = 0
    BY <1>2, <2>2
  <2>5. CountTypeOK'
    BY <2>1, <2>3, <2>4 DEF CountTypeOK
  <2>6. \A t \in Thread : \A c : Passed(t, c)' = {}
    BY <2>1 DEF Passed
  <2>7. Merged' = {}
    BY <2>1 DEF Merged
  <2>8. \A c : InHist(c)' = {} /\ \A t \in Thread : InPrivate(t, c)' = {}
    BY <2>6, <2>7 DEF InHist, InPrivate
  <2>9. NothingLost'
    <3>1. ASSUME NEW c \in Channel, NEW v \in Value'
          PROVE  /\ HowMany(InHist(c), c, v)' = 0
                 /\ \A t \in Thread : HowMany(InPrivate(t, c), c, v)' = 0
      BY <2>8, FS_EmptySet DEF HowMany
    <3>. QED
      BY <2>3, <2>4, <3>1 DEF NothingLost
  <2>10. Held'
    BY <2>1 DEF Held
  <2>. QED
    BY <2>5, <2>9, <2>10
<1>. QED
  BY <1>1, <1>2 DEF FileStep
\* main adds up the slices, one by one.
LEMMA NothingLostByMerge ==
  ASSUME ScanOK, Workers, CountTypeOK, NothingLost, Merge, UNCHANGED program
  PROVE  CountTypeOK' /\ NothingLost'
<1>0. /\ UNCHANGED <<input, pc, pix, chan, p_hist, register, program>> /\ input.size \in Nat
      /\ main = "merge" /\ program = "private" /\ i \in Thread
      /\ Value' = Value
      /\ hist' = [c \in Channel |-> [v \in Value |-> hist[c][v] + p_hist[i][c][v]]]
  BY DEF Merge, countVars, Workers, ScanOK, Value
<1>t. /\ hist \in [Channel -> [Value -> Nat]]
      /\ p_hist \in [Thread -> [Channel -> [Value -> Nat]]]
  BY DEF CountTypeOK
<1>1. CountTypeOK'
  <2>1. \A c \in Channel, v \in Value : hist[c][v] + p_hist[i][c][v] \in Nat
    BY <1>0, <1>t
  <2>2. hist' \in [Channel -> [Value -> Nat]]
    BY <1>0, <2>1
  <2>. QED
    BY <1>0, <2>2 DEF CountTypeOK
<1>2. Merged = { t \in Thread : t < i } /\ Merged' = Merged \cup {i} /\ i \notin Merged
  <2>1. Merged = { t \in Thread : t < i }
    BY <1>0 DEF Merged
  <2>t. threads \in Int
    BY ThreadsAssumption
  <2>2. i \in Int /\ \A t \in Thread : t \in Int /\ t < threads
    BY <1>0, <2>t DEF Thread
  <2>3. CASE i + 1 < threads /\ i' = i + 1 /\ main' = main
    <3>1. Merged' = { t \in Thread : t < i + 1 }
      BY <1>0, <2>3 DEF Merged
    <3>2. \A t \in Thread : t < i + 1 <=> t < i \/ t = i
      BY <2>2
    <3>3. Merged' = { t \in Thread : t < i \/ t = i }
      BY <3>1, <3>2
    <3>4. ~(i < i)
      BY <2>2
    <3>. QED
      BY <1>0, <2>1, <3>3, <3>4
  <2>4. CASE i + 1 = threads /\ main' = "done"
    <3>1. Merged' = Thread
      BY <2>4 DEF Merged
    <3>2. \A t \in Thread : t < i \/ t = i
      BY <2>t, <2>2, <2>4
    <3>3. Merged' = { t \in Thread : t < i \/ t = i }
      BY <3>1, <3>2
    <3>4. ~(i < i)
      BY <2>2
    <3>. QED
      BY <1>0, <2>1, <3>3, <3>4
  <2>. QED
    BY <2>3, <2>4 DEF Merge
<1>3. ASSUME NEW c
      PROVE  /\ InHist(c)' = InHist(c) \cup (Start(i) .. End(i) - 1)
             /\ InHist(c) \cap (Start(i) .. End(i) - 1) = {}
  <2>1. \A t \in Thread : Start(t)' = Start(t) /\ End(t)' = End(t)
    BY <1>0, SlicesStay
  <2>2. InHist(c) = UNION { Start(t) .. End(t) - 1 : t \in Merged }
    BY <1>0 DEF InHist
  <2>3. InHist(c)' = UNION { Start(t) .. End(t) - 1 : t \in Merged' }
    BY <1>0, <2>1 DEF InHist, Merged
  <2>4. ASSUME NEW t \in Merged, NEW p \in Start(t) .. End(t) - 1, p \in Start(i) .. End(i) - 1
        PROVE  FALSE
    <3>1. t \in Thread
      BY DEF Merged
    <3>. QED
      BY <1>0, <1>2, <2>4, <3>1, OneSlice
  <2>. QED
    BY <1>2, <2>2, <2>3, <2>4
<1>4. ASSUME NEW c \in Channel, NEW v \in Value
      PROVE  hist'[c][v] = HowMany(InHist(c)', c, v)
  <2>1. hist'[c][v] = hist[c][v] + p_hist[i][c][v]
    BY <1>0
  <2>2. hist[c][v] = HowMany(InHist(c), c, v) /\ p_hist[i][c][v] = HowMany(InPrivate(i, c), c, v)
    BY <1>0 DEF NothingLost
  <2>3. InPrivate(i, c) = Start(i) .. End(i) - 1
    <3>1. pc[i] = "done" /\ pix[i] = End(i) /\ Start(i) \in Int /\ End(i) \in Int
      BY <1>0, SlicesInRow DEF Workers, ScanOK
    <3>2. \A p \in Start(i) .. End(i) - 1 : p < End(i)
      BY <3>1
    <3>. QED
      BY <1>0, <3>1, <3>2 DEF InPrivate, Passed
  <2>4. IsFiniteSet(InHist(c)) /\ IsFiniteSet(Start(i) .. End(i) - 1)
    BY <1>0, InHistFinite, FiniteSlice
  <2>5. InHist(c) \cap (Start(i) .. End(i) - 1) = {}
    BY <1>3
  <2>6. HowMany(InHist(c) \cup (Start(i) .. End(i) - 1), c, v)
          = HowMany(InHist(c), c, v) + HowMany(Start(i) .. End(i) - 1, c, v)
    <3>. DEFINE S == InHist(c)
                T == Start(i) .. End(i) - 1
    <3>1. IsFiniteSet(S)
      BY <2>4
    <3>2. IsFiniteSet(T)
      BY <2>4
    <3>3. S \cap T = {}
      BY <2>5
    <3>. HIDE DEF S, T
    <3>4. HowMany(S \cup T, c, v) = HowMany(S, c, v) + HowMany(T, c, v)
      BY <3>1, <3>2, <3>3, HowManyUnion
    <3>. QED
      BY <3>4 DEF S, T
  <2>. QED
    BY <1>3, <2>1, <2>2, <2>3, <2>6
<1>5. ASSUME NEW c \in Channel, NEW v \in Value, NEW t \in Thread
      PROVE  p_hist'[t][c][v] = HowMany(InPrivate(t, c)', c, v)
  <2>1. InPrivate(t, c)' = InPrivate(t, c)
    BY <1>0, PassedByOthers DEF InPrivate
  <2>. QED
    BY <1>0, <2>1 DEF NothingLost
<1>6. NothingLost'
  <2>1. ASSUME NEW c \in Channel, NEW v \in Value
        PROVE  /\ HowMany(InHist(c), c, v)' = HowMany(InHist(c)', c, v)
               /\ \A t \in Thread : HowMany(InPrivate(t, c), c, v)' = HowMany(InPrivate(t, c)', c, v)
    BY <1>0 DEF HowMany
  <2>. QED
    BY <1>0, <1>4, <1>5, <2>1 DEF NothingLost
<1>. QED
  BY <1>1, <1>6

LEMMA NothingLostByMain ==
  ASSUME ScanOK, Workers, CountTypeOK, NothingLost, Held, MainStep
  PROVE  CountTypeOK' /\ NothingLost' /\ Held'
<1>1. Held'
  <2>1. ASSUME NEW t \in Thread, pc'[t] = "store"
        PROVE  pc[t] = "store" /\ ~Merge
    <3>1. pc'[t] = pc[t] \/ (StartThread /\ pc' = [pc EXCEPT ![i] = "begin"])
      BY DEF MainStep, StartThread, JoinThread, Merge
    <3>2. pc[t] = "store"
      BY <2>1, <3>1 DEF ScanOK
    <3>. QED
      BY <3>2 DEF Workers, Merge
  <2>2. CASE Merge
    BY <2>1, <2>2 DEF Held
  <2>3. CASE ~Merge
    <3>1. UNCHANGED <<input, hist, pix, chan, register>>
      BY <2>3 DEF MainStep, StartThread, JoinThread, countVars
    <3>. QED
      BY <2>1, <3>1 DEF Held, Bucket
  <2>. QED
    BY <2>2, <2>3
<1>2. CASE Merge
  BY <1>1, <1>2, NothingLostByMerge DEF MainStep
<1>3. CASE StartThread \/ JoinThread(IF program = "private" THEN "merge" ELSE "done")
  <2>1. UNCHANGED <<input, hist, p_hist, register, program>> /\ main \in {"start", "join"}
    BY <1>3 DEF MainStep, StartThread, JoinThread, Merge, countVars
  <2>2. CountTypeOK' /\ Value' = Value
    BY <2>1 DEF CountTypeOK, Value
  <2>3. \A t \in Thread : \A c : Passed(t, c)' = Passed(t, c)
    BY CountedByMain
  <2>4. program = "private" => Merged = {} /\ Merged' = {}
    <3>1. SUFFICES ASSUME program = "private"
                   PROVE  main' \in {"start", "join"} \/ (main' = "merge" /\ i' = 0)
      <4>1. \A t \in Thread : ~(t < 0)
        BY DEF Thread
      <4>. QED
        BY <2>1, <4>1 DEF Merged
    <3>. QED
      BY <1>3, <2>1, <3>1 DEF StartThread, JoinThread
  <2>5. \A c : InHist(c)' = InHist(c)
    <3>1. CASE program = "private"
      BY <2>1, <2>4, <3>1 DEF InHist
    <3>2. CASE program # "private"
      BY <2>1, <2>3, <3>2 DEF InHist
    <3>. QED
      BY <3>1, <3>2
  <2>6. \A t \in Thread : \A c : InPrivate(t, c)' = InPrivate(t, c)
    BY <2>1, <2>3 DEF InPrivate
  <2>7. NothingLost'
    <3>1. ASSUME NEW c \in Channel, NEW v \in Value
          PROVE  /\ HowMany(InHist(c), c, v)' = HowMany(InHist(c), c, v)
                 /\ \A t \in Thread : HowMany(InPrivate(t, c), c, v)' = HowMany(InPrivate(t, c), c, v)
      BY <2>1, <2>5, <2>6 DEF HowMany
    <3>. QED
      BY <2>1, <2>2, <3>1 DEF NothingLost
  <2>. QED
    BY <1>1, <2>2, <2>7
<1>. QED
  BY <1>2, <1>3 DEF MainStep
-----------------------------------------------------------------------------
(***************************************************************************)
(* A value above maxrgb.                                                   *)
(***************************************************************************)

\* What holds before the undefined step holds after it: it is counted nowhere.
LEMMA OutsideStep ==
  ASSUME IInv, NEW t \in Thread, CountOutside(t)
  PROVE  IInv' /\ main # "read" /\ UNCHANGED ppmVars /\ main' = "undefined"
<1>0. /\ FileOK /\ LockTypeOK /\ CountTypeOK /\ ScanOK /\ Workers
      /\ Mutex /\ FlagHeld /\ Served /\ Line /\ TicketPerPixel /\ Held /\ NothingLost
  BY DEF IInv, TypeOK, Locks
<1>1. /\ UNCHANGED <<input, hist, i, pc, pix, chan, f, program, register, p_hist>>
      /\ UNCHANGED <<next_ticket, now_serving, my_ticket, ns, serve>>
      /\ UNCHANGED ppmVars /\ main' = "undefined" /\ pc[t] \in {"load", "add"}
  BY DEF CountOutside, ticketVars, countVars
<1>2. main \notin {"read", "exit", "merge", "done"}
  BY <1>0, <1>1 DEF Workers
<1>3. FileOK' /\ LockTypeOK' /\ CountTypeOK' /\ Value' = Value
  BY <1>0, <1>1 DEF FileOK, LockTypeOK, CountTypeOK, Value
<1>4. \A u \in Thread : Start(u)' = Start(u) /\ End(u)' = End(u)
  BY <1>1, SlicesStay
<1>5. ScanOK' /\ Workers'
  BY <1>0, <1>1, <1>4 DEF ScanOK, Workers
<1>6. \A c : InLine(c)' = InLine(c)
  BY <1>1 DEF InLine
<1>7. \A u \in Thread : \A c : Passed(u, c)' = Passed(u, c)
  BY <1>1, PassedByOthers
<1>8. Mutex' /\ FlagHeld' /\ Held'
  BY <1>0, <1>1 DEF Mutex, FlagHeld, Held, Bucket
<1>9. Served' /\ Line'
  BY <1>0, <1>1, <1>6 DEF Served, Line
<1>10. TicketPerPixel'
  <2>1. \A c : Taken(c)' = Taken(c)
    BY <1>1, <1>4, <1>6, <1>7 DEF Taken, TakenBy
  <2>. QED
    BY <1>0, <1>1, <2>1 DEF TicketPerPixel
<1>11. NothingLost'
  <2>1. Merged' = Merged
    BY <1>1, <1>2 DEF Merged
  <2>3. UNION { Start(u) .. End(u) - 1 : u \in Merged }' = UNION { Start(u) .. End(u) - 1 : u \in Merged }
    <3>1. \A u \in Merged : u \in Thread
      BY DEF Merged
    <3>. QED
      BY <1>4, <2>1, <3>1
  <2>2. \A c : InHist(c)' = InHist(c) /\ \A u \in Thread : InPrivate(u, c)' = InPrivate(u, c)
    BY <1>1, <1>7, <2>3 DEF InHist, InPrivate
  <2>. QED
    BY <1>0, <1>1, <1>3, <2>2 DEF NothingLost, HowMany
<1>. QED
  BY <1>1, <1>2, <1>3, <1>5, <1>8, <1>9, <1>10, <1>11 DEF IInv, TypeOK, Locks
-----------------------------------------------------------------------------
(***************************************************************************)
(* Nothing else touches the file or the picture that is read of it.        *)
(***************************************************************************)
LEMMA PictureInit ==
  ASSUME Init
  PROVE  PictureInv
<1>1. main = "read"
  BY DEF Init, ScanInit
<1>2. CASE WriteInit
  <2>1. /\ at = "write test" /\ disk = <<>> /\ tell = 0 /\ NoRead /\ picture \in Pictures
    BY <1>2 DEF WriteInit
  <2>2. Len(disk) = 0 /\ Size(picture) \in Nat /\ Pixels(picture) = 0 .. Size(picture) - 1
    BY <2>1, PictureFacts
  <2>3. OnDisk
    <3>1. Len(disk) <= 8 + 3 * Size(picture)
      BY <2>2
    <3>2. \A j \in 1 .. 8 : ~(j <= Len(disk))
      BY <2>2
    <3>3. \A k \in Pixels(picture), c \in Channel : ~(8 + 3 * k + c <= Len(disk))
      BY <2>2 DEF Channel
    <3>. QED
      BY <3>1, <3>2, <3>3 DEF OnDisk
  <2>4. Written /\ HeadRead /\ DataRead
    BY <2>1 DEF Written, HeadRead, DataRead
  <2>. QED
    BY <1>1, <2>3, <2>4 DEF PictureInv, Mine
<1>3. CASE at = "open" /\ disk \in ForeignFiles
  BY <1>1, <1>3 DEF PictureInv, Foreign
<1>. QED
  BY <1>2, <1>3 DEF Init, ForeignInit

LEMMA PictureStep ==
  ASSUME IInv, PictureInv, Next \/ UNCHANGED vars
  PROVE  PictureInv'
<1>0. FileOK /\ ScanOK
  BY DEF IInv, TypeOK
<1>1. CASE FileStep /\ at # "over"
  <2>1. main = "read" /\ FileTypeOK
    BY <1>0, <1>1 DEF PictureInv, FileOK
  <2>2. CASE TakePicture
    BY <2>2 DEF TakePicture, PictureInv
  <2>3. CASE WriteStep \/ ReadStep \/ ReadTest
    <3>1. main' = "read"
      BY <1>1, <2>1, <2>3 DEF FileStep, scanVars, TakePicture, WriteStep, WriteTest, Allocate,
         WriteHeader, WriteData, WriteEnd, ReadStep, OpenFile, ReadHeader, HeaderElement, WordEnd,
         ReadArrays, ReadData, ReadTest
    <3>2. CASE Mine
      BY <2>1, <2>3, <3>1, <3>2, MineWrite, MineRead DEF PictureInv
    <3>3. CASE Foreign
      <4>1. ~WriteStep
        BY <3>3 DEF Foreign, WriteStep, WriteTest, Allocate, WriteHeader, WriteData, WriteEnd
      <4>2. /\ UNCHANGED disk
            /\ at' \in {"header", "arrays", "data", "read", "error", "passed", "bad", "undefined"}
        BY <2>3, <4>1 DEF ReadStep, OpenFile, ReadHeader, HeaderElement, WordEnd, ReadArrays,
           Allocate, ReadData, ReadTest
      <4>. QED
        BY <3>1, <3>3, <4>2 DEF PictureInv, Foreign
    <3>. QED
      BY <1>1, <3>2, <3>3 DEF PictureInv
  <2>. QED
    BY <1>1, <2>2, <2>3 DEF FileStep
<1>2. ~(FileStep /\ at = "over")
  <2>1. ~(WriteStep \/ ReadStep \/ ReadTest) \/ at # "over"
    BY DEF WriteStep, WriteTest, Allocate, WriteHeader, WriteData, WriteEnd,
           ReadStep, OpenFile, ReadHeader, ReadArrays, ReadData, ReadTest
  <2>2. ~TakePicture \/ at # "over"
    BY DEF TakePicture
  <2>. QED
    BY <2>1, <2>2 DEF FileStep
<1>3. CASE MainStep
  <2>1. main # "read" /\ at' = at
    BY <1>3 DEF MainStep, StartThread, JoinThread, Merge, ppmVars
  <2>. QED
    BY <2>1 DEF PictureInv
<1>4. CASE UNCHANGED <<ppmVars, main>>
  <2>1. UNCHANGED <<picture, disk, room, at, tell, state, string, header, data, main>>
    BY <1>4 DEF ppmVars
  <2>2. /\ Size(picture)' = Size(picture) /\ Header(picture)' = Header(picture)
        /\ Pixels(picture)' = Pixels(picture) /\ Dims(picture)' = Dims(picture) /\ Whole' = Whole
    BY <2>1 DEF Size, Header, Pixels, Dims, Maximum, Whole
  <2>3. Mine => Mine'
    BY <2>1, <2>2 DEF Mine, OnDisk, Written, NoRead, HeadRead, DataRead
  <2>. QED
    BY <2>1, <2>3 DEF PictureInv, Foreign
<1>5. ASSUME NEW t \in Thread, ThreadStep(t)
      PROVE  UNCHANGED <<ppmVars, main>>
  <2>1. UNCHANGED main
    BY <1>0, <1>5, ThreadKind
  <2>2. UNCHANGED ppmVars
    BY <1>5 DEF ThreadStep
  <2>. QED
    BY <2>1, <2>2
<1>6. UNCHANGED vars => UNCHANGED <<ppmVars, main>>
  BY DEF vars, scanVars
<1>7. ASSUME NEW t \in Thread, CountOutside(t)
      PROVE  PictureInv'
  <2>1. UNCHANGED ppmVars /\ main # "read" /\ main' = "undefined"
    BY <1>7, OutsideStep
  <2>2. at' = at
    BY <2>1 DEF ppmVars
  <2>. QED
    BY <2>1, <2>2 DEF PictureInv
<1>. QED
  BY <1>1, <1>2, <1>3, <1>4, <1>5, <1>6, <1>7 DEF Next, Terminating

-----------------------------------------------------------------------------
(***************************************************************************)
(* The theorems.                                                           *)
(***************************************************************************)
LEMMA InvInit ==
  ASSUME Init
  PROVE  IInv
<1>1. /\ input = [size |-> 0, maxrgb |-> 0] /\ hist = Zeros /\ main = "read" /\ i = 0
      /\ pc = [t \in Thread |-> "idle"] /\ pix = [t \in Thread |-> 0] /\ chan = [t \in Thread |-> 1]
      /\ program \in Programs
  BY DEF Init, ScanInit
<1>2. FileOK
  <2>1. <<>> \in Seq(Element) /\ <<>> \in Seq(Nat) /\ Word \in Element /\ Room \in Nat
    BY Elements, FileAssumption
  <2>2. NoRead /\ picture \in Pictures /\ tell = 0 /\ at \in {"write test", "open"}
    BY DEF Init, WriteInit, ForeignInit
  <2>3. disk \in Seq(Element) /\ room \in Nat
    <3>1. CASE WriteInit
      <4>1. disk = <<>> /\ room \in 0 .. Room
        BY <3>1 DEF WriteInit
      <4>2. disk \in Seq(Element)
        BY <2>1, <4>1
      <4>3. room \in Nat
        BY <2>1, <4>1
      <4>. QED
        BY <4>2, <4>3
    <3>2. CASE disk \in ForeignFiles /\ room = Room
      BY <2>1, <3>2, ForeignAssumption
    <3>. QED
      BY <3>1, <3>2 DEF Init, ForeignInit
  <2>4. state = 0 /\ header = <<>> /\ string = Word
    BY <2>2 DEF NoRead
  <2>5. tell \in Nat
    BY <2>2
  <2>6. state \in 0 .. 8 /\ state < 8
    BY <2>4
  <2>7. Len(header) = Numbers(state)
    <3>1. Numbers(state) = 0
      BY <2>4 DEF Numbers
    <3>2. Len(header) = 0
      BY <2>4
    <3>. QED
      BY <3>1, <3>2
  <2>. QED
    BY <2>1, <2>2, <2>3, <2>4, <2>5, <2>6, <2>7 DEF FileOK, FileTypeOK
<1>3. LockTypeOK
  BY DEF LockTypeOK, Init, TTASInit, TicketInit
<1>4. CountTypeOK
  BY <1>1 DEF CountTypeOK, Init, Zeros
<1>5. ScanOK /\ Workers
  <2>1. 0 \in Thread /\ 1 \in Channel /\ \A t \in Thread : t >= 0
    BY ThreadsAssumption DEF Thread, Channel
  <2>2. "idle" \notin LabelsOf(program)
    BY <1>1, Labels
  <2>3. ScanOK
    BY <1>1, <2>1, <2>2 DEF ScanOK
  <2>4. Workers
    BY <1>1 DEF Workers
  <2>. QED
    BY <2>3, <2>4
<1>6. \A c : InLine(c) = {}
  BY <1>1 DEF InLine
<1>7. Mutex /\ Held /\ FlagHeld
  BY <1>1 DEF Mutex, Held, FlagHeld, Init, TTASInit, Critical
<1>8. /\ next_ticket = [c \in Channel |-> 0] /\ now_serving = [c \in Channel |-> 0]
  BY DEF Init, TicketInit
<1>9. Served
  BY <1>1, <1>6, <1>8 DEF Served
<1>10. Line
  BY <1>1, <1>6, <1>8 DEF Line
<1>11. \A t \in Thread : \A c : Passed(t, c) = {}
  BY <1>1 DEF Passed
<1>12. TicketPerPixel
  <2>1. \A t \in Thread : \A c : TakenBy(t, c) = {}
    BY <1>6, <1>11 DEF TakenBy
  <2>2. \A c : Taken(c) = {}
    BY <2>1 DEF Taken
  <2>. QED
    BY <1>8, <2>2, FS_EmptySet DEF TicketPerPixel
<1>13. NothingLost
  <2>1. \A c : InHist(c) = {} /\ \A t \in Thread : InPrivate(t, c) = {}
    BY <1>1, NothingCounted
  <2>2. \A c, v : HowMany({}, c, v) = 0
    BY FS_EmptySet DEF HowMany
  <2>. QED
    BY <1>1, <2>1, <2>2 DEF NothingLost, Init, Zeros
<1>. QED
  BY <1>2, <1>3, <1>4, <1>5, <1>7, <1>9, <1>10, <1>12, <1>13 DEF IInv, TypeOK, Locks

LEMMA InvStep ==
  ASSUME IInv, [Next]_vars
  PROVE  IInv'
<1>0. /\ FileOK /\ LockTypeOK /\ CountTypeOK /\ ScanOK /\ Workers
      /\ Mutex /\ FlagHeld /\ Served /\ Line /\ TicketPerPixel /\ Held /\ NothingLost
  BY DEF IInv, TypeOK, Locks
<1>1. CASE FileStep
  <2>1. ScanOK' /\ Workers' /\ FileOK'
    BY <1>0, <1>1, ScanByFile, FileOKStep
  <2>2. LockTypeOK' /\ Mutex' /\ FlagHeld' /\ Served' /\ Line'
    BY <1>0, <1>1, <2>1, LocksByOthers
  <2>3. TicketPerPixel'
    BY <1>0, <1>1, TicketsByOthers
  <2>4. CountTypeOK' /\ NothingLost' /\ Held'
    BY <1>0, <1>1, NothingLostByFile
  <2>. QED
    BY <2>1, <2>2, <2>3, <2>4 DEF IInv, TypeOK, Locks
<1>2. CASE MainStep
  <2>1. ScanOK' /\ Workers' /\ FileOK'
    BY <1>0, <1>2, ScanByMain, FileOKStep
  <2>2. LockTypeOK' /\ Mutex' /\ FlagHeld' /\ Served' /\ Line'
    BY <1>0, <1>2, <2>1, LocksByOthers
  <2>3. TicketPerPixel'
    BY <1>0, <1>2, TicketsByOthers
  <2>4. CountTypeOK' /\ NothingLost' /\ Held'
    BY <1>0, <1>2, NothingLostByMain
  <2>. QED
    BY <2>1, <2>2, <2>3, <2>4 DEF IInv, TypeOK, Locks
<1>3. ASSUME NEW t \in Thread, ThreadStep(t)
      PROVE  IInv'
  <2>1. ScanOK' /\ Workers' /\ FileOK'
    BY <1>0, <1>3, ThreadKind, ScanByThread, FileOKStep
  <2>2. LockTypeOK' /\ Mutex' /\ FlagHeld' /\ Served' /\ Line'
    BY <1>0, <1>3, <2>1, LocksByThread
  <2>3. TicketPerPixel'
    BY <1>0, <1>3, TicketsByThread
  <2>4. CountTypeOK'
    BY <1>0, <1>3, CountsByThread
  <2>5. NothingLost'
    BY <1>0, <1>3, NothingLostByThread
  <2>6. Held'
    BY <1>0, <1>3, <2>1, HeldByThread
  <2>. QED
    BY <2>1, <2>2, <2>3, <2>4, <2>5, <2>6 DEF IInv, TypeOK, Locks
<1>4. CASE UNCHANGED vars
  <2>1. UNCHANGED <<picture, disk, room, at, held, tell, state, string, header, data>>
    BY <1>4 DEF vars, ppmVars
  <2>2. UNCHANGED <<input, hist, main, i, pc, pix, chan>>
    BY <1>4 DEF vars, scanVars
  <2>3. UNCHANGED <<f, next_ticket, now_serving, my_ticket, ns, serve, program, register, p_hist>>
    BY <1>4 DEF vars, ticketVars, countVars
  <2>4. FileOK' /\ LockTypeOK' /\ CountTypeOK' /\ Value' = Value
    BY <1>0, <2>1, <2>2, <2>3 DEF FileOK, FileTypeOK, LockTypeOK, CountTypeOK, Value
  <2>5. \A t \in Thread : Start(t)' = Start(t) /\ End(t)' = End(t)
    BY <2>2, SlicesStay
  <2>6. ScanOK' /\ Workers' /\ LabelsOf(program)' = LabelsOf(program)
    BY <1>0, <2>2, <2>3, <2>5 DEF ScanOK, Workers
  <2>7. \A c : InLine(c)' = InLine(c)
    BY <2>2, <2>3 DEF InLine
  <2>8. \A t \in Thread : \A c : Passed(t, c)' = Passed(t, c)
    BY <2>2, PassedByOthers
  <2>9. Mutex' /\ FlagHeld' /\ Held'
    BY <1>0, <2>2, <2>3 DEF Mutex, FlagHeld, Held, Bucket
  <2>10. Served' /\ Line'
    BY <1>0, <2>2, <2>3, <2>7 DEF Served, Line
  <2>11. \A c : Taken(c)' = Taken(c)
    BY <2>2, <2>5, <2>7, <2>8 DEF Taken, TakenBy
  <2>12. TicketPerPixel'
    BY <1>0, <2>3, <2>11 DEF TicketPerPixel
  <2>13. \A c : InHist(c)' = InHist(c) /\ \A t \in Thread : InPrivate(t, c)' = InPrivate(t, c)
    BY <2>2, <2>3, <2>5, <2>8 DEF InHist, InPrivate, Merged
  <2>14. NothingLost'
    BY <1>0, <2>2, <2>3, <2>4, <2>13 DEF NothingLost, HowMany
  <2>. QED
    BY <2>4, <2>6, <2>9, <2>10, <2>12, <2>14 DEF IInv, TypeOK, Locks
<1>5. ASSUME NEW t \in Thread, CountOutside(t)
      PROVE  IInv'
  BY <1>5, OutsideStep
<1>. QED
  BY <1>1, <1>2, <1>3, <1>4, <1>5 DEF Next, Terminating

\* In every reachable state the locks exclude each other, the numbers of tickets
\* and pixels agree, and every entry of every histogram is the number of pixels
\* counted in it: the histogram programs of src/a3.
THEOREM Invariant == Spec => []IInv
<1>1. Init => IInv
  BY InvInit
<1>2. IInv /\ [Next]_vars => IInv'
  BY InvStep
<1>. QED
  BY <1>1, <1>2, PTL DEF Spec

\* The locks of histo_lock1.cpp and histo_lock2.cpp: no two threads are between
\* acquire and release of the same lock.
THEOREM MutexCorrect == Spec => []Mutex
<1>1. IInv => Mutex
  BY DEF IInv, Locks
<1>. QED
  BY <1>1, Invariant, PTL

\* The histogram programs lose no increment, leave out no slice and add none
\* twice, at any moment.
THEOREM CountCorrect == Spec => []NothingLost
<1>1. IInv => NothingLost
  BY DEF IInv
<1>. QED
  BY <1>1, Invariant, PTL

\* The ticket lock of histo_lock2.cpp serves in order and without gaps, gives
\* out no more tickets than there are pixels, and pauses only for threads that
\* are in front.
THEOREM TicketsCorrect == Spec => []TicketsInLine
<1>1. ASSUME IInv
      PROVE  TicketsInLine
  <2>0. LockTypeOK /\ ScanOK /\ Line /\ Served /\ TicketPerPixel /\ input.size \in Nat
    BY <1>1 DEF IInv, TypeOK, Locks, ScanOK
  <2>1. ASSUME NEW c \in Channel
        PROVE  next_ticket[c] <= input.size
    <3>1. CASE program = "lock2"
      BY <2>0, <3>1, TakenBound DEF TicketPerPixel
    <3>2. CASE program # "lock2"
      BY <2>0, <3>2 DEF Served
    <3>. QED
      BY <3>1, <3>2
  <2>2. ASSUME NEW t \in Thread, pc[t] = "pause"
        PROVE  Pause(t) \in base .. base * (threads - 1)
    <3>1. my_ticket[t] - ns[t] \in 1 .. threads - 1
      BY <2>0, <2>2 DEF Line
    <3>2. threads \in Int /\ my_ticket[t] \in Int /\ ns[t] \in Int
      BY <2>0, ThreadsAssumption DEF LockTypeOK
    <3>. QED
      BY <3>1, <3>2 DEF Pause, base
  <2>. QED
    BY <2>0, <2>1, <2>2 DEF TicketsInLine, Line, InLine
<1>2. IInv => TicketsInLine
  BY <1>1
<1>. QED
  BY <1>2, Invariant, PTL

\* A picture that ppmb_write has written is read as it was, whatever its bytes
\* are; a file of it that was cut short is refused, and none other is, unless
\* fopen or malloc fails.
THEOREM PictureCorrect == Spec => []PictureIntact
<1>1. Init => PictureInv
  BY PictureInit
<1>2. IInv /\ PictureInv /\ [Next]_vars => PictureInv'
  BY PictureStep
<1>3. ASSUME IInv, PictureInv, at \in {"read", "passed", "error"},
             disk \notin ForeignFiles
      PROVE  IF at = "error" THEN Whole => tell \in {0, 8}
             ELSE /\ Whole
                  /\ PictureRead = [ size |-> picture.xsize * picture.ysize,
                                     maxrgb |-> Maximum(picture), rgb |-> picture.rgb ]
                  /\ ~DataBad
  <2>. DEFINE N == Size(picture)
  <2>1. Mine /\ FileTypeOK
    BY <1>3 DEF PictureInv, Foreign, IInv, TypeOK, FileOK
  <2>2. CASE at = "error"
    BY <2>1, <2>2 DEF Mine, DataRead
  <2>3. CASE at \in {"read", "passed"}
    <3>0. picture \in Pictures /\ Len(disk) \in Nat
      <4>1. picture \in Pictures /\ disk \in Seq(Element)
        BY <2>1 DEF FileTypeOK
      <4>. QED
        BY <4>1
    <3>1. /\ N \in Nat /\ Pixels(picture) = 0 .. N - 1 /\ 3 * picture.xsize * picture.ysize = 3 * N
          /\ picture.xsize \in Nat \ {0} /\ picture.ysize \in Nat \ {0}
      BY <3>0, PictureFacts
    <3>2. /\ \A c \in Channel, k \in Pixels(picture) :
               picture.rgb[c][k] \in Nat /\ picture.rgb[c][k] <= Maximum(picture)
          /\ picture.rgb = [c \in Channel |-> [k \in Pixels(picture) |-> picture.rgb[c][k]]]
      BY <3>0, PictureFacts
    <3>3. header[1] = picture.xsize /\ header[2] = picture.ysize /\ header[3] = Maximum(picture)
      <4>1. Len(header) = 3
        <5>1. at = "read" => Len(header) = 3
          BY <2>1 DEF FileTypeOK, Numbers
        <5>2. at = "passed" => Len(header) = 3
          BY <2>1 DEF Mine, HeadRead
        <5>. QED
          BY <2>3, <5>1, <5>2
      <4>2. \A j \in 1 .. 3 : header[j] = Dims(picture)[j]
        BY <2>1, <2>3, <4>1 DEF Mine, HeadRead
      <4>. QED
        BY <4>2 DEF Dims
    <3>4. /\ data \in Seq(Nat) /\ Len(data) = 3 * N /\ 8 + Len(data) <= Len(disk)
          /\ Len(disk) <= 8 + 3 * N
          /\ \A j \in 1 .. Len(data) : data[j] = disk[8 + j].val
      BY <2>1, <2>3 DEF Mine, OnDisk, DataRead
    <3>5. header[1] * header[2] = N
      BY <3>3 DEF Size
    <3>. HIDE DEF N
    <3>6. Len(disk) = 8 + 3 * N
      BY <3>0, <3>1, <3>4
    <3>7. ASSUME NEW k \in Pixels(picture), NEW c \in Channel
          PROVE  data[3 * k + c] = picture.rgb[c][k]
      <4>1. 3 * k + c \in 1 .. 3 * N /\ 8 + (3 * k + c) = 8 + 3 * k + c
        BY <3>1 DEF Channel
      <4>0. 3 * k + c <= 3 * N /\ 3 * k + c \in Int
        BY <4>1
      <4>5. 8 + (3 * k + c) <= Len(disk)
        BY <3>1, <3>6, <4>0
      <4>2. 8 + 3 * k + c <= Len(disk)
        BY <4>1, <4>5
      <4>3. disk[8 + 3 * k + c] = Byte(picture.rgb[c][k])
        BY <2>1, <4>2 DEF Mine, OnDisk
      <4>4. data[3 * k + c] = disk[8 + (3 * k + c)].val
        BY <3>4, <4>1
      <4>. QED
        BY <4>1, <4>3, <4>4 DEF Byte
    <3>8. ASSUME NEW j \in DOMAIN data
          PROVE  ~(data[j] > header[3])
      <4>. DEFINE k == (j - 1) \div 3
                  c == j - 3 * k
      <4>1. j \in 1 .. 3 * N
        BY <3>4
      <4>0. \A m \in Nat : m \div 3 \in Nat /\ 3 * (m \div 3) <= m /\ m < 3 * (m \div 3) + 3
        OBVIOUS
      <4>7. j - 1 \in Nat /\ j - 1 < 3 * N
        BY <3>1, <4>1
      <4>9. k \in Nat /\ 3 * k <= j - 1 /\ j - 1 < 3 * k + 3
        BY <4>0, <4>7
      <4>. HIDE DEF k
      <4>8. c \in 1 .. 3 /\ j = 3 * k + c
        BY <4>1, <4>9
      <4>. HIDE DEF k, c
      <4>2. k \in 0 .. N - 1 /\ c \in 1 .. 3 /\ j = 3 * k + c
        BY <3>1, <4>1, <4>8, <4>9
      <4>3. k \in Pixels(picture) /\ c \in Channel
        BY <3>1, <4>2 DEF Channel
      <4>4. data[j] = picture.rgb[c][k]
        BY <3>7, <4>2, <4>3
      <4>5. picture.rgb[c][k] \in Nat /\ picture.rgb[c][k] <= Maximum(picture)
        BY <3>2, <4>3
      <4>6. Maximum(picture) \in Nat
        BY <3>0, PictureFacts
      <4>. QED
        BY <3>3, <4>4, <4>5, <4>6
    <3>9. ~DataBad
      <4>1. ~(header[1] <= 0) /\ ~(header[2] <= 0)
        BY <3>1, <3>3
      <4>. QED
        BY <3>8, <4>1 DEF DataBad
    <3>10. [c \in Channel |-> [k \in 0 .. N - 1 |-> data[3 * k + c]]] = picture.rgb
      <4>1. [c \in Channel |-> [k \in 0 .. N - 1 |-> data[3 * k + c]]]
              = [c \in Channel |-> [k \in Pixels(picture) |-> picture.rgb[c][k]]]
        BY <3>1, <3>7
      <4>. QED
        BY <3>2, <4>1
    <3>11. PictureRead = [size |-> N, maxrgb |-> Maximum(picture), rgb |-> picture.rgb]
      BY <3>3, <3>5, <3>10 DEF PictureRead
    <3>12. Whole
      BY <3>1, <3>6 DEF Whole
    <3>13. picture.xsize * picture.ysize = N
      BY DEF N, Size
    <3>. QED
      BY <2>3, <3>9, <3>11, <3>12, <3>13
  <2>. QED
    BY <1>3, <2>2, <2>3
<1>4. IInv /\ PictureInv => PictureIntact
  BY <1>3 DEF PictureIntact
<1>. QED
  BY <1>1, <1>2, <1>4, Invariant, PTL DEF Spec
-----------------------------------------------------------------------------
(***************************************************************************)
(* The sequential program.                                                 *)
(***************************************************************************)
\* After n pixels the sequential program has counted the first n pixels.  The
\* counts satisfy the equation that defines SerialHist, so that it has a
\* solution; a smallest number where another solution differs there is not.
LEMMA SerialCounts ==
  ASSUME NEW n \in Nat
  PROVE  SerialHist[n] = [c \in Channel |-> [v \in Value |-> HowMany(0 .. n - 1, c, v)]]
<1>. DEFINE Counts(m) == [c \in Channel |-> [v \in Value |-> HowMany(0 .. m - 1, c, v)]]
            Plus(h, m) == [c \in Channel |-> [h[c] EXCEPT ![input.rgb[c][m]] = @ + 1]]
            G == [m \in Nat |-> Counts(m)]
            Equation(h) == [m \in Nat |-> IF m = 0 THEN Zeros ELSE Plus(h[m - 1], m - 1)]
<1>1. Counts(0) = Zeros
  <2>1. 0 .. 0 - 1 = {}
    OBVIOUS
  <2>2. \A c, v : HowMany(0 .. 0 - 1, c, v) = 0
    BY <2>1, FS_EmptySet DEF HowMany
  <2>. QED
    BY <2>2 DEF Zeros
<1>2. ASSUME NEW m \in Nat, m # 0
      PROVE  Counts(m) = Plus(Counts(m - 1), m - 1)
  <2>. DEFINE W == 0 .. (m - 1) - 1
              e == m - 1
  <2>1. 0 .. m - 1 = W \cup {e} /\ e \notin W
    BY <1>2
  <2>2. IsFiniteSet(W)
    <3>1. 0 \in Int /\ (m - 1) - 1 \in Int
      OBVIOUS
    <3>. QED
      BY <3>1, FS_Interval, Zenon
  <2>. HIDE DEF W, e
  <2>3. ASSUME NEW c \in Channel
        PROVE  [v \in Value |-> HowMany(W \cup {e}, c, v)]
                 = [[v \in Value |-> HowMany(W, c, v)] EXCEPT ![input.rgb[c][e]] = @ + 1]
    <3>1. \A v \in Value : HowMany(W \cup {e}, c, v) = IF input.rgb[c][e] = v THEN HowMany(W, c, v) + 1
                                                       ELSE HowMany(W, c, v)
      <4>1. e \notin W
        BY <2>1
      <4>2. ASSUME NEW v \in Value, input.rgb[c][e] = v
            PROVE  HowMany(W \cup {e}, c, v) = HowMany(W, c, v) + 1
        BY <2>2, <4>1, <4>2, HowManyAdd
      <4>3. ASSUME NEW v \in Value, input.rgb[c][e] # v
            PROVE  HowMany(W \cup {e}, c, v) = HowMany(W, c, v)
        BY <2>2, <4>1, <4>3, HowManyAdd
      <4>. QED
        BY <4>2, <4>3
    <3>. DEFINE H == [v \in Value |-> HowMany(W, c, v)]
                b == input.rgb[c][e]
    <3>2. [H EXCEPT ![b] = @ + 1] = [v \in Value |-> IF v = b THEN H[v] + 1 ELSE H[v]]
      OBVIOUS
    <3>3. \A v \in Value : HowMany(W \cup {e}, c, v) = IF v = b THEN H[v] + 1 ELSE H[v]
      BY <3>1
    <3>. QED
      BY <3>2, <3>3
  <2>4. Counts(m) = [c \in Channel |-> [v \in Value |-> HowMany(W \cup {e}, c, v)]]
    BY <2>1
  <2>5. Counts(m - 1) = [c \in Channel |-> [v \in Value |-> HowMany(W, c, v)]]
    BY DEF W
  <2>6. Plus(Counts(m - 1), e)
          = [c \in Channel |-> [[v \in Value |-> HowMany(W, c, v)] EXCEPT ![input.rgb[c][e]] = @ + 1]]
    BY <2>5
  <2>. QED
    BY <2>3, <2>4, <2>6 DEF e
<1>3. G = Equation(G)
  <2>1. ASSUME NEW m \in Nat
        PROVE  G[m] = IF m = 0 THEN Zeros ELSE Plus(G[m - 1], m - 1)
    <3>1. m # 0 => m - 1 \in Nat
      OBVIOUS
    <3>. HIDE DEF Counts, Plus
    <3>. QED
      BY <1>1, <1>2, <2>1, <3>1
  <2>. HIDE DEF Counts, Plus
  <2>. QED
    BY <2>1
<1>4. SerialHist = CHOOSE h : h = Equation(h)
  BY DEF SerialHist
<1>5. SerialHist = Equation(SerialHist)
  <2>. HIDE DEF G, Equation
  <2>. QED
    BY <1>3, <1>4
<1>6. \A m \in Nat : SerialHist[m] = IF m = 0 THEN Zeros ELSE Plus(SerialHist[m - 1], m - 1)
  <2>. HIDE DEF Plus
  <2>. QED
    BY <1>5
<1>7. \A m \in Nat : G[m] = Counts(m)
  OBVIOUS
<1>8. \A m \in Nat : SerialHist[m] = Counts(m)
  <2>. HIDE DEF Counts, Plus, G, Equation
  <2>. DEFINE Bad == { m \in Nat : SerialHist[m] # Counts(m) }
  <2>1. SUFFICES ASSUME Bad # {} PROVE FALSE
    OBVIOUS
  <2>2. PICK m \in Bad : \A k \in Bad : m <= k
    <3>1. Bad \in SUBSET Nat
      OBVIOUS
    <3>. HIDE DEF Bad
    <3>. QED
      BY <2>1, <3>1, Least
  <2>3. m \in Nat /\ SerialHist[m] # Counts(m) /\ m # 0
    BY <1>1, <1>6, <2>2
  <2>4. m - 1 \in Nat /\ ~(m <= m - 1)
    BY <2>3
  <2>5. SerialHist[m - 1] = Counts(m - 1)
    BY <2>2, <2>4
  <2>. QED
    BY <1>2, <1>6, <2>3, <2>5
<1>. QED
  BY <1>8

\* What main writes at the end is what histogram.cpp writes: the four threaded
\* programs of src/a3 compute the same histograms as the sequential one.
THEOREM FinalCorrect == Spec => []FinalHistogram
<1>1. ASSUME IInv, main = "done"
      PROVE  hist = SerialHist[input.size]
  <2>0. CountTypeOK /\ ScanOK /\ Workers /\ NothingLost /\ input.size \in Nat
    BY <1>1 DEF IInv, TypeOK, ScanOK
  <2>1. ASSUME NEW c \in Channel
        PROVE  InHist(c) = 0 .. input.size - 1
    <3>1. Merged = Thread
      BY <1>1 DEF Merged
    <3>2. ASSUME NEW t \in Thread
          PROVE  Passed(t, c) = Start(t) .. End(t) - 1
      <4>1. pc[t] = "done" /\ pix[t] = End(t)
        BY <1>1, <2>0 DEF Workers, ScanOK
      <4>2. Start(t) \in Int /\ End(t) \in Int
        BY <2>0, SlicesInRow
      <4>3. \A p \in Start(t) .. End(t) - 1 : p < End(t)
        BY <4>2
      <4>. QED
        BY <4>1, <4>3 DEF Passed
    <3>3. InHist(c) = UNION { Start(t) .. End(t) - 1 : t \in Thread }
      BY <3>1, <3>2 DEF InHist
    <3>. QED
      BY <2>0, <3>3, AllSlices
  <2>2. \A c \in Channel, v \in Value : hist[c][v] = HowMany(0 .. input.size - 1, c, v)
    BY <2>0, <2>1 DEF NothingLost
  <2>3. hist = [c \in Channel |-> [v \in Value |-> HowMany(0 .. input.size - 1, c, v)]]
    <3>1. hist \in [Channel -> [Value -> Nat]]
      BY <2>0 DEF CountTypeOK
    <3>. QED
      BY <2>2, <3>1
  <2>. QED
    BY <2>0, <2>3, SerialCounts
<1>2. IInv => FinalHistogram
  BY <1>1 DEF FinalHistogram
<1>. QED
  BY <1>2, Invariant, PTL
=============================================================================
