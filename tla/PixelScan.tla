----------------------------- MODULE PixelScan -----------------------------
(***************************************************************************)
(* What the histogram programs of a3 have in common: main starts one       *)
(* thread per slice of the pixels and joins them all; every thread counts  *)
(* the three channels of every pixel of its slice, one after the other.    *)
(* How one channel of one pixel is counted is left to the programs: they   *)
(* take a thread from the label First to a call of Advance.  Before that   *)
(* main has read the picture.                                              *)
(***************************************************************************)
EXTENDS Slices, PPMFile

CONSTANT threads   \* the number of threads, argv[3]

Thread == 0 .. threads - 1

ASSUME ThreadsAssumption == threads \in Nat \ {0}

VARIABLES
  input,    \* struct img; its size is xsize * ysize
  hist,     \* hist[c][v]: hist_r, hist_g, hist_b
  main,     \* what main does: "read", "start", "join", "merge", "done", ...
  i,        \* main's loop variable
  pc,       \* pc[t]: the statement thread t is at
  pix,      \* pix[t]: the pixel thread t counts
  chan      \* chan[t]: the channel of it

scanVars == <<input, hist, main, i, pc, pix, chan>>

Start(t) == SliceStart(input.size, threads, t)
End(t) == SliceEnd(input.size, threads, t)

\* The entry of the histogram of its channel that thread t counts up.
Bucket(t) == input.rgb[chan[t]][pix[t]]

\* The entries of a histogram: total_rgb of them.
Value == 0 .. input.maxrgb

\* calloc: a histogram of zeros for each channel.
Zeros == [c \in Channel |-> [v \in Value |-> 0]]

ScanInit ==
  /\ input = [size |-> 0, maxrgb |-> 0]
  /\ hist = Zeros
  /\ main = "read"
  /\ i = 0
  /\ pc = [t \in Thread |-> "idle"]
  /\ pix = [t \in Thread |-> 0]
  /\ chan = [t \in Thread |-> 1]

\* Thread t goes to the pixel p, or returns at the end of its slice.
ToPixel(t, p, first) ==
  /\ pix' = [pix EXCEPT ![t] = p]
  /\ chan' = [chan EXCEPT ![t] = 1]
  /\ pc' = [pc EXCEPT ![t] = IF p < End(t) THEN first ELSE "done"]

\* The entry of histogram: the bounds of the slice, the first loop test.
BeginSlice(t, first) ==
  /\ pc[t] = "begin"
  /\ ToPixel(t, Start(t), first)
  /\ UNCHANGED <<input, hist, main, i>>

\* The channel is counted: the next channel, or pix++ and the loop test.
Advance(t, first) ==
  \/ /\ chan[t] < 3
     /\ chan' = [chan EXCEPT ![t] = @ + 1]
     /\ pc' = [pc EXCEPT ![t] = first]
     /\ UNCHANGED pix
  \/ /\ chan[t] = 3
     /\ ToPixel(t, pix[t] + 1, first)

\* if (!ppmb_read(...)): the picture is taken and the histograms are made, or
\* main exits: its maxrgb is not supported, or it has no "else" for an error.
\* What happened to the files before does not matter any more.
TakePicture ==
  /\ main = "read"
  /\ \/ /\ at = "read" /\ header[3] <= 255
        /\ input' = PictureRead
        /\ main' = "start"
        /\ hist' = Zeros'
     \/ /\ at = "error" \/ (at = "read" /\ header[3] > 255)
        /\ main' = "exit"
        /\ UNCHANGED <<input, hist>>
  /\ at' = "over" /\ disk' = <<>> /\ held' = 0 /\ tell' = 0 /\ room' = Room
  /\ picture' = CHOOSE p \in Pictures : TRUE
  /\ state' = 0 /\ string' = Word /\ header' = <<>> /\ data' = <<>>
  /\ UNCHANGED <<i, pc, pix, chan>>

\* thread_arr[i] = std::thread(histogram, ...)
StartThread ==
  /\ main = "start"
  /\ pc' = [pc EXCEPT ![i] = "begin"]
  /\ \/ i + 1 < threads /\ i' = i + 1 /\ UNCHANGED main
     \/ i + 1 = threads /\ i' = 0 /\ main' = "join"
  /\ UNCHANGED <<input, hist, pix, chan>>

\* thread_arr[i].join(); after the last one main goes on at next.
JoinThread(next) ==
  /\ main = "join"
  /\ pc[i] = "done"
  /\ \/ i + 1 < threads /\ i' = i + 1 /\ UNCHANGED main
     \/ i + 1 = threads /\ i' = 0 /\ main' = next
  /\ UNCHANGED <<input, hist, pc, pix, chan>>

\* The sequential program, histogram.cpp, on the first n pixels.
SerialHist[n \in Nat] ==
  IF n = 0 THEN Zeros
  ELSE [c \in Channel |->
          [SerialHist[n - 1][c] EXCEPT ![input.rgb[c][n - 1]] = @ + 1]]
=============================================================================
