----------------------------- MODULE Histogram -----------------------------
(***************************************************************************)
(* The threaded programs of a3: histo_lock1 and histo_lock2 count in a     *)
(* shared array under a lock, histo_lockfree in a shared array of atomics, *)
(* histo_private in an array for each thread, which main adds up.  The     *)
(* variable program says which of them runs.  "+= 1" on a shared int is a  *)
(* load and a store.  ppmb_read_test is here too, as "check".               *)
(***************************************************************************)
EXTENDS TTASLock, TicketLock

VARIABLES
  program,
  register,   \* register[t]: what thread t has loaded for "+= 1"
  p_hist      \* p_hist[t][c][v]: the private histograms of histo_private

countVars == <<register, p_hist>>
vars == <<ppmVars, scanVars, f, ticketVars, program, countVars>>

Programs == {"lock1", "lock2", "lockfree", "private", "check"}

\* The first statement for one channel of one pixel.
First == CASE program = "lock1" -> "test"
           [] program = "lock2" -> "take"
           [] OTHER             -> "add"

Init ==
  /\ ScanInit
  /\ TTASInit
  /\ TicketInit
  /\ program \in Programs
  /\ WriteInit \/ ForeignInit
  /\ register = [t \in Thread |-> 0]
  /\ p_hist = [t \in Thread |-> Zeros]

\* The load of hist_x[input->x[pix]] += 1, between acquire and release.
LoadCount(t) ==
  /\ pc[t] = "load" /\ Bucket(t) \in Value
  /\ register' = [register EXCEPT ![t] = hist[chan[t]][Bucket(t)]]
  /\ pc' = [pc EXCEPT ![t] = "store"]
  /\ UNCHANGED <<input, hist, main, i, pix, chan, f, ticketVars, p_hist>>

\* The store of it.
StoreCount(t) ==
  /\ pc[t] = "store"
  /\ hist' = [hist EXCEPT ![chan[t]][Bucket(t)] = register[t] + 1]
  /\ pc' = [pc EXCEPT ![t] = "release"]
  /\ UNCHANGED <<input, main, i, pix, chan, f, ticketVars, countVars>>

\* histo_lockfree: hist_x[input->x[pix]]++ on an atomic.
AddShared(t) ==
  /\ program = "lockfree"
  /\ pc[t] = "add" /\ Bucket(t) \in Value
  /\ hist' = [hist EXCEPT ![chan[t]][Bucket(t)] = @ + 1]
  /\ Advance(t, First)
  /\ UNCHANGED <<input, main, i, f, ticketVars, countVars>>

\* histo_private: the same in the array of the thread.
AddPrivate(t) ==
  /\ program = "private"
  /\ pc[t] = "add" /\ Bucket(t) \in Value
  /\ p_hist' = [p_hist EXCEPT ![t][chan[t]][Bucket(t)] = @ + 1]
  /\ Advance(t, First)
  /\ UNCHANGED <<input, hist, main, i, f, ticketVars, register>>

\* A value above the maxrgb of its file: the count is outside the array, and
\* nothing is claimed of what the program does then.
CountOutside(t) ==
  /\ main # "undefined"
  /\ pc[t] \in {"load", "add"} /\ Bucket(t) \notin Value
  /\ main' = "undefined"
  /\ UNCHANGED <<input, hist, i, pc, pix, chan, f, ticketVars, program, countVars, ppmVars>>

\* Faulty: the loop of the merge ends one thread early.
MergeShort ==
  /\ main = "merge"
  /\ hist' = IF i + 1 = threads THEN hist
             ELSE [c \in Channel |-> [v \in Value |-> hist[c][v] + p_hist[i][c][v]]]
  /\ \/ i + 1 < threads /\ i' = i + 1 /\ UNCHANGED main
     \/ i + 1 = threads /\ i' = 0 /\ main' = "done"
  /\ UNCHANGED <<input, pc, pix, chan, f, ticketVars, countVars>>

\* histo_private: main adds the array of thread i, after all have ended.
Merge ==
  /\ main = "merge"
  /\ hist' = [c \in Channel |-> [v \in Value |-> hist[c][v] + p_hist[i][c][v]]]
  /\ \/ i + 1 < threads /\ i' = i + 1 /\ UNCHANGED main
     \/ i + 1 = threads /\ i' = 0 /\ main' = "done"
  /\ UNCHANGED <<input, pc, pix, chan, f, ticketVars, countVars>>

ThreadStep(t) ==
  /\ main # "undefined"
  /\ \/ BeginSlice(t, First) /\ UNCHANGED <<f, ticketVars, countVars>>
     \/ TTASStep(t) /\ program = "lock1" /\ UNCHANGED <<ticketVars, countVars>>
     \/ TicketStep(t) /\ program = "lock2" /\ UNCHANGED <<f, countVars>>
     \/ LoadCount(t)
     \/ StoreCount(t)
     \/ AddShared(t)
     \/ AddPrivate(t)
  /\ UNCHANGED <<program, ppmVars>>

\* Before the threads: the picture is written, then read.
FileStep ==
  /\ \/ WriteStep /\ UNCHANGED <<scanVars, p_hist>>
     \/ ReadStep /\ UNCHANGED <<scanVars, p_hist>>
     \/ ReadTest /\ program = "check" /\ UNCHANGED <<scanVars, p_hist>>
     \/ TakePicture /\ program # "check" /\ p_hist' = [t \in Thread |-> Zeros']
  /\ UNCHANGED <<f, ticketVars, program, register>>

MainStep ==
  /\ \/ StartThread /\ UNCHANGED <<f, ticketVars, countVars>>
     \/ /\ JoinThread(IF program = "private" THEN "merge" ELSE "done")
        /\ UNCHANGED <<f, ticketVars, countVars>>
     \/ Merge
  /\ UNCHANGED <<program, ppmVars>>

\* main has written the histograms, or had no picture, or the test is over; or
\* the file has led to a step whose outcome C++ does not define.
Ended == main \in {"done", "exit", "undefined"} \/ at \in {"passed", "bad", "undefined"}
Terminating == Ended /\ UNCHANGED vars

Next == FileStep \/ MainStep \/ (\E t \in Thread : ThreadStep(t) \/ CountOutside(t)) \/ Terminating

Spec == Init /\ [][Next]_vars

\* The operating system runs main and every thread.
FairSpec ==
  /\ Spec
  /\ WF_vars(FileStep)
  /\ WF_vars(MainStep)
  /\ \A t \in Thread : WF_vars(ThreadStep(t) \/ CountOutside(t))

-----------------------------------------------------------------------------
(***************************************************************************)
(* What the programs must compute.                                         *)
(***************************************************************************)

\* The pixels whose channel c thread t has counted.
Passed(t, c) ==
  { p \in Start(t) .. End(t) - 1 :
      /\ pc[t] \notin {"idle", "begin"}
      /\ \/ p < pix[t]
         \/ p = pix[t] /\ c < chan[t]
         \/ p = pix[t] /\ c = chan[t] /\ pc[t] \in {"release", "serve"} }

\* The threads whose private histograms main has added.
Merged == { t \in Thread : main = "done" \/ (main = "merge" /\ t < i) }

\* The pixels that the shared histogram of channel c accounts for.
InHist(c) ==
  IF program = "private" THEN UNION { Start(t) .. End(t) - 1 : t \in Merged }
                         ELSE UNION { Passed(t, c) : t \in Thread }

\* The pixels that the private histogram of thread t accounts for.
InPrivate(t, c) == IF program = "private" THEN Passed(t, c) ELSE {}

HowMany(S, c, v) == Cardinality({ p \in S : input.rgb[c][p] = v })

\* At every moment every count is the number of pixels of its value that
\* have been counted: no increment overwrites another one, no slice is
\* left out or added twice.
NothingLost ==
  \A c \in Channel, v \in Value :
    /\ hist[c][v] = HowMany(InHist(c), c, v)
    /\ \A t \in Thread : p_hist[t][c][v] = HowMany(InPrivate(t, c), c, v)

\* The threads that have a ticket of channel c and have not served the next.
InLine(c) ==
  { t \in Thread : program = "lock2" /\ chan[t] = c
      /\ pc[t] \in {"look", "pause", "load", "store", "release", "serve"} }

\* The line is served in order and without gaps: the tickets that are out
\* are all different and are exactly the numbers from now_serving on.  No
\* more tickets than pixels are given out, so that the int never overflows,
\* and a thread pauses only for threads in front of it, also when what it has
\* read is old: the argument of nanosleep is positive and bounded.
TicketsInLine ==
  \A c \in Channel :
    /\ { my_ticket[t] : t \in InLine(c) } = now_serving[c] .. next_ticket[c] - 1
    /\ \A t, u \in InLine(c) : t # u => my_ticket[t] # my_ticket[u]
    /\ next_ticket[c] <= input.size
    /\ \A t \in InLine(c) : pc[t] = "pause" => Pause(t) \in base .. base * (threads - 1)

\* What main writes is what the sequential program would have written.
FinalHistogram == main = "done" => hist = SerialHist[input.size]

\* The threads and main return, whatever the file was, as long as what they do
\* is defined: no thread is left in a spin or in line.
Termination == <>Ended
=============================================================================
