------------------------------ MODULE TTASLock ------------------------------
(***************************************************************************)
(* The test-and-test-and-set lock of histo_lock1.  There is one lock for   *)
(* each channel.  A thread acquires the lock of its channel on the way     *)
(* from "test" to "load", and gives it back at "release".                  *)
(***************************************************************************)
EXTENDS PixelScan

VARIABLE f    \* f[c]: the flag of the lock of channel c

TTASInit == f = [c \in Channel |-> FALSE]

\* while (f);  One look at the flag; a look that sees TRUE changes nothing.
TestFlag(t) ==
  /\ pc[t] = "test"
  /\ ~f[chan[t]]
  /\ pc' = [pc EXCEPT ![t] = "exchange"]
  /\ UNCHANGED <<input, hist, main, i, pix, chan, f>>

\* Faulty: what the exchange returns is not looked at.
ExchangeUnchecked(t) ==
  /\ pc[t] = "exchange"
  /\ f' = [f EXCEPT ![chan[t]] = TRUE]
  /\ pc' = [pc EXCEPT ![t] = "load"]
  /\ UNCHANGED <<input, hist, main, i, pix, chan>>

\* while (f.exchange(true));
ExchangeFlag(t) ==
  /\ pc[t] = "exchange"
  /\ f' = [f EXCEPT ![chan[t]] = TRUE]
  /\ pc' = [pc EXCEPT ![t] = IF f[chan[t]] THEN "test" ELSE "load"]
  /\ UNCHANGED <<input, hist, main, i, pix, chan>>

\* f = false;
ClearFlag(t) ==
  /\ pc[t] = "release"
  /\ f' = [f EXCEPT ![chan[t]] = FALSE]
  /\ Advance(t, "test")
  /\ UNCHANGED <<input, hist, main, i>>

TTASStep(t) == TestFlag(t) \/ ExchangeFlag(t) \/ ClearFlag(t)
=============================================================================
