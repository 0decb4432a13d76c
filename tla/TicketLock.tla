----------------------------- MODULE TicketLock -----------------------------
(***************************************************************************)
(* The ticket lock of histo_lock2, one for each channel.  A thread is in   *)
(* acquire from "take" to "load" and in release from "release" on.  The    *)
(* loads and stores of the lock are kept in the order of the program.      *)
(***************************************************************************)
EXTENDS PixelScan

VARIABLES
  next_ticket,   \* next_ticket[c], now_serving[c]: the lock of channel c
  now_serving,
  my_ticket,     \* my_ticket[t], ns[t]: the locals of acquire
  ns,
  serve          \* serve[t]: the local t of release

ticketVars == <<next_ticket, now_serving, my_ticket, ns, serve>>

base == 5

TicketInit ==
  /\ next_ticket = [c \in Channel |-> 0]
  /\ now_serving = [c \in Channel |-> 0]
  /\ my_ticket = [t \in Thread |-> 0]
  /\ ns = [t \in Thread |-> 0]
  /\ serve = [t \in Thread |-> 0]

\* Faulty: the ticket is read and not taken.
ReadTicket(t) ==
  /\ pc[t] = "take"
  /\ my_ticket' = [my_ticket EXCEPT ![t] = next_ticket[chan[t]]]
  /\ pc' = [pc EXCEPT ![t] = "look"]
  /\ UNCHANGED <<input, hist, main, i, pix, chan, next_ticket, now_serving, ns, serve>>

\* int my_ticket = next_ticket.fetch_add(1);
TakeTicket(t) ==
  /\ pc[t] = "take"
  /\ my_ticket' = [my_ticket EXCEPT ![t] = next_ticket[chan[t]]]
  /\ next_ticket' = [next_ticket EXCEPT ![chan[t]] = @ + 1]
  /\ pc' = [pc EXCEPT ![t] = "look"]
  /\ UNCHANGED <<input, hist, main, i, pix, chan, now_serving, ns, serve>>

\* int ns = now_serving.load(); if (ns == my_ticket) break;
LookServing(t) ==
  /\ pc[t] = "look"
  /\ ns' = [ns EXCEPT ![t] = now_serving[chan[t]]]
  /\ pc' = [pc EXCEPT ![t] = IF ns'[t] = my_ticket[t] THEN "load" ELSE "pause"]
  /\ UNCHANGED <<input, hist, main, i, pix, chan, next_ticket, now_serving, my_ticket, serve>>

\* The turns of the empty loop and the nanoseconds of the sleep.
Pause(t) == base * (my_ticket[t] - ns[t])

\* The pause is over.
EndPause(t) ==
  /\ pc[t] = "pause"
  /\ pc' = [pc EXCEPT ![t] = "look"]
  /\ UNCHANGED <<input, hist, main, i, pix, chan, ticketVars>>

\* int t = now_serving + 1;
ReadServing(t) ==
  /\ pc[t] = "release"
  /\ serve' = [serve EXCEPT ![t] = now_serving[chan[t]] + 1]
  /\ pc' = [pc EXCEPT ![t] = "serve"]
  /\ UNCHANGED <<input, hist, main, i, pix, chan, next_ticket, now_serving, my_ticket, ns>>

\* Faulty: the next ticket is not served.
KeepServing(t) ==
  /\ pc[t] = "serve"
  /\ Advance(t, "take")
  /\ UNCHANGED <<input, hist, main, i, next_ticket, now_serving, my_ticket, ns, serve>>

\* now_serving.store(t);
StoreServing(t) ==
  /\ pc[t] = "serve"
  /\ now_serving' = [now_serving EXCEPT ![chan[t]] = serve[t]]
  /\ Advance(t, "take")
  /\ UNCHANGED <<input, hist, main, i, next_ticket, my_ticket, ns, serve>>

TicketStep(t) ==
  \/ TakeTicket(t)
  \/ LookServing(t)
  \/ EndPause(t)
  \/ ReadServing(t)
  \/ StoreServing(t)
=============================================================================
