--------------------------- MODULE ProcessEvents ----------------------------
(***************************************************************************)
(* What a subscriber to a process's events is promised, wherever the        *)
(* process runs: Output, Exited and Closed in the order in which they       *)
(* happened, each once, Closed last, unless the stream is cut short by a    *)
(* Failed, after which nothing follows.  Events may be delivered late and   *)
(* several at a time; connections, retries and reordering are not visible.  *)
(***************************************************************************)
EXTENDS Naturals, Sequences

VARIABLES
  log,     \* the kinds of the events of the process, in order
  seen,    \* what the subscriber has been given
  outcome  \* "open", "closed" or "failed"

vars == <<log, seen, outcome>>

Happened(k) == \E i \in DOMAIN log : log[i] = k

Init ==
  /\ log = << >>
  /\ seen = << >>
  /\ outcome = "open"

\* The process goes on: it exits once, and is closed once, after its exit.
Happen(k) ==
  /\ ~Happened("closed")
  /\ k = "exit" => ~Happened("exit")
  /\ k = "closed" => Happened("exit")
  /\ log' = Append(log, k)
  /\ UNCHANGED <<seen, outcome>>

\* The subscriber is given everything up to event n.
Deliver(n) ==
  /\ outcome = "open" /\ n > Len(seen)
  /\ seen' = SubSeq(log, 1, n)
  /\ outcome' = IF log[n] = "closed" THEN "closed" ELSE "open"
  /\ UNCHANGED log

\* The stream cannot go on.
Fail ==
  /\ outcome = "open"
  /\ outcome' = "failed"
  /\ UNCHANGED <<log, seen>>

Next ==
  \/ \E k \in {"out", "exit", "closed"} : Happen(k)
  \/ \E n \in 1 .. Len(log) : Deliver(n)
  \/ Fail

Spec == Init /\ [][Next]_vars
=============================================================================
