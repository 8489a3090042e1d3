----------------------------- MODULE ExecStream -----------------------------
(***************************************************************************)
(* The event stream of one process that runs on a remote exec-server.      *)
(*                                                                         *)
(* The server numbers the process's events under its table lock: output    *)
(* chunks, the exit and the close, each appended by whichever task saw it. *)
(* Each task notifies the client only after it released the lock, so       *)
(* notifications are sent out of order, to the connection that is the      *)
(* notification sender at that moment, and are lost with it.  The client   *)
(* holds early events back and publishes in sequence.  When its connection *)
(* ends it resumes the session on a new one and reads what it missed, while *)
(* notifications already arrive on the new connection.                     *)
(*                                                                         *)
(* The process has been started and its session is recoverable when the    *)
(* model begins.  An event is its sequence number and its kind; the payload *)
(* is left out.  An output chunk counts one byte against the limits.       *)
(***************************************************************************)
EXTENDS Naturals, Sequences, FiniteSets

CONSTANTS Streams,    \* the output streams: stdout and stderr
          Exit,       \* the watch_exit task
          MaxOut,     \* bound: output chunks the process writes
          MaxConns,   \* bound: connections the client opens
          Retained,   \* RETAINED_OUTPUT_BYTES_PER_PROCESS, in chunks
          MaxPending  \* MAX_PENDING_PROCESS_EVENTS

ASSUME TasksAssumption == Exit \notin Streams
ASSUME BoundsAssumption == MaxOut \in Nat /\ MaxConns \in Nat \ {0}
ASSUME LimitsAssumption == Retained \in Nat \ {0} /\ MaxPending \in Nat \ {0}

VARIABLES
  log,       \* kinds of the events numbered so far; event i has seq i
  open,      \* open_streams: streams whose end has not been counted yet
  table,     \* "running", or "removed" after EXITED_PROCESS_RETENTION
  spc,       \* where each server task is
  note,      \* the sequence number a task is about to notify, else 0
  sendto,    \* the sender a task has cloned
  sender,    \* LocalProcess's notification sender, NoConn when None
  opened,    \* connections opened so far, numbered from 1
  alive,     \* connections whose transport is up
  wire,      \* notifications on their way or queued, per connection
  readers,   \* connections whose spawn_rpc_reader task still runs
  status,    \* ConnectionStatus
  current,   \* the connection of ConnectionStatus::Connected
  rec,       \* where recover() is
  after,     \* after_seq of the recovery read
  reply,     \* ReadResponse of the recovery read
  last,      \* last_published_seq
  pending,   \* OrderedSessionEvents.pending
  published, \* history: what the session's ExecProcessEventLog was given
  route      \* the client's entry for the process in Inner.sessions

serverVars == <<log, open, table, spc, note, sendto, sender>>
netVars == <<opened, alive, wire, readers>>
connVars == <<status, current, rec, after, reply>>
clientVars == <<last, pending, published, route>>
vars == <<serverVars, netVars, connVars, clientVars>>

-----------------------------------------------------------------------------
Tasks == Streams \cup {Exit}
Conns == 1 .. MaxConns
NoConn == 0
Kinds == {"out", "exit", "closed"}
Event == [seq : Nat \ {0}, kind : Kinds]
Reply == [chunks : SUBSET Nat, next : Nat, exited : BOOLEAN, closed : BOOLEAN]

Positions == 0 .. MaxOut + 2   \* sequence numbers, and 0 before the first

NoReply == [chunks |-> {}, next |-> 1, exited |-> FALSE, closed |-> FALSE]

TypeOK ==
  /\ log \in Seq(Kinds)
  /\ open \subseteq Streams
  /\ table \in {"running", "removed"}
  /\ spc \in [Tasks -> {"waiting", "notify", "send", "close", "done"}]
  /\ note \in [Tasks -> Nat]
  /\ sendto \in [Tasks -> Conns \cup {NoConn}]
  /\ sender \in Conns \cup {NoConn}
  /\ opened \in Conns
  /\ alive \subseteq 1 .. opened
  /\ wire \in [Conns -> Seq(Event)]
  /\ readers \subseteq 1 .. opened
  /\ status \in {"connected", "recovering", "failed"}
  /\ current \in Conns
  /\ rec \in {"idle", "connect", "read", "asked", "answered", "terminate",
              "install"}
  /\ after \in Nat
  /\ reply \in Reply
  /\ last \in Nat
  /\ pending \subseteq Event
  /\ published \in Seq(Kinds \cup {"failed"})
  /\ route \in {"routed", "removed", "dropped"}

Init ==
  /\ log = << >>
  /\ open = Streams
  /\ table = "running"
  /\ spc = [t \in Tasks |-> "waiting"]
  /\ note = [t \in Tasks |-> 0]
  /\ sendto = [t \in Tasks |-> NoConn]
  /\ sender = 1
  /\ opened = 1
  /\ alive = {1}
  /\ wire = [c \in Conns |-> << >>]
  /\ readers = {1}
  /\ status = "connected"
  /\ current = 1
  /\ rec = "idle"
  /\ after = 0
  /\ reply = NoReply
  /\ last = 0
  /\ pending = {}
  /\ published = << >>
  /\ route = "routed"

-----------------------------------------------------------------------------
(* The server: LocalProcess and its tasks.                                 *)

Has(seq, k) == \E i \in DOMAIN seq : seq[i] = k

Outputs == {i \in DOMAIN log : log[i] = "out"}

\* process.output: the newest chunks, up to the retention limit.
RetainedOutput ==
  {i \in Outputs : Cardinality({j \in Outputs : j >= i}) <= Retained}

\* What a task does once it has notified event kind k.
AfterNotify(k) ==
  CASE k = "out" -> "waiting" [] k = "exit" -> "close" [] k = "closed" -> "done"

\* The table lock is held: number an event; its notification comes later.
Emit(t, k) ==
  /\ log' = Append(log, k)
  /\ note' = [note EXCEPT ![t] = Len(log) + 1]
  /\ spc' = [spc EXCEPT ![t] = "notify"]

\* stream_output receives a chunk.
StreamChunk(s) ==
  /\ spc[s] = "waiting" /\ Cardinality(Outputs) < MaxOut
  /\ Emit(s, "out")
  /\ UNCHANGED <<open, table, sendto, sender, netVars, connVars, clientVars>>

\* The stream ends: finish_output_stream counts it.
StreamEnds(s) ==
  /\ spc[s] = "waiting"
  /\ open' = open \ {s}
  /\ spc' = [spc EXCEPT ![s] = "close"]
  /\ UNCHANGED <<log, table, note, sendto, sender, netVars, connVars,
                 clientVars>>

\* watch_exit: the child exited, possibly before its output was drained.
ChildExits ==
  /\ spc[Exit] = "waiting"
  /\ Emit(Exit, "exit")
  /\ UNCHANGED <<open, table, sendto, sender, netVars, connVars, clientVars>>

\* Mutant of the next definition: the exit alone closes the process.
ReadyAtExit == Has(log, "exit")

\* maybe_emit_closed's condition, all streams ended and the exit recorded.
ReadyToClose == open = {} /\ Has(log, "exit")

\* maybe_emit_closed, run by every stream task and by watch_exit.
MaybeEmitClosed(t) ==
  /\ spc[t] = "close"
  /\ IF ReadyToClose /\ ~Has(log, "closed")
     THEN Emit(t, "closed")
     ELSE /\ spc' = [spc EXCEPT ![t] = "done"]
          /\ UNCHANGED <<log, note>>
  /\ UNCHANGED <<open, table, sendto, sender, netVars, connVars, clientVars>>

\* notification_sender(): clone the sender of this moment, if there is one.
CloneSender(t) ==
  /\ spc[t] = "notify"
  /\ IF sender = NoConn
     THEN /\ spc' = [spc EXCEPT ![t] = AfterNotify(log[note[t]])]
          /\ note' = [note EXCEPT ![t] = 0]
          /\ UNCHANGED sendto
     ELSE /\ spc' = [spc EXCEPT ![t] = "send"]
          /\ sendto' = [sendto EXCEPT ![t] = sender]
          /\ UNCHANGED note
  /\ UNCHANGED <<log, open, table, sender, netVars, connVars, clientVars>>

\* notify(): the event is queued on that connection, or lost with it.
Notify(t) ==
  /\ spc[t] = "send"
  /\ spc' = [spc EXCEPT ![t] = AfterNotify(log[note[t]])]
  /\ wire' = IF sendto[t] \in alive
             THEN [wire EXCEPT ![sendto[t]] =
                     Append(@, [seq |-> note[t], kind |-> log[note[t]]])]
             ELSE wire
  /\ note' = [note EXCEPT ![t] = 0]
  /\ sendto' = [sendto EXCEPT ![t] = NoConn]
  /\ UNCHANGED <<log, open, table, sender, opened, alive, readers, connVars,
                 clientVars>>

\* EXITED_PROCESS_RETENTION after the close the table forgets the process.
Retire ==
  /\ Has(log, "closed") /\ table = "running"
  /\ table' = "removed"
  /\ UNCHANGED <<log, open, spc, note, sendto, sender, netVars, connVars,
                 clientVars>>

\* The server notices the end of the connection and detaches the session.
Detach ==
  /\ sender # NoConn /\ sender \notin alive
  /\ sender' = NoConn
  /\ UNCHANGED <<log, open, table, spc, note, sendto, netVars, connVars,
                 clientVars>>

\* A connection breaks; what had reached the client's queue stays there.
Disconnect(c) ==
  /\ c \in alive
  /\ alive' = alive \ {c}
  /\ \E n \in 0 .. Len(wire[c]) : wire' = [wire EXCEPT ![c] = SubSeq(@, 1, n)]
  /\ UNCHANGED <<serverVars, opened, readers, connVars, clientVars>>

-----------------------------------------------------------------------------
(* The client: OrderedSessionEvents.                                       *)

Seqs(events) == {e.seq : e \in events}

ClosedPublished == Has(published, "closed")
Failed == Has(published, "failed")
Terminal == ClosedPublished \/ Failed

\* publish_ready, applied at l, publishes up to n: there it finds a gap.
PublishesTo(n, l, events) ==
  /\ n >= l
  /\ (l + 1) .. n \subseteq Seqs(events)
  /\ n + 1 \notin Seqs(events)

\* The kinds of the events numbered l + 1 .. n.
Released(n, l, events) ==
  [i \in 1 .. n - l |-> (CHOOSE e \in events : e.seq = l + i).kind]

\* Mutant of the next definition: an early event is not held back, it is
\* published with the next free number.
PublishAtOnce(n, events) ==
  /\ n = last + 1 /\ events # {}
  /\ last' = n
  /\ LET e == CHOOSE e \in events : \A d \in events : e.seq <= d.seq IN
       /\ published' = Append(published, e.kind)
       /\ pending' = events \ {e}

\* publish_ready: publish what is next in sequence, keep the rest.
PublishReady(n, events) ==
  /\ PublishesTo(n, last, events)
  /\ last' = n
  /\ published' = published \o Released(n, last, events)
  /\ pending' = {e \in events : e.seq > n}

\* Mutant of the next definition: Failed is published after Closed, too.
SetFailureAlways ==
  /\ published' = Append(published, "failed")
  /\ pending' = {}
  /\ UNCHANGED last

\* set_failure: the first terminal event wins.
SetFailure ==
  /\ IF Terminal THEN UNCHANGED <<published, pending>>
                 ELSE /\ published' = Append(published, "failed")
                      /\ pending' = {}
  /\ UNCHANGED last

\* Mutant of the next definition: one more event is buffered.
OverflowLate(seq, l, events) ==
  seq # l + 1 /\ Cardinality(events) > MaxPending

\* insert_pending refuses an event that would stay in a full reorder buffer.
Overflow(seq, l, events) ==
  seq # l + 1 /\ Cardinality(events) >= MaxPending

\* remove_session_if, once the process's last event is published.
RemoveSession == IF route = "routed" THEN "removed" ELSE route

\* Mutant of the next definition: the route goes when the close arrives.
RemoveOnArrival(e) ==
  /\ \E n \in Positions : PublishReady(n, pending \cup {e})
  /\ route' = IF e.kind = "closed" THEN RemoveSession ELSE route

\* publish_ordered_event inserts and publishes; finish_process_event then
\* removes the route if that published Closed.
InsertAndPublish(e) ==
  /\ \E n \in Positions :
       PublishReady(n, IF e.seq \in Seqs(pending) THEN pending
                                                  ELSE pending \cup {e})
  /\ route' = IF Has(published', "closed") THEN RemoveSession ELSE route

\* handle_server_notification on the oldest notification of c's reader.
Notification(c) ==
  /\ c \in readers /\ wire[c] # << >>
  /\ wire' = [wire EXCEPT ![c] = Tail(@)]
  /\ LET e == Head(wire[c]) IN
       CASE route # "routed" \/ Terminal \/ e.seq <= last ->
              UNCHANGED clientVars
         [] OTHER ->
              IF e.seq \notin Seqs(pending) /\ Overflow(e.seq, last, pending)
              THEN SetFailure /\ route' = "removed"
              ELSE InsertAndPublish(e)
  /\ UNCHANGED <<serverVars, opened, alive, readers, connVars>>

\* The consumer drops its process handle, which unregisters the session.
Unregister ==
  /\ route = "routed"
  /\ route' = "dropped"
  /\ UNCHANGED <<serverVars, netVars, connVars, last, pending, published>>

-----------------------------------------------------------------------------
(* The client: recovery of the connection.                                 *)

\* The reader of c sees Disconnected, the last of its events, and asks for
\* recovery: request_recovery ignores all but the current connection.
RequestRecovery(c) ==
  /\ c \in readers \ alive /\ wire[c] = << >>
  /\ readers' = readers \ {c}
  /\ IF status = "connected" /\ current = c
     THEN status' = "recovering" /\ rec' = "connect"
     ELSE UNCHANGED <<status, rec>>
  /\ UNCHANGED <<serverVars, opened, alive, wire, current, after, reply,
                 clientVars>>

\* resume_once: connect, start the reader and initialize, which the server
\* refuses while the session is attached and which redirects notifications.
Resume ==
  /\ rec = "connect" /\ opened < MaxConns /\ sender = NoConn
  /\ opened' = opened + 1
  /\ alive' = alive \cup {opened + 1}
  /\ readers' = readers \cup {opened + 1}
  /\ sender' = opened + 1
  /\ rec' = "read"
  /\ UNCHANGED <<log, open, table, spc, note, sendto, wire, status, current,
                 after, reply, clientVars>>

\* Mutant of the next definition: the resumed session is taken as current.
AskNothing ==
  /\ rec = "read"
  /\ rec' = "install"
  /\ UNCHANGED <<serverVars, netVars, status, current, after, reply,
                 clientVars>>

\* recover_processes: ask for what follows the last published event.
AskRead ==
  /\ rec = "read"
  /\ IF route = "routed" THEN rec' = "asked" /\ after' = last
                         ELSE rec' = "install" /\ UNCHANGED after
  /\ UNCHANGED <<serverVars, netVars, status, current, reply, clientVars>>

\* exec_read with no byte limit and no wait.
ExecRead ==
  [chunks |-> {i \in RetainedOutput : i > after},
   next   |-> Len(log) + 1,
   exited |-> Has(log, "exit"),
   closed |-> Has(log, "closed")]

\* The server answers; a process it no longer knows is an error.
AnswerRead ==
  /\ rec = "asked" /\ opened \in alive
  /\ IF table = "running" THEN reply' = ExecRead /\ rec' = "answered"
                          ELSE rec' = "terminate" /\ UNCHANGED reply
  /\ after' = 0
  /\ UNCHANGED <<serverVars, netVars, status, current, clientVars>>

Target == reply.next - 1

\* exit_known: Exited was published or waits in the reorder buffer.
ExitKnown ==
  \/ Has(published, "exit")
  \/ \E e \in pending : e.seq <= Target /\ e.kind = "exit"

NewChunks ==
  {[seq |-> i, kind |-> "out"] :
     i \in {c \in reply.chunks : c > last /\ c \notin Seqs(pending)}}

\* While it walks the chunks, recover_events takes the first gap, after n, to
\* be the exit that the reply does not number.
GuessedExit(n) ==
  IF reply.exited /\ ~ExitKnown /\ \E c \in reply.chunks : c > n + 1
  THEN {[seq |-> n + 1, kind |-> "exit"]}
  ELSE {}

\* What the reorder buffer takes of the chunks beyond n, in sequence order.
Kept(n, events) ==
  LET beyond == {e \in events : e.seq > n} IN
  {e \in beyond :
     \/ e \in pending
     \/ Cardinality({d \in beyond : d \in pending \/ d.seq <= e.seq})
          <= MaxPending}

\* Closed is numbered by the reply: it is the event before next_seq.
MissingClosed(n, events) ==
  IF reply.closed /\ Target > n /\ Target \notin Seqs(events)
  THEN {[seq |-> Target, kind |-> "closed"]}
  ELSE {}

Missing(n, events) == ((n + 1) .. Target) \ Seqs(events)

\* An exit that no chunk follows is the only event missing from the reply.
ExitIsLate(n) == reply.exited /\ ~ExitKnown /\ GuessedExit(n) = {}

\* Mutant of the next definition: missing events are not noticed.
GapIgnored(n, missing) == FALSE

GapRemains(n, missing) ==
  IF ExitIsLate(n) THEN Cardinality(missing) # 1 ELSE missing # {}

\* Publish events up to n and keep the events of keep.
Publish(n, events, keep) ==
  /\ last' = n
  /\ published' = published \o Released(n, last, events)
  /\ pending' = keep

\* recover_events beyond its early returns, under the lock of ordered_events:
\* the walk over the chunks publishes to n2, the rest to n3.  An error leaves
\* what the walk did in place.
RecoverFrom(n1, n2) ==
  LET walked  == pending \cup NewChunks \cup GuessedExit(n1)
      kept    == Kept(n2, walked)
      closed  == MissingClosed(n2, kept)
      whole   == kept \cup closed
      missing == Missing(n2, whole)
      exits   == IF ExitIsLate(n1) THEN missing ELSE {}
      final   == whole \cup {[seq |-> m, kind |-> "exit"] : m \in exits}
  IN CASE \/ kept # {e \in walked : e.seq > n2}
          \/ closed # {} /\ Overflow(Target, n2, kept) ->
            /\ Publish(n2, walked, kept)
            /\ rec' = "terminate" /\ route' = route
       [] OTHER ->
            IF GapRemains(n1, missing)
            THEN /\ Publish(n2, walked, whole)
                 /\ rec' = "terminate" /\ route' = route
            ELSE /\ \E n3 \in Positions :
                      /\ PublishesTo(n3, n2, final)
                      /\ Publish(n3, walked \cup final,
                                 {e \in final : e.seq > n3})
                 /\ rec' = "install"
                 /\ route' = IF Has(published', "closed") THEN RemoveSession
                                                          ELSE route

\* Closed cannot share its number with another event.
CloseConflict ==
  reply.closed /\ (\/ Target \in reply.chunks
                   \/ \E e \in pending : e.seq = Target /\ e.kind # "closed")

\* recover_events and the arm of recover_processes that follows it.
RecoverEvents ==
  /\ rec = "answered"
  /\ CASE Terminal \/ Target <= last ->
            rec' = "install" /\ UNCHANGED clientVars
       [] ~(Terminal \/ Target <= last) /\ CloseConflict ->
            rec' = "terminate" /\ UNCHANGED clientVars
       [] OTHER ->
            \E n1, n2 \in Positions :
              /\ PublishesTo(n1, last, pending \cup NewChunks)
              /\ PublishesTo(n2, last,
                             pending \cup NewChunks \cup GuessedExit(n1))
              /\ RecoverFrom(n1, n2)
  /\ reply' = NoReply
  /\ UNCHANGED <<serverVars, netVars, status, current, after>>

\* recover_processes gives a process up once its terminate call returned.
GiveUp ==
  /\ rec = "terminate"
  /\ route' = RemoveSession
  /\ SetFailure
  /\ rec' = "install"
  /\ UNCHANGED <<serverVars, netVars, status, current, after, reply>>

\* The candidate's transport closes under a call: recover() tries again.
CandidateLost ==
  /\ rec \in {"asked", "answered", "terminate"} /\ opened \notin alive
  /\ rec' = "connect" /\ after' = 0 /\ reply' = NoReply
  /\ UNCHANGED <<serverVars, netVars, status, current, clientVars>>

\* Mutant of the next definition: a dead candidate is installed.
CandidateUsable == TRUE

\* install_recovered_client's test of the candidate.
CandidateConnected == opened \in alive

\* install_recovered_client, or another attempt.
Install ==
  /\ rec = "install"
  /\ IF CandidateConnected
     THEN rec' = "idle" /\ status' = "connected" /\ current' = opened
     ELSE rec' = "connect" /\ UNCHANGED <<status, current>>
  /\ UNCHANGED <<serverVars, netVars, after, reply, clientVars>>

\* SESSION_RECOVERY_TIMEOUT or an error not worth a retry: fail() takes all
\* sessions and fails them.
RecoveryFails ==
  /\ rec \in {"connect", "asked", "answered", "terminate"}
  /\ rec' = "idle" /\ status' = "failed" /\ after' = 0 /\ reply' = NoReply
  /\ IF route = "routed" THEN SetFailure /\ route' = "removed"
                         ELSE UNCHANGED clientVars
  /\ UNCHANGED <<serverVars, netVars, current>>

-----------------------------------------------------------------------------
ServerTask(t) == MaybeEmitClosed(t) \/ CloneSender(t) \/ Notify(t)

Recovery ==
  Resume \/ AskRead \/ AnswerRead \/ RecoverEvents \/ GiveUp \/ CandidateLost
    \/ Install \/ RecoveryFails

\* The session is over: every task, reader and recovery has come to its end.
Done ==
  /\ \A t \in Tasks : spc[t] = "done"
  /\ UNCHANGED vars

Next ==
  \/ \E s \in Streams : StreamChunk(s) \/ StreamEnds(s)
  \/ ChildExits
  \/ \E t \in Tasks : ServerTask(t)
  \/ Retire \/ Detach \/ Unregister
  \/ \E c \in Conns : Disconnect(c) \/ Notification(c) \/ RequestRecovery(c)
  \/ Recovery
  \/ Done

Spec == Init /\ [][Next]_vars

\* The steps of the program, as opposed to what the child, the network and
\* the consumer do.
Progress ==
  \/ Recovery
  \/ Detach
  \/ \E t \in Tasks : ServerTask(t)
  \/ \E c \in Conns : Notification(c) \/ RequestRecovery(c)

\* While some task, reader or recovery can go on, one of them does.  Chunks,
\* the end of a stream, exits, disconnects and drops may never come.
Fairness == WF_vars(Progress)

FairSpec == Spec /\ Fairness

-----------------------------------------------------------------------------
\* The last event of a subscriber's stream is Closed or Failed, and there is
\* one of them: publish_ordered_event and set_failure check each other.
OneTerminalEvent ==
  \A i \in DOMAIN published :
    published[i] \in {"closed", "failed"} => i = Len(published)

\* The reorder buffer stays within MAX_PENDING_PROCESS_EVENTS, whatever the
\* mix of notifications and recovered chunks (insert_pending).
BufferBounded == Cardinality(pending) <= MaxPending

\* A process's route is removed by the client only once its stream ended
\* (finish_process_event, recover_processes, fail_all_sessions).
RouteUntilTerminal == route = "removed" => Terminal

\* Subscribers see the process's events in the server's order with none left
\* out, doubled or made up, until a Failed (publish_ready, recover_events).
PublishedInOrder ==
  \A i \in DOMAIN published :
    published[i] # "failed" => i <= Len(log) /\ published[i] = log[i]

\* An event the client has not seen is still on its way to it whenever the
\* client thinks it is connected: no gap opens that nobody will fill.
OnItsWay(i) ==
  \/ i \in Seqs(pending)
  \/ \E k \in DOMAIN wire[current] : wire[current][k].seq = i
  \/ \E t \in Tasks :
       /\ note[t] = i
       /\ \/ spc[t] = "notify" /\ sender = current
          \/ spc[t] = "send" /\ sendto[t] = current

NoGapForever ==
  status = "connected" /\ current \in alive /\ route = "routed"
    => \A i \in (last + 1) .. Len(log) : OnItsWay(i)

\* The whole arrangement is invisible to a subscriber: the client's published
\* events behave as the stream of a process that runs locally, with Failed as
\* the only trace of a connection that could not be recovered.
Subscriber ==
  INSTANCE ProcessEvents WITH
    seen    <- SubSeq(published, 1, last),
    outcome <- IF ClosedPublished THEN "closed"
               ELSE IF Failed THEN "failed" ELSE "open"

ImplementsProcessEvents == Subscriber!Spec

\* Once the server closed the process, its subscribers are told Closed or
\* Failed, however the connection behaves (recover, fail_all_sessions).
StreamEndsForSubscribers ==
  Has(log, "closed") ~> Terminal \/ route = "dropped"

=============================================================================
