-------------------------- MODULE ExecStreamProofs --------------------------
(***************************************************************************)
(* Proofs about the event stream of a remote process, for every number of  *)
(* streams, chunks and connections and every size of the limits.           *)
(***************************************************************************)
EXTENDS ExecStream, SequenceTheorems, FiniteSetTheorems, WellFoundedInduction, TLAPS

USE TasksAssumption, BoundsAssumption, LimitsAssumption

-----------------------------------------------------------------------------
(***************************************************************************)
(* Sets of numbers have extrema.                                           *)
(***************************************************************************)

\* The order of the naturals, as a relation.
Less == {p \in Nat \X Nat : p[1] < p[2]}

\* It has no descending chain.
LEMMA LessIsWellFounded == IsWellFoundedOn(Less, Nat)
  BY NatLessThanWellFounded DEF Less, OpToRel

\* A set of naturals that is not empty has a smallest element.
LEMMA SmallestExists ==
  ASSUME NEW T \in SUBSET Nat, T # {}
  PROVE  \E m \in T : \A k \in T : m <= k
<1>1. PICK x \in T : \A y \in T : ~(<<y, x>> \in Less)
  BY LessIsWellFounded, WFMin
<1>2. ASSUME NEW k \in T PROVE x <= k
  <2>1. x \in Nat /\ k \in Nat
    OBVIOUS
  <2>2. k < x => <<k, x>> \in Less
    BY <2>1 DEF Less
  <2>3. QED
    BY <1>1, <2>1, <2>2
<1>3. QED
  BY <1>2

\* A bounded one has a largest.
LEMMA LargestExists ==
  ASSUME NEW T \in SUBSET Nat, T # {}, NEW b \in Nat, \A k \in T : k <= b
  PROVE  \E m \in T : \A k \in T : k <= m
<1> DEFINE D == {b - k : k \in T}
<1>1. D \subseteq Nat
  OBVIOUS
<1>2. D # {}
  OBVIOUS
<1>3. \A k \in T : b - k \in D
  OBVIOUS
<1>4. \A d \in D : \E k \in T : d = b - k
  OBVIOUS
<1> HIDE DEF D
<1>5. PICK m \in D : \A k \in D : m <= k
  BY <1>1, <1>2, SmallestExists
<1>6. PICK j \in T : m = b - j
  BY <1>4
<1>7. \A k \in T : k <= j
  BY <1>3, <1>5, <1>6
<1>8. QED
  BY <1>7

-----------------------------------------------------------------------------
(***************************************************************************)
(* The server.                                                             *)
(***************************************************************************)

\* What a task is about to notify has been numbered.
NotesAreLogged ==
  \A t \in Tasks : spc[t] \in {"notify", "send"} => note[t] \in 1 .. Len(log)

\* A task whose last chunk or exit was recorded.
Over(t) == IF t = Exit THEN Has(log, "exit") ELSE t \notin open

\* Such a task emits nothing but the close.
OverTasksOnlyClose ==
  \A t \in Tasks : Over(t) =>
    /\ spc[t] # "waiting"
    /\ spc[t] \in {"notify", "send"} => log[note[t]] # "out"

\* No event follows the close, and it waits for the exit and all streams.
ClosedIsLast ==
  \A i \in 1 .. Len(log) : log[i] = "closed" => i = Len(log) /\ ReadyToClose

ServerTypes ==
  /\ log \in Seq(Kinds)
  /\ open \subseteq Streams
  /\ spc \in [Tasks -> {"waiting", "notify", "send", "close", "done"}]
  /\ note \in [Tasks -> Nat]
  /\ sendto \in [Tasks -> Conns \cup {NoConn}]
  /\ sender \in Conns \cup {NoConn}
  /\ opened \in Conns

SInv == ServerTypes /\ NotesAreLogged /\ OverTasksOnlyClose /\ ClosedIsLast

\* It holds before the process has produced anything.
LEMMA InitSInv == Init => SInv
<1> SUFFICES ASSUME Init PROVE SInv
  OBVIOUS
<1>1. log = << >> /\ log \in Seq(Kinds) /\ Len(log) = 0 /\ ~Has(log, "exit")
  BY DEF Init, Has
<1>2. ServerTypes
  BY <1>1 DEF Init, ServerTypes, Tasks, Conns, NoConn
<1>3. NotesAreLogged /\ OverTasksOnlyClose /\ ClosedIsLast
  BY <1>1 DEF Init, NotesAreLogged, OverTasksOnlyClose, ClosedIsLast, Over, Tasks
<1>4. QED
  BY <1>2, <1>3 DEF SInv

\* Numbering an event adds it at the end.
LEMMA EmitAppends ==
  ASSUME ServerTypes, NEW t \in Tasks, NEW k \in Kinds, Emit(t, k)
  PROVE  /\ log' \in Seq(Kinds) /\ Len(log') = Len(log) + 1
         /\ \A i \in 1 .. Len(log) : log'[i] = log[i]
         /\ log'[Len(log) + 1] = k
         /\ \A x : Has(log, x) => Has(log', x)
         /\ \A x : Has(log', x) => Has(log, x) \/ x = k
         /\ Has(log', k)
<1>1. log' = Append(log, k) /\ log \in Seq(Kinds)
  BY DEF Emit, ServerTypes
<1>2. /\ log' \in Seq(Kinds) /\ Len(log') = Len(log) + 1
      /\ \A i \in 1 .. Len(log) : log'[i] = log[i]
      /\ log'[Len(log) + 1] = k
  BY <1>1
<1>3. DOMAIN log = 1 .. Len(log) /\ DOMAIN log' = 1 .. Len(log) + 1 /\ Len(log) \in Nat
  BY <1>1, <1>2
<1>4. QED
  BY <1>2, <1>3 DEF Has

\* The steps that number an event keep the invariant when the task that does
\* so was not over, or closes.
LEMMA EmitKeepsSInv ==
  ASSUME SInv, NEW t \in Tasks, NEW k \in Kinds, Emit(t, k),
         UNCHANGED <<open, sendto, sender, opened>>,
         ~Has(log, "closed"),
         k = "out" => t \in open,
         k = "exit" => t = Exit,
         k = "closed" => ReadyToClose
  PROVE  SInv'
<1>1. /\ log' \in Seq(Kinds) /\ Len(log') = Len(log) + 1 /\ Len(log) \in Nat
      /\ \A i \in 1 .. Len(log) : log'[i] = log[i]
      /\ log'[Len(log) + 1] = k
      /\ \A x : Has(log, x) => Has(log', x)
      /\ \A x : Has(log', x) => Has(log, x) \/ x = k
      /\ Has(log', k)
  BY EmitAppends DEF SInv, ServerTypes
<1>2. note' = [note EXCEPT ![t] = Len(log) + 1] /\ spc' = [spc EXCEPT ![t] = "notify"]
  BY DEF Emit
<1>3. ServerTypes'
  BY <1>1, <1>2 DEF SInv, ServerTypes
<1>4. NotesAreLogged'
  BY <1>1, <1>2 DEF SInv, NotesAreLogged, ServerTypes
<1>5. OverTasksOnlyClose'
  <2> SUFFICES ASSUME NEW u \in Tasks, Over(u)'
               PROVE  /\ spc'[u] # "waiting"
                      /\ spc'[u] \in {"notify", "send"} => log'[note'[u]] # "out"
    BY DEF OverTasksOnlyClose
  <2>1. CASE u = t
    BY <1>1, <1>2, <2>1 DEF SInv, ServerTypes, Over, Tasks
  <2>2. CASE u # t
    <3>1. Over(u)
      BY <1>1, <2>2 DEF Over
    <3>2. note'[u] = note[u] /\ spc'[u] = spc[u]
      BY <1>2, <2>2 DEF SInv, ServerTypes
    <3>3. QED
      BY <1>1, <3>1, <3>2 DEF SInv, OverTasksOnlyClose, NotesAreLogged
  <2>3. QED
    BY <2>1, <2>2
<1>6. ClosedIsLast'
  <2> SUFFICES ASSUME NEW i \in 1 .. Len(log'), log'[i] = "closed"
               PROVE  i = Len(log') /\ ReadyToClose'
    BY DEF ClosedIsLast
  <2>1. i = Len(log) + 1
    BY <1>1 DEF SInv, ServerTypes, Has
  <2>2. QED
    BY <1>1, <2>1 DEF ReadyToClose
<1>7. QED
  BY <1>3, <1>4, <1>5, <1>6 DEF SInv

\* A task moves on to st; nothing is numbered.
LEMMA MoveKeepsSInv ==
  ASSUME SInv, NEW t \in Tasks, NEW st \in {"notify", "send", "close", "done", "waiting"},
         NEW k \in Nat,
         spc' = [spc EXCEPT ![t] = st], note' \in {note, [note EXCEPT ![t] = k]}, log' = log,
         ServerTypes',
         st \in {"notify", "send"} =>
            spc[t] = "notify" /\ note'[t] = note[t] /\ open' = open,
         st = "waiting" => ~Over(t)',
         open' \subseteq open,
         \A u \in Tasks \ {t} : Over(u)' => Over(u)
  PROVE  SInv'
<1>1. NotesAreLogged'
  BY DEF SInv, NotesAreLogged, ServerTypes
<1>2. OverTasksOnlyClose'
  <2> SUFFICES ASSUME NEW u \in Tasks, Over(u)'
               PROVE  /\ spc'[u] # "waiting"
                      /\ spc'[u] \in {"notify", "send"} => log'[note'[u]] # "out"
    BY DEF OverTasksOnlyClose
  <2>1. CASE u = t
    BY <2>1 DEF SInv, ServerTypes, OverTasksOnlyClose, Over
  <2>2. CASE u # t
    BY <2>2 DEF SInv, ServerTypes, OverTasksOnlyClose
  <2>3. QED
    BY <2>1, <2>2
<1>3. ClosedIsLast'
  BY DEF SInv, ClosedIsLast, ReadyToClose
<1>4. QED
  BY <1>1, <1>2, <1>3 DEF SInv

\* A step that numbers an event.
Emits(t, k) ==
  /\ Emit(t, k)
  /\ ~Has(log, "closed")
  /\ spc[t] \in {"waiting", "close"}
  /\ k = "out" => t \in open /\ Cardinality(Outputs) < MaxOut
  /\ k = "exit" => t = Exit /\ ~Has(log, "exit")
  /\ k = "closed" => ReadyToClose
  /\ UNCHANGED <<open, table, sendto, sender, netVars, connVars, clientVars>>

\* Streams, the exit and the close number events; a task that finds the
\* process not ready to close, or closed already, is done.
LEMMA EmittingSteps ==
  ASSUME SInv
  PROVE  /\ \A s \in Streams : StreamChunk(s) => Emits(s, "out")
         /\ ChildExits => Emits(Exit, "exit")
         /\ \A t \in Tasks : MaybeEmitClosed(t) =>
              \/ Emits(t, "closed")
              \/ /\ spc[t] = "close" /\ spc' = [spc EXCEPT ![t] = "done"]
                 /\ UNCHANGED <<log, note, open, table, sendto, sender, netVars, connVars,
                                clientVars>>
<1>b. Has(log, "closed") => ReadyToClose
  BY DEF SInv, ClosedIsLast, Has, ServerTypes
<1>1. ASSUME NEW s \in Streams, StreamChunk(s) PROVE Emits(s, "out")
  <2>1. s \in Tasks /\ s # Exit /\ spc[s] = "waiting"
    BY <1>1 DEF StreamChunk, Tasks
  <2>2. s \in open
    BY <2>1 DEF SInv, OverTasksOnlyClose, Over
  <2>3. ~Has(log, "closed")
    BY <2>2, <1>b DEF ReadyToClose
  <2>4. QED
    BY <1>1, <2>1, <2>2, <2>3 DEF Emits, StreamChunk
<1>2. ASSUME ChildExits PROVE Emits(Exit, "exit")
  <2>1. Exit \in Tasks /\ spc[Exit] = "waiting"
    BY <1>2 DEF ChildExits, Tasks
  <2>2. ~Has(log, "exit")
    BY <2>1 DEF SInv, OverTasksOnlyClose, Over
  <2>3. ~Has(log, "closed")
    BY <2>2, <1>b DEF ReadyToClose
  <2>4. QED
    BY <1>2, <2>1, <2>2, <2>3 DEF Emits, ChildExits
<1>3. ASSUME NEW t \in Tasks, MaybeEmitClosed(t), ReadyToClose /\ ~Has(log, "closed")
      PROVE  Emits(t, "closed")
  BY <1>3 DEF MaybeEmitClosed, Emits
<1>4. ASSUME NEW t \in Tasks, MaybeEmitClosed(t), ~(ReadyToClose /\ ~Has(log, "closed"))
      PROVE  /\ spc[t] = "close" /\ spc' = [spc EXCEPT ![t] = "done"]
             /\ UNCHANGED <<log, note, open, table, sendto, sender, netVars, connVars,
                            clientVars>>
  BY <1>4 DEF MaybeEmitClosed
<1>5. QED
  BY <1>1, <1>2, <1>3, <1>4

\* Every step of the system keeps the server's invariant.
LEMMA StepSInv == SInv /\ [Next]_vars => SInv'
<1> SUFFICES ASSUME SInv, [Next]_vars PROVE SInv'
  OBVIOUS
<1>a. ServerTypes
  BY DEF SInv
<1>u. ASSUME UNCHANGED <<log, open, spc, note, sendto>>, sender' \in Conns \cup {NoConn},
             opened' \in Conns
      PROVE  SInv'
  BY <1>u DEF SInv, ServerTypes, NotesAreLogged, OverTasksOnlyClose, ClosedIsLast, Over,
              ReadyToClose
<1>e. ASSUME NEW t \in Tasks, NEW k \in Kinds, Emits(t, k) PROVE SInv'
  BY <1>e, EmitKeepsSInv DEF Emits, netVars
<1>1. ASSUME NEW s \in Streams, StreamChunk(s) PROVE SInv'
  BY <1>1, <1>e, EmittingSteps DEF Kinds, Tasks
<1>2. ASSUME NEW s \in Streams, StreamEnds(s) PROVE SInv'
  <2>1. s \in Tasks /\ spc[s] = "waiting" /\ open' = open \ {s}
        /\ spc' = [spc EXCEPT ![s] = "close"]
        /\ UNCHANGED <<log, note, sendto, sender, opened>>
    BY <1>2 DEF StreamEnds, Tasks, netVars
  <2>2. ServerTypes'
    BY <1>a, <2>1 DEF ServerTypes
  <2>3. \A u \in Tasks \ {s} : Over(u)' => Over(u)
    BY <2>1 DEF Over
  <2>4. QED
    BY <2>1, <2>2, <2>3, MoveKeepsSInv
<1>3. ASSUME ChildExits PROVE SInv'
  BY <1>3, <1>e, EmittingSteps DEF Kinds, Tasks
<1>4. ASSUME NEW t \in Tasks, MaybeEmitClosed(t) PROVE SInv'
  <2>1. CASE Emits(t, "closed")
    BY <2>1, <1>e DEF Kinds
  <2>2. CASE ~Emits(t, "closed")
    <3>1. spc' = [spc EXCEPT ![t] = "done"]
          /\ UNCHANGED <<log, note, open, sendto, sender, opened>>
      BY <1>4, <2>2, EmittingSteps DEF netVars
    <3>2. ServerTypes'
      BY <1>a, <3>1 DEF ServerTypes
    <3>3. \A u \in Tasks \ {t} : Over(u)' => Over(u)
      BY <3>1 DEF Over
    <3>4. QED
      BY <3>1, <3>2, <3>3, MoveKeepsSInv
  <2>3. QED
    BY <2>1, <2>2
<1>c. ASSUME NEW t \in Tasks, spc[t] \in {"notify", "send"}
      PROVE  /\ AfterNotify(log[note[t]]) \in {"waiting", "close", "done"}
             /\ AfterNotify(log[note[t]]) = "waiting" => ~Over(t)
  <2>1. log[note[t]] \in {"out", "exit", "closed"}
    BY <1>c DEF SInv, NotesAreLogged, ServerTypes, Kinds
  <2>2. Over(t) => log[note[t]] # "out"
    BY <1>c DEF SInv, OverTasksOnlyClose
  <2>3. QED
    BY <2>1, <2>2 DEF AfterNotify
<1>5. ASSUME NEW t \in Tasks, CloneSender(t) PROVE SInv'
  <2>0. spc[t] = "notify" /\ UNCHANGED <<log, open, sender, opened>>
    BY <1>5 DEF CloneSender, netVars
  <2>1. CASE sender = NoConn
    <3>1. spc' = [spc EXCEPT ![t] = AfterNotify(log[note[t]])]
          /\ note' = [note EXCEPT ![t] = 0] /\ UNCHANGED sendto
      BY <1>5, <2>1 DEF CloneSender
    <3>2. ServerTypes' /\ \A u \in Tasks : Over(u)' => Over(u)
      BY <1>a, <1>c, <2>0, <3>1 DEF ServerTypes, Over
    <3>3. QED
      BY <1>c, <2>0, <3>1, <3>2, MoveKeepsSInv DEF Over
  <2>2. CASE sender # NoConn
    <3>1. spc' = [spc EXCEPT ![t] = "send"]
          /\ sendto' = [sendto EXCEPT ![t] = sender] /\ note' = note
      BY <1>5, <2>2 DEF CloneSender
    <3>2. ServerTypes' /\ \A u \in Tasks : Over(u)' => Over(u)
      BY <1>a, <2>0, <3>1 DEF ServerTypes, Over
    <3>3. QED
      BY <2>0, <3>1, <3>2, MoveKeepsSInv DEF Over
  <2>3. QED
    BY <2>1, <2>2
<1>6. ASSUME NEW t \in Tasks, Notify(t) PROVE SInv'
  <2>1. /\ spc[t] = "send" /\ UNCHANGED <<log, open, sender, opened>>
        /\ spc' = [spc EXCEPT ![t] = AfterNotify(log[note[t]])]
        /\ note' = [note EXCEPT ![t] = 0] /\ sendto' = [sendto EXCEPT ![t] = NoConn]
    BY <1>6 DEF Notify
  <2>2. ServerTypes' /\ \A u \in Tasks : Over(u)' => Over(u)
    BY <1>a, <1>c, <2>1 DEF ServerTypes, Over
  <2>3. QED
    BY <1>c, <2>1, <2>2, MoveKeepsSInv DEF Over
<1>7. ASSUME Retire \/ Detach \/ Unregister PROVE SInv'
  BY <1>7, <1>a, <1>u DEF Retire, Detach, Unregister, ServerTypes, serverVars, netVars
<1>8. ASSUME NEW c \in Conns, Disconnect(c) \/ Notification(c) \/ RequestRecovery(c) PROVE SInv'
  <2>1. UNCHANGED <<log, open, spc, note, sendto, sender, opened>>
    BY <1>8 DEF Disconnect, Notification, RequestRecovery, serverVars
  <2>2. QED
    BY <1>a, <1>u, <2>1 DEF ServerTypes
<1>9. ASSUME Resume PROVE SInv'
  <2>1. UNCHANGED <<log, open, spc, note, sendto>> /\ opened' = opened + 1
        /\ sender' = opened + 1 /\ opened < MaxConns
    BY <1>9 DEF Resume
  <2>2. opened' \in Conns
    BY <1>a, <2>1 DEF ServerTypes, Conns
  <2>3. QED
    BY <1>u, <2>1, <2>2
<1>10. ASSUME AskRead \/ AnswerRead \/ RecoverEvents \/ GiveUp \/ CandidateLost \/ Install
                \/ RecoveryFails PROVE SInv'
  <2>1. UNCHANGED <<log, open, spc, note, sendto, sender, opened>>
    BY <1>10 DEF AskRead, AnswerRead, RecoverEvents, GiveUp, CandidateLost, Install,
                 RecoveryFails, serverVars, netVars
  <2>2. QED
    BY <1>a, <1>u, <2>1 DEF ServerTypes
<1>11. ASSUME Done \/ UNCHANGED vars PROVE SInv'
  BY <1>11, <1>a, <1>u DEF Done, vars, serverVars, netVars, ServerTypes
<1>12. QED
  BY <1>1, <1>2, <1>3, <1>4, <1>5, <1>6, <1>7, <1>8, <1>9, <1>10, <1>11
     DEF Next, ServerTask, Recovery

-----------------------------------------------------------------------------
(***************************************************************************)
(* The client: what it holds and what it has published.                    *)
(***************************************************************************)

\* An event the client may hold: the server has numbered it, and the close is
\* never mistaken.  (An exit may be, once output was evicted.)
Possible(events) ==
  \A e \in events : /\ e \in Event
                    /\ e.seq <= Len(log)
                    /\ e.kind = "closed" => log[e.seq] = "closed"

\* Notifications say what happened.
WireIsTrue ==
  /\ wire \in [Conns -> Seq(Event)]
  /\ \A c \in Conns : \A k \in 1 .. Len(wire[c]) :
       /\ wire[c][k].seq <= Len(log)
       /\ wire[c][k].kind = log[wire[c][k].seq]

\* So does the reply, about the events that had been numbered by then.
ReplyIsTrue ==
  /\ reply \in Reply /\ reply.next >= 1 /\ Target <= Len(log)
  /\ \A i \in reply.chunks : i \in 1 .. Target /\ log[i] = "out"
  /\ reply.closed => Target >= 1 /\ log[Target] = "closed"
  /\ \A i \in 1 .. Target : log[i] = "closed" => reply.closed

\* The subscriber was given one event for each number up to last, and then
\* perhaps a Failed.
PublishedShape ==
  /\ last \in Nat /\ last <= Len(log)
  /\ published \in Seq(Kinds \cup {"failed"})
  /\ IF Failed THEN Len(published) = last + 1 /\ published[last + 1] = "failed"
               ELSE Len(published) = last

\* A Closed that was published was the server's last event.
ClosedIsSeen == ClosedPublished => Has(log, "closed") /\ last = Len(log)

PInv == PublishedShape /\ OneTerminalEvent /\ ClosedIsSeen

CInv == Possible(pending) /\ WireIsTrue /\ ReplyIsTrue /\ after \in Nat /\ after <= last

\* The two ways in which the client publishes: events in sequence, or Failed.
Publishes(n, events) ==
  /\ ~Terminal
  /\ n \in Nat /\ n >= last
  /\ (last + 1) .. n \subseteq Seqs(events)
  /\ last' = n
  /\ published' = published \o Released(n, last, events)

Fails ==
  /\ ~Terminal
  /\ published' = Append(published, "failed")
  /\ pending' = {}
  /\ last' = last

\* What Seqs collects.
LEMMA SeqsHasEvents ==
  \A events : \A n : n \in Seqs(events) <=> \E e \in events : e.seq = n
  BY DEF Seqs

\* One kind for each number above l up to n, each that of an event with the number.
OneKindEach(n, l, events) ==
    /\ Released(n, l, events) \in Seq(Kinds)
    /\ Len(Released(n, l, events)) = n - l
    /\ \A i \in 1 .. n - l :
         \E e \in events : e.seq = l + i /\ Released(n, l, events)[i] = e.kind

\* What publish_ready hands to the subscriber: one kind for each number.
LEMMA ReleasedKinds ==
  ASSUME NEW events, events \subseteq Event, NEW l \in Nat, NEW n \in Nat, n >= l,
         (l + 1) .. n \subseteq Seqs(events)
  PROVE  OneKindEach(n, l, events)
<1> DEFINE f == [i \in 1 .. n - l |-> (CHOOSE e \in events : e.seq = l + i).kind]
<1>1. f = Released(n, l, events)
  BY DEF Released
<1>2. ASSUME NEW i \in 1 .. n - l
      PROVE  \E e \in events : e.seq = l + i /\ f[i] = e.kind
  <2>1. l + i \in (l + 1) .. n
    OBVIOUS
  <2>2. \E e \in events : e.seq = l + i
    BY <2>1, SeqsHasEvents
  <2>3. QED
    BY <2>2
<1>3. \A i \in 1 .. n - l : f[i] \in Kinds
  BY <1>2 DEF Event
<1>4. f \in [1 .. n - l -> Kinds] /\ n - l \in Nat
  BY <1>3
<1>5. f \in Seq(Kinds) /\ Len(f) = n - l
  BY <1>4
<1>6. QED
  BY <1>1, <1>2, <1>5 DEF OneKindEach

\* Publishing in sequence keeps what is known of the published events.
LEMMA PublishKeepsPInv ==
  ASSUME SInv, PInv, NEW n, NEW events, Possible(events), Publishes(n, events), log' = log
  PROVE  /\ PInv'
         /\ ~Failed'
         /\ Len(published') = n
         /\ \A i \in 1 .. last : published'[i] = published[i]
         /\ \A i \in (last + 1) .. n :
              \E e \in events : e.seq = i /\ published'[i] = e.kind
<1> DEFINE r == Released(n, last, events)
<1>0. /\ last \in Nat /\ last <= Len(log) /\ Len(log) \in Nat
      /\ published \in Seq(Kinds \cup {"failed"}) /\ Len(published) = last
      /\ \A i \in 1 .. last : published[i] \notin {"closed", "failed"}
  BY LenProperties DEF PInv, PublishedShape, Publishes, Terminal, ClosedPublished, Failed, Has,
                       SInv, ServerTypes
<1>1. /\ r \in Seq(Kinds) /\ Len(r) = n - last
      /\ \A i \in 1 .. n - last : \E e \in events : e.seq = last + i /\ r[i] = e.kind
  <2>1. events \subseteq Event /\ last \in Nat
    BY <1>0 DEF Possible
  <2>2. n \in Nat /\ n >= last /\ (last + 1) .. n \subseteq Seqs(events)
    BY DEF Publishes
  <2>3. OneKindEach(n, last, events)
    BY <2>1, <2>2, ReleasedKinds
  <2>4. QED
    BY <2>3 DEF OneKindEach
<1>2. r \in Seq(Kinds \cup {"failed"})
  BY <1>1, SeqMonotonic
<1>3. published' = published \o r /\ last' = n /\ n \in Nat /\ n >= last
  BY DEF Publishes
<1> HIDE DEF r
<1>4. /\ published' \in Seq(Kinds \cup {"failed"})
      /\ Len(published') = n
      /\ \A i \in 1 .. n : published'[i] = IF i <= last THEN published[i] ELSE r[i - last]
  <2>1. /\ published \o r \in Seq(Kinds \cup {"failed"})
        /\ Len(published \o r) = Len(published) + Len(r)
        /\ \A i \in 1 .. Len(published) + Len(r) :
             (published \o r)[i] = IF i <= Len(published) THEN published[i]
                                                        ELSE r[i - Len(published)]
    BY ONLY <1>0, <1>2, ConcatProperties
  <2>2. Len(published) + Len(r) = n
    BY <1>0, <1>1, <1>3
  <2>3. QED
    BY <1>0, <1>3, <2>1, <2>2
<1>5. \A i \in (last + 1) .. n : \E e \in events : e.seq = i /\ published'[i] = e.kind
  <2> SUFFICES ASSUME NEW i \in (last + 1) .. n
               PROVE  \E e \in events : e.seq = i /\ published'[i] = e.kind
    OBVIOUS
  <2>1. i - last \in 1 .. n - last /\ last + (i - last) = i /\ i \in 1 .. n /\ ~(i <= last)
    BY <1>0, <1>3
  <2>2. QED
    BY <1>1, <1>4, <2>1
<1>6. \A i \in 1 .. last : published'[i] = published[i]
  BY <1>0, <1>3, <1>4
<1>7. DOMAIN published' = 1 .. n
  BY <1>4, LenProperties
<1>8. \A i \in (last + 1) .. n : published'[i] \in Kinds
  BY <1>5 DEF Possible, Event
<1>9. \A i \in 1 .. n : published'[i] # "failed"
  <2> SUFFICES ASSUME NEW i \in 1 .. n PROVE published'[i] # "failed"
    OBVIOUS
  <2>1. CASE i <= last
    BY <2>1, <1>0, <1>3, <1>6
  <2>2. CASE ~(i <= last)
    <3>1. i \in (last + 1) .. n
      BY <2>2, <1>0, <1>3
    <3>2. QED
      BY <3>1, <1>8 DEF Kinds
  <2>3. QED
    BY <2>1, <2>2
<1>10. ~Failed'
  BY <1>7, <1>9 DEF Failed, Has
<1>11. n <= Len(log)
  <2>1. CASE n = last
    BY <2>1, <1>0
  <2>2. CASE n > last
    <3>1. \E e \in events : e.seq = n
      BY <1>0, <1>3, <1>5, <2>2
    <3>2. QED
      BY <3>1 DEF Possible
  <2>3. QED
    BY <1>0, <1>3, <2>1, <2>2
<1>12. ASSUME NEW i \in 1 .. n, published'[i] = "closed"
       PROVE  i = n /\ n = Len(log) /\ Has(log, "closed")
  <2>1. i \in (last + 1) .. n
    BY <1>0, <1>3, <1>6, <1>12
  <2>2. PICK e \in events : e.seq = i /\ e.kind = "closed"
    BY <2>1, <1>5, <1>12
  <2>3. i \in 1 .. Len(log) /\ log[i] = "closed"
    BY <2>2, <1>11, <1>0, <1>3 DEF Possible
  <2>4. i = Len(log)
    BY <2>3 DEF SInv, ClosedIsLast
  <2>5. Has(log, "closed")
    BY <2>3, LenProperties DEF Has, SInv, ServerTypes
  <2>6. QED
    BY <2>4, <2>5, <1>0, <1>3, <1>11
<1>13. PublishedShape'
  BY <1>3, <1>4, <1>10, <1>11 DEF PublishedShape
<1>14. OneTerminalEvent'
  BY <1>4, <1>7, <1>9, <1>12 DEF OneTerminalEvent
<1>15. ClosedIsSeen'
  BY <1>3, <1>7, <1>12 DEF ClosedIsSeen, ClosedPublished, Has
<1>16. QED
  BY <1>4, <1>5, <1>6, <1>10, <1>13, <1>14, <1>15 DEF PInv

\* So does a Failed.
LEMMA FailKeepsPInv ==
  ASSUME SInv, PInv, Fails, log' = log
  PROVE  /\ PInv' /\ Failed' /\ ~ClosedPublished'
         /\ \A i \in 1 .. last : published'[i] = published[i]
<1>0. /\ last \in Nat /\ last <= Len(log) /\ Len(log) \in Nat
      /\ published \in Seq(Kinds \cup {"failed"}) /\ Len(published) = last
      /\ \A i \in 1 .. last : published[i] \notin {"closed", "failed"}
  BY LenProperties DEF PInv, PublishedShape, Fails, Terminal, ClosedPublished, Failed, Has,
                       SInv, ServerTypes
<1>1. published' = Append(published, "failed") /\ last' = last
  BY DEF Fails
<1>2. /\ published' \in Seq(Kinds \cup {"failed"})
      /\ Len(published') = last + 1 /\ published'[last + 1] = "failed"
      /\ DOMAIN published' = 1 .. last + 1
      /\ \A i \in 1 .. last : published'[i] = published[i]
  BY <1>0, <1>1
<1>3. Failed'
  BY <1>0, <1>2 DEF Failed, Has
<1>4. ~ClosedPublished'
  BY <1>0, <1>2 DEF ClosedPublished, Has
<1>5. PublishedShape'
  BY <1>0, <1>1, <1>2, <1>3 DEF PublishedShape
<1>6. OneTerminalEvent'
  BY <1>0, <1>2 DEF OneTerminalEvent
<1>7. QED
  BY <1>2, <1>3, <1>4, <1>5, <1>6 DEF PInv, ClosedIsSeen

\* The reorder buffer with event e offered to it.
Offered(e) == IF e.seq \in Seqs(pending) THEN pending ELSE pending \cup {e}

\* The route once a batch has been published (finish_process_event).
RouteAfter == IF Has(published', "closed") THEN RemoveSession ELSE route

\* What a notification does to the client.
LEMMA NotificationCases ==
  ASSUME SInv, PInv, CInv, NEW c \in Conns, Notification(c)
  PROVE  LET e == Head(wire[c]) IN
         /\ wire[c] # << >> /\ wire[c] \in Seq(Event)
         /\ e \in Event /\ e = wire[c][1] /\ Possible({e}) /\ e.kind = log[e.seq]
         /\ Possible(Offered(e))
         /\ \/ UNCHANGED clientVars /\ (route # "routed" \/ Terminal \/ e.seq <= last)
            \/ Fails /\ route = "routed" /\ route' = "removed"
            \/ /\ route = "routed" /\ e.seq > last
               /\ e.seq \in Seqs(pending) \/ ~Overflow(e.seq, last, pending)
               /\ route' = RouteAfter
               /\ \E n \in Nat : /\ Publishes(n, Offered(e))
                                 /\ n + 1 \notin Seqs(Offered(e))
                                 /\ pending' = {x \in Offered(e) : x.seq > n}
<1> DEFINE e == Head(wire[c])
<1>1. wire[c] # << >> /\ wire[c] \in Seq(Event)
  BY DEF Notification, CInv, WireIsTrue
<1>2. e \in Event /\ e = wire[c][1] /\ 1 \in 1 .. Len(wire[c])
  BY <1>1
<1>3. e.seq <= Len(log) /\ e.kind = log[e.seq]
  BY <1>2 DEF CInv, WireIsTrue
<1> HIDE DEF e
<1>4. Possible({e}) /\ Possible(Offered(e))
  BY <1>2, <1>3 DEF Possible, CInv, Offered
<1>5. \/ UNCHANGED clientVars /\ (route # "routed" \/ Terminal \/ e.seq <= last)
      \/ /\ ~(route # "routed" \/ Terminal \/ e.seq <= last)
         /\ e.seq \notin Seqs(pending) /\ Overflow(e.seq, last, pending)
         /\ SetFailure /\ route' = "removed"
      \/ /\ ~(route # "routed" \/ Terminal \/ e.seq <= last)
         /\ ~(e.seq \notin Seqs(pending) /\ Overflow(e.seq, last, pending))
         /\ InsertAndPublish(e)
  BY DEF Notification, e
<1>6. ASSUME ~(route # "routed" \/ Terminal \/ e.seq <= last), SetFailure
      PROVE  Fails /\ route = "routed"
  BY <1>6 DEF SetFailure, Fails
<1>7. ASSUME ~(route # "routed" \/ Terminal \/ e.seq <= last), InsertAndPublish(e)
      PROVE  /\ route = "routed" /\ e.seq > last
             /\ route' = RouteAfter
             /\ \E n \in Nat : /\ Publishes(n, Offered(e))
                               /\ n + 1 \notin Seqs(Offered(e))
                               /\ pending' = {x \in Offered(e) : x.seq > n}
  <2>1. PICK n \in Positions : PublishReady(n, Offered(e))
    BY <1>7 DEF InsertAndPublish, Offered
  <2>2. n \in Nat
    BY DEF Positions
  <2>3. Publishes(n, Offered(e)) /\ n + 1 \notin Seqs(Offered(e))
        /\ pending' = {x \in Offered(e) : x.seq > n}
    BY <1>7, <2>1, <2>2 DEF PublishReady, PublishesTo, Publishes
  <2>4. route' = RouteAfter
    BY <1>7 DEF InsertAndPublish, RouteAfter
  <2>5. e.seq > last
    BY <1>7, <1>2 DEF PInv, PublishedShape, Event
  <2>6. QED
    BY <1>7, <2>2, <2>3, <2>4, <2>5
<1>8. \/ UNCHANGED clientVars /\ (route # "routed" \/ Terminal \/ e.seq <= last)
      \/ Fails /\ route = "routed" /\ route' = "removed"
      \/ /\ route = "routed" /\ e.seq > last
         /\ e.seq \in Seqs(pending) \/ ~Overflow(e.seq, last, pending)
         /\ route' = RouteAfter
         /\ \E n \in Nat : /\ Publishes(n, Offered(e))
                           /\ n + 1 \notin Seqs(Offered(e))
                           /\ pending' = {x \in Offered(e) : x.seq > n}
  BY <1>5, <1>6, <1>7
<1>9. QED
  BY <1>1, <1>2, <1>3, <1>4, <1>8 DEF e

-----------------------------------------------------------------------------
(***************************************************************************)
(* recover_events: the parts of RecoverFrom by name.                       *)
(***************************************************************************)
Walked(n1) == pending \cup NewChunks \cup GuessedExit(n1)

KeptOf(n1, n2) == Kept(n2, Walked(n1))

Whole(n1, n2) == KeptOf(n1, n2) \cup MissingClosed(n2, KeptOf(n1, n2))

LateExits(n1, n2) ==
  {[seq |-> m, kind |-> "exit"] :
     m \in IF ExitIsLate(n1) THEN Missing(n2, Whole(n1, n2)) ELSE {}}

Final(n1, n2) == Whole(n1, n2) \cup LateExits(n1, n2)

\* The walk takes every event beyond n2, and the close fits.
TakesAll(n1, n2) ==
  /\ KeptOf(n1, n2) = {e \in Walked(n1) : e.seq > n2}
  /\ \/ MissingClosed(n2, KeptOf(n1, n2)) = {}
     \/ ~Overflow(Target, n2, KeptOf(n1, n2))

RecoverTooMuch(n1, n2) ==
  /\ Publish(n2, Walked(n1), KeptOf(n1, n2))
  /\ rec' = "terminate" /\ route' = route

RecoverGap(n1, n2) ==
  /\ TakesAll(n1, n2)
  /\ Publish(n2, Walked(n1), Whole(n1, n2))
  /\ rec' = "terminate" /\ route' = route

RecoverAll(n1, n2) ==
  /\ TakesAll(n1, n2)
  /\ ~GapRemains(n1, Missing(n2, Whole(n1, n2)))
  /\ \E n3 \in Positions :
       /\ PublishesTo(n3, n2, Final(n1, n2))
       /\ Publish(n3, Walked(n1) \cup Final(n1, n2), {e \in Final(n1, n2) : e.seq > n3})
  /\ rec' = "install"
  /\ route' = RouteAfter

\* recover_events ends in one of three ways: the walk brought more than the buffer
\* holds, it left a gap, or it brought all that was missing.
LEMMA RecoverFromCases ==
  ASSUME NEW n1, NEW n2, RecoverFrom(n1, n2)
  PROVE  RecoverTooMuch(n1, n2) \/ RecoverGap(n1, n2) \/ RecoverAll(n1, n2)
  BY DEF RecoverFrom, RecoverTooMuch, RecoverGap, RecoverAll, TakesAll, Final, LateExits,
         Whole, KeptOf, Walked, RouteAfter

\* Applying a reply: nothing to do, a conflict, or one of the three.
LEMMA RecoverEventsCases ==
  ASSUME RecoverEvents
  PROVE  \/ (Terminal \/ Target <= last) /\ UNCHANGED clientVars /\ rec' = "install"
         \/ UNCHANGED clientVars /\ rec' = "terminate"
         \/ /\ ~Terminal /\ ~(Target <= last) /\ ~CloseConflict
            /\ \E n1, n2 \in Positions :
                 /\ PublishesTo(n1, last, pending \cup NewChunks)
                 /\ PublishesTo(n2, last, Walked(n1))
                 /\ RecoverTooMuch(n1, n2) \/ RecoverGap(n1, n2) \/ RecoverAll(n1, n2)
  BY RecoverFromCases DEF RecoverEvents, Walked

\* What recovery adds to the buffer is possible, if the reply is true.
LEMMA RecoveredArePossible ==
  ASSUME SInv, PInv, CInv, NEW n1 \in Nat, NEW n2 \in Nat
  PROVE  /\ Possible(Walked(n1)) /\ Possible(Whole(n1, n2)) /\ Possible(Final(n1, n2))
         /\ KeptOf(n1, n2) \subseteq Walked(n1)
         /\ \A e \in KeptOf(n1, n2) : e.seq > n2
         /\ \A e \in MissingClosed(n2, KeptOf(n1, n2)) : e.seq = Target
         /\ \A e \in LateExits(n1, n2) : e.seq <= Target /\ e.seq > n2
<1>0. /\ Target \in Nat /\ Len(log) \in Nat /\ Target <= Len(log) /\ reply.chunks \subseteq Nat
      /\ log \in Seq(Kinds)
  BY LenProperties DEF CInv, ReplyIsTrue, Reply, Target, SInv, ServerTypes
<1>1. Possible(pending)
  BY DEF CInv
<1>2. Possible(NewChunks)
  <2> SUFFICES ASSUME NEW e \in NewChunks
               PROVE  e \in Event /\ e.seq <= Len(log) /\ (e.kind = "closed" => log[e.seq] = "closed")
    BY DEF Possible
  <2>1. PICK i \in reply.chunks : e = [seq |-> i, kind |-> "out"]
    BY DEF NewChunks
  <2>2. i \in 1 .. Target
    BY DEF CInv, ReplyIsTrue
  <2>3. QED
    BY <1>0, <2>1, <2>2 DEF Event, Kinds
<1>3. Possible(GuessedExit(n1))
  <2> SUFFICES ASSUME NEW e \in GuessedExit(n1)
               PROVE  e \in Event /\ e.seq <= Len(log) /\ (e.kind = "closed" => log[e.seq] = "closed")
    BY DEF Possible
  <2>1. e = [seq |-> n1 + 1, kind |-> "exit"] /\ \E c \in reply.chunks : c > n1 + 1
    BY DEF GuessedExit
  <2>2. PICK c \in reply.chunks : c > n1 + 1
    BY <2>1
  <2>3. c \in 1 .. Target
    BY DEF CInv, ReplyIsTrue
  <2>4. n1 + 1 <= Len(log) /\ n1 + 1 \in Nat \ {0}
    BY <1>0, <2>2, <2>3
  <2>5. QED
    BY <2>1, <2>4 DEF Event, Kinds
<1>4. Possible(Walked(n1))
  BY <1>1, <1>2, <1>3 DEF Walked, Possible
<1>5. KeptOf(n1, n2) \subseteq Walked(n1) /\ \A e \in KeptOf(n1, n2) : e.seq > n2
  BY DEF KeptOf, Kept
<1>6. ASSUME NEW e \in MissingClosed(n2, KeptOf(n1, n2))
      PROVE  /\ e.seq = Target /\ e \in Event /\ e.seq <= Len(log)
             /\ e.kind = "closed" => log[e.seq] = "closed"
  <2>1. e = [seq |-> Target, kind |-> "closed"] /\ reply.closed /\ Target > n2
    BY DEF MissingClosed
  <2>2. log[Target] = "closed"
    BY <2>1 DEF CInv, ReplyIsTrue
  <2>3. QED
    BY <1>0, <2>1, <2>2 DEF Event, Kinds
<1>7. Possible(Whole(n1, n2))
  BY <1>4, <1>5, <1>6 DEF Possible, Whole
<1>8. ASSUME NEW e \in LateExits(n1, n2)
      PROVE  /\ e \in Event /\ e.seq <= Target /\ e.seq > n2 /\ e.seq <= Len(log)
             /\ e.kind = "exit"
  <2>1. PICK m \in Missing(n2, Whole(n1, n2)) : e = [seq |-> m, kind |-> "exit"]
    BY DEF LateExits
  <2>2. m \in (n2 + 1) .. Target
    BY DEF Missing
  <2>3. QED
    BY <1>0, <2>1, <2>2 DEF Event, Kinds
<1>9. Possible(Final(n1, n2))
  BY <1>7, <1>8 DEF Possible, Final
<1>10. QED
  BY <1>4, <1>5, <1>6, <1>7, <1>8, <1>9

\* What applying a reply publishes.
LEMMA RecoveryPublishes ==
  ASSUME SInv, PInv, CInv, ~Terminal, NEW n1 \in Nat, NEW n2 \in Nat,
         PublishesTo(n2, last, Walked(n1))
  PROVE  /\ RecoverTooMuch(n1, n2) =>
              Publishes(n2, Walked(n1)) /\ pending' = KeptOf(n1, n2)
         /\ RecoverGap(n1, n2) =>
              Publishes(n2, Walked(n1)) /\ pending' = Whole(n1, n2)
         /\ RecoverAll(n1, n2) =>
              \E n3 \in Nat :
                /\ Publishes(n3, Walked(n1) \cup Final(n1, n2))
                /\ n3 >= n2 /\ n3 >= Target
                /\ pending' = {e \in Final(n1, n2) : e.seq > n3}
<1>0. Target \in Nat /\ last \in Nat
  BY DEF CInv, ReplyIsTrue, Reply, Target, PInv, PublishedShape
<1>1. n2 >= last /\ (last + 1) .. n2 \subseteq Seqs(Walked(n1))
  BY DEF PublishesTo
<1>2. ASSUME NEW keep, Publish(n2, Walked(n1), keep)
      PROVE  Publishes(n2, Walked(n1)) /\ pending' = keep
  BY <1>1, <1>2 DEF Publish, Publishes
<1>3. ASSUME RecoverAll(n1, n2)
      PROVE  \E n3 \in Nat :
               /\ Publishes(n3, Walked(n1) \cup Final(n1, n2))
               /\ n3 >= n2 /\ n3 >= Target
               /\ pending' = {e \in Final(n1, n2) : e.seq > n3}
  <2>1. PICK n3 \in Positions :
               /\ PublishesTo(n3, n2, Final(n1, n2))
               /\ Publish(n3, Walked(n1) \cup Final(n1, n2), {e \in Final(n1, n2) : e.seq > n3})
    BY <1>3 DEF RecoverAll
  <2>2. n3 \in Nat
    BY DEF Positions
  <2>3. n3 >= n2 /\ (n2 + 1) .. n3 \subseteq Seqs(Final(n1, n2)) /\ n3 + 1 \notin Seqs(Final(n1, n2))
    BY <2>1 DEF PublishesTo
  <2>4. ASSUME NEW i \in (last + 1) .. n3 PROVE i \in Seqs(Walked(n1) \cup Final(n1, n2))
    <3>1. i \in (last + 1) .. n2 \/ i \in (n2 + 1) .. n3
      BY <1>0, <2>2
    <3>2. i \in Seqs(Walked(n1)) \/ i \in Seqs(Final(n1, n2))
      BY <1>1, <2>3, <3>1
    <3>3. QED
      BY <3>2 DEF Seqs
  <2>5. (n2 + 1) .. Target \subseteq Seqs(Final(n1, n2))
    <3> SUFFICES ASSUME NEW i \in (n2 + 1) .. Target, i \notin Seqs(Whole(n1, n2))
                 PROVE  i \in Seqs(Final(n1, n2))
      BY DEF Seqs, Final
    <3>1. i \in Missing(n2, Whole(n1, n2))
      BY DEF Missing
    <3>2. ExitIsLate(n1)
      BY <1>3, <3>1 DEF RecoverAll, GapRemains
    <3>3. [seq |-> i, kind |-> "exit"] \in LateExits(n1, n2)
      BY <3>1, <3>2 DEF LateExits
    <3>4. QED
      BY <3>3 DEF Seqs, Final
  <2>6. n3 >= Target
    <3> SUFFICES ASSUME n3 < Target PROVE FALSE
      BY <1>0, <2>2
    <3>1. n3 + 1 \in (n2 + 1) .. Target
      BY <1>0, <2>2, <2>3
    <3>2. QED
      BY <2>3, <2>5, <3>1
  <2>7. n3 >= last
    BY <1>0, <1>1, <2>2, <2>3
  <2>8. Publishes(n3, Walked(n1) \cup Final(n1, n2)) /\ pending' = {e \in Final(n1, n2) : e.seq > n3}
    BY <2>1, <2>2, <2>4, <2>7 DEF Publish, Publishes
  <2>9. QED
    BY <2>2, <2>3, <2>6, <2>8
<1>4. QED
  BY <1>2, <1>3 DEF RecoverTooMuch, RecoverGap

-----------------------------------------------------------------------------
(***************************************************************************)
(* What the client holds is what happened, as long as no output that it    *)
(* asks for has been evicted.                                              *)
(***************************************************************************)
AllTrue(events) == \A e \in events : e.kind = log[e.seq]

\* The reply has all the output that was not published in the meantime.
ReplyIsComplete ==
  \A i \in 1 .. Target : i > last /\ log[i] = "out" => i \in reply.chunks

Accurate == AllTrue(pending) /\ ReplyIsComplete

\* The gap that recover_events takes for the exit is the exit, and so is the
\* one event that is missing at the end.
LEMMA RecoveredAreTrue ==
  ASSUME SInv, PInv, CInv, Accurate, NEW n1 \in Nat, NEW n2 \in Nat,
         PublishesTo(n1, last, pending \cup NewChunks),
         PublishesTo(n2, last, Walked(n1))
  PROVE  /\ AllTrue(Walked(n1))
         /\ TakesAll(n1, n2) => AllTrue(Whole(n1, n2)) /\ AllTrue(Final(n1, n2))
<1>0. /\ Target \in Nat /\ Len(log) \in Nat /\ Target <= Len(log) /\ last \in Nat
      /\ reply.chunks \subseteq Nat /\ \A i \in 1 .. Len(log) : log[i] \in Kinds
  BY LenProperties DEF CInv, ReplyIsTrue, Reply, Target, SInv, ServerTypes, PInv, PublishedShape
<1>1. AllTrue(pending)
  BY DEF Accurate
<1>2. AllTrue(NewChunks)
  BY DEF AllTrue, NewChunks, CInv, ReplyIsTrue
<1>3. ASSUME NEW i \in 1 .. Target, i > last, log[i] = "out"
      PROVE  i \in Seqs(pending \cup NewChunks)
  <2>1. i \in reply.chunks
    BY <1>3 DEF Accurate, ReplyIsComplete
  <2>2. i \in Seqs(pending) \/ [seq |-> i, kind |-> "out"] \in NewChunks
    BY <1>3, <2>1 DEF NewChunks
  <2>3. QED
    BY <2>2 DEF Seqs
<1>4. AllTrue(GuessedExit(n1))
  <2> SUFFICES ASSUME NEW e \in GuessedExit(n1) PROVE e.kind = log[e.seq]
    BY DEF AllTrue
  <2>1. e = [seq |-> n1 + 1, kind |-> "exit"] /\ \E c \in reply.chunks : c > n1 + 1
    BY DEF GuessedExit
  <2>2. PICK c \in reply.chunks : c > n1 + 1
    BY <2>1
  <2>3. c \in 1 .. Target
    BY DEF CInv, ReplyIsTrue
  <2>4. n1 + 1 \in 1 .. Target /\ n1 + 1 \in 1 .. Len(log) /\ n1 + 1 # Len(log)
    BY <1>0, <2>2, <2>3
  <2>5. n1 >= last /\ n1 + 1 \notin Seqs(pending \cup NewChunks)
    BY DEF PublishesTo
  <2>6. log[n1 + 1] # "out"
    <3>1. n1 + 1 > last
      BY <1>0, <2>5
    <3>2. QED
      BY <1>3, <2>4, <2>5, <3>1
  <2>7. log[n1 + 1] # "closed"
    BY <2>4 DEF SInv, ClosedIsLast
  <2>8. log[n1 + 1] = "exit"
    BY <1>0, <2>4, <2>6, <2>7 DEF Kinds
  <2>9. QED
    BY <2>1, <2>8
<1>5. AllTrue(Walked(n1))
  BY <1>1, <1>2, <1>4 DEF AllTrue, Walked
<1>6. ASSUME TakesAll(n1, n2) PROVE AllTrue(Whole(n1, n2)) /\ AllTrue(Final(n1, n2))
  <2>1. AllTrue(Whole(n1, n2))
    BY <1>5 DEF AllTrue, Whole, KeptOf, Kept, MissingClosed, CInv, ReplyIsTrue
  <2>2. AllTrue(LateExits(n1, n2))
    <3> SUFFICES ASSUME NEW e \in LateExits(n1, n2) PROVE e.kind = log[e.seq]
      BY DEF AllTrue
    <3>1. PICK m \in Missing(n2, Whole(n1, n2)) : e = [seq |-> m, kind |-> "exit"]
      BY DEF LateExits
    <3>2. m \in (n2 + 1) .. Target /\ m \notin Seqs(Whole(n1, n2))
      BY DEF Missing
    <3>3. n2 >= last
      BY DEF PublishesTo
    <3>4. m \in 1 .. Target /\ m \in 1 .. Len(log) /\ m > last /\ m > n2
      BY <1>0, <3>2, <3>3
    <3>5. log[m] # "out"
      <4> SUFFICES ASSUME log[m] = "out" PROVE FALSE
        OBVIOUS
      <4>1. \E d \in pending \cup NewChunks : d.seq = m
        BY <1>3, <3>4, SeqsHasEvents
      <4>2. \E d \in Walked(n1) : d.seq = m
        BY <4>1 DEF Walked
      <4>3. \E d \in KeptOf(n1, n2) : d.seq = m
        BY <1>6, <3>4, <4>2 DEF TakesAll
      <4>4. QED
        BY <3>2, <4>3 DEF Seqs, Whole
    <3>6. log[m] # "closed"
      <4> SUFFICES ASSUME log[m] = "closed" PROVE FALSE
        OBVIOUS
      <4>1. m = Len(log)
        BY <3>4 DEF SInv, ClosedIsLast
      <4>2. m = Target /\ Target > n2
        BY <1>0, <3>4, <4>1
      <4>3. reply.closed
        BY <3>4 DEF CInv, ReplyIsTrue
      <4>4. \/ Target \in Seqs(KeptOf(n1, n2))
            \/ [seq |-> Target, kind |-> "closed"] \in MissingClosed(n2, KeptOf(n1, n2))
        BY <4>2, <4>3 DEF MissingClosed
      <4>5. QED
        BY <3>2, <4>2, <4>4 DEF Seqs, Whole
    <3>7. log[m] = "exit"
      BY <1>0, <3>4, <3>5, <3>6 DEF Kinds
    <3>8. QED
      BY <3>1, <3>7
  <2>3. QED
    BY <2>1, <2>2 DEF AllTrue, Final
<1>7. QED
  BY <1>5, <1>6

-----------------------------------------------------------------------------
(***************************************************************************)
(* Every step keeps what is known of the client.                           *)
(***************************************************************************)

\* Numbering an event leaves what the client knows true.
LEMMA EmitKeepsClient ==
  ASSUME SInv, PInv, CInv, NEW t \in Tasks, NEW k \in Kinds, Emits(t, k)
  PROVE  PInv' /\ CInv'
<1>1. /\ log' \in Seq(Kinds) /\ Len(log') = Len(log) + 1 /\ Len(log) \in Nat
      /\ \A i \in 1 .. Len(log) : log'[i] = log[i]
      /\ \A x : Has(log, x) => Has(log', x)
  BY EmitAppends DEF SInv, ServerTypes, Emits
<1>2. UNCHANGED <<wire, reply, after, last, pending, published>> /\ ~Has(log, "closed")
  BY DEF Emits, netVars, connVars, clientVars
<1>3. PublishedShape'
  BY <1>1, <1>2 DEF PInv, PublishedShape, Failed
<1>4. OneTerminalEvent' /\ ClosedIsSeen'
  BY <1>2 DEF PInv, OneTerminalEvent, ClosedIsSeen, ClosedPublished
<1>5. Possible(pending)'
  <2> SUFFICES ASSUME NEW e \in pending
               PROVE  /\ e \in Event /\ e.seq <= Len(log')
                      /\ e.kind = "closed" => log'[e.seq] = "closed"
    BY <1>2 DEF Possible
  <2>1. /\ e \in Event /\ e.seq <= Len(log)
        /\ e.kind = "closed" => log[e.seq] = "closed"
    BY DEF CInv, Possible
  <2>2. e.seq \in 1 .. Len(log)
    BY <1>1, <2>1 DEF Event
  <2>3. QED
    BY <1>1, <2>1, <2>2
<1>6. WireIsTrue'
  <2> SUFFICES ASSUME NEW c \in Conns, NEW j \in 1 .. Len(wire[c])
               PROVE  /\ wire[c][j].seq <= Len(log')
                      /\ wire[c][j].kind = log'[wire[c][j].seq]
    BY <1>2 DEF WireIsTrue, CInv
  <2>1. /\ wire[c][j] \in Event /\ wire[c][j].seq <= Len(log)
        /\ wire[c][j].kind = log[wire[c][j].seq]
    BY DEF CInv, WireIsTrue
  <2>2. wire[c][j].seq \in 1 .. Len(log)
    BY <1>1, <2>1 DEF Event
  <2>3. QED
    BY <1>1, <2>1, <2>2
<1>7. ReplyIsTrue'
  <2>1. Target \in Nat /\ Target <= Len(log) /\ Target' = Target
    BY <1>2 DEF CInv, ReplyIsTrue, Reply, Target
  <2>2. \A i \in 1 .. Target : log'[i] = log[i]
    BY <1>1, <2>1
  <2>3. QED
    BY <1>1, <1>2, <2>1, <2>2 DEF CInv, ReplyIsTrue
<1>8. QED
  BY <1>2, <1>3, <1>4, <1>5, <1>6, <1>7 DEF PInv, CInv

\* The events the client holds and publishes, step by step.
LEMMA ClientSteps ==
  ASSUME SInv, PInv, CInv, [Next]_vars
  PROVE  \/ \E t \in Tasks, k \in Kinds : Emits(t, k)
         \/ log' = log /\ UNCHANGED <<last, pending, published>>
         \/ log' = log /\ Fails
         \/ /\ log' = log
            /\ \E n, events :
                 /\ Possible(events) /\ Publishes(n, events) /\ Possible(pending')
                 /\ Accurate => AllTrue(events) /\ AllTrue(pending')
<1> DEFINE Goal ==
       \/ \E t \in Tasks, k \in Kinds : Emits(t, k)
       \/ log' = log /\ UNCHANGED <<last, pending, published>>
       \/ log' = log /\ Fails
       \/ /\ log' = log
          /\ \E n, events :
               /\ Possible(events) /\ Publishes(n, events) /\ Possible(pending')
               /\ Accurate => AllTrue(events) /\ AllTrue(pending')
<1>1. ASSUME NEW s \in Streams, StreamChunk(s) \/ StreamEnds(s) PROVE Goal
  <2>1. s \in Tasks
    BY DEF Tasks
  <2>2. CASE StreamChunk(s)
    BY <2>1, <2>2, EmittingSteps DEF Kinds
  <2>3. CASE StreamEnds(s)
    BY <2>3 DEF StreamEnds, clientVars
  <2>4. QED
    BY <1>1, <2>2, <2>3
<1>2. ASSUME ChildExits PROVE Goal
  <2>1. Exit \in Tasks
    BY DEF Tasks
  <2>2. QED
    BY <1>2, <2>1, EmittingSteps DEF Kinds
<1>3. ASSUME NEW t \in Tasks, ServerTask(t) PROVE Goal
  <2>1. CASE MaybeEmitClosed(t)
    BY <2>1, EmittingSteps DEF Kinds, clientVars
  <2>2. CASE CloneSender(t) \/ Notify(t)
    BY <2>2 DEF CloneSender, Notify, clientVars
  <2>3. QED
    BY <1>3, <2>1, <2>2 DEF ServerTask
<1>4. ASSUME Retire \/ Detach \/ Unregister \/ Done \/ UNCHANGED vars PROVE Goal
  BY <1>4 DEF Retire, Detach, Unregister, Done, vars, serverVars, clientVars
<1>5. ASSUME NEW c \in Conns, Disconnect(c) \/ RequestRecovery(c) PROVE Goal
  BY <1>5 DEF Disconnect, RequestRecovery, serverVars, clientVars
<1>p. ASSUME NEW n, NEW events, Possible(events), Publishes(n, events), log' = log,
             pending' \subseteq events, Accurate => AllTrue(events)
      PROVE  Goal
  <2>1. Possible(pending') /\ (Accurate => AllTrue(pending'))
    BY <1>p DEF Possible, AllTrue
  <2>2. QED
    BY <1>p, <2>1
<1>6. ASSUME NEW c \in Conns, Notification(c) PROVE Goal
  <2> DEFINE e == Head(wire[c])
  <2>1. /\ Possible(Offered(e))
        /\ \/ UNCHANGED clientVars
           \/ Fails
           \/ \E n \in Nat : /\ Publishes(n, Offered(e))
                             /\ pending' = {x \in Offered(e) : x.seq > n}
    BY <1>6, NotificationCases
  <2>2. log' = log
    BY <1>6 DEF Notification, serverVars
  <2>t. Accurate => AllTrue(Offered(e))
    <3>1. e.kind = log[e.seq]
      BY <1>6, NotificationCases
    <3>2. QED
      BY <3>1 DEF Accurate, AllTrue, Offered
  <2> HIDE DEF e
  <2>3. CASE \E n \in Nat : /\ Publishes(n, Offered(e))
                            /\ pending' = {x \in Offered(e) : x.seq > n}
    <3>1. PICK n \in Nat : Publishes(n, Offered(e)) /\ pending' \subseteq Offered(e)
      BY <2>3
    <3>2. QED
      BY <1>p, <2>1, <2>2, <2>t, <3>1
  <2>4. QED
    BY <2>1, <2>2, <2>3 DEF clientVars
<1>7. ASSUME RecoverEvents PROVE Goal
  <2>0. log' = log
    BY <1>7 DEF RecoverEvents, serverVars
  <2>1. CASE UNCHANGED clientVars
    BY <2>0, <2>1 DEF clientVars
  <2>2. CASE ~UNCHANGED clientVars
    <3>1. ~Terminal
      BY <1>7, <2>2, RecoverEventsCases
    <3>2. PICK n1, n2 \in Positions :
                 /\ PublishesTo(n1, last, pending \cup NewChunks)
                 /\ PublishesTo(n2, last, Walked(n1))
                 /\ RecoverTooMuch(n1, n2) \/ RecoverGap(n1, n2) \/ RecoverAll(n1, n2)
      BY <1>7, <2>2, RecoverEventsCases
    <3>3. n1 \in Nat /\ n2 \in Nat
      BY DEF Positions
    <3>4. /\ Possible(Walked(n1)) /\ Possible(Whole(n1, n2)) /\ Possible(Final(n1, n2))
          /\ KeptOf(n1, n2) \subseteq Walked(n1)
      BY <3>3, RecoveredArePossible
    <3>t. /\ Accurate => AllTrue(Walked(n1))
          /\ Accurate /\ TakesAll(n1, n2) =>
               AllTrue(Whole(n1, n2)) /\ AllTrue(Walked(n1) \cup Final(n1, n2))
      <4>1. ASSUME Accurate
            PROVE  /\ AllTrue(Walked(n1))
                   /\ TakesAll(n1, n2) => AllTrue(Whole(n1, n2)) /\ AllTrue(Final(n1, n2))
        BY <3>2, <3>3, <4>1, RecoveredAreTrue
      <4>2. QED
        BY <4>1 DEF AllTrue
    <3>5. CASE RecoverTooMuch(n1, n2)
      <4>1. Publishes(n2, Walked(n1)) /\ pending' = KeptOf(n1, n2)
        BY <3>1, <3>2, <3>3, <3>5, RecoveryPublishes
      <4>2. QED
        BY <2>0, <3>4, <3>t, <4>1, <1>p
    <3>6. CASE RecoverGap(n1, n2)
      <4>1. Publishes(n2, Walked(n1)) /\ pending' = Whole(n1, n2)
        BY <3>1, <3>2, <3>3, <3>6, RecoveryPublishes
      <4>2. Accurate => AllTrue(Whole(n1, n2))
        BY <3>6, <3>t DEF RecoverGap
      <4>3. QED
        BY <2>0, <3>4, <3>t, <4>1, <4>2
    <3>7. CASE RecoverAll(n1, n2)
      <4>0. PICK n3 \in Nat : /\ Publishes(n3, Walked(n1) \cup Final(n1, n2))
                              /\ pending' = {e \in Final(n1, n2) : e.seq > n3}
        BY <3>1, <3>2, <3>3, <3>7, RecoveryPublishes
      <4>1. Publishes(n3, Walked(n1) \cup Final(n1, n2)) /\ pending' \subseteq Final(n1, n2)
        BY <4>0
      <4>2. Possible(Walked(n1) \cup Final(n1, n2))
        BY <3>4 DEF Possible
      <4>3. pending' \subseteq Walked(n1) \cup Final(n1, n2)
        BY <4>1
      <4>4. Accurate => AllTrue(Walked(n1) \cup Final(n1, n2))
        BY <3>7, <3>t DEF RecoverAll
      <4>5. QED
        BY <2>0, <4>1, <4>2, <4>3, <4>4, <1>p
    <3>8. QED
      BY <3>2, <3>5, <3>6, <3>7
  <2>3. QED
    BY <2>1, <2>2
<1>8. ASSUME GiveUp \/ RecoveryFails PROVE Goal
  <2>1. log' = log
    BY <1>8 DEF GiveUp, RecoveryFails, serverVars
  <2>2. SetFailure \/ UNCHANGED clientVars
    BY <1>8 DEF GiveUp, RecoveryFails
  <2>3. QED
    BY <2>1, <2>2 DEF SetFailure, Fails, clientVars
<1>9. ASSUME Resume \/ AskRead \/ AnswerRead \/ CandidateLost \/ Install PROVE Goal
  BY <1>9 DEF Resume, AskRead, AnswerRead, CandidateLost, Install, serverVars, clientVars
<1> HIDE DEF Goal
<1>10. Goal
  BY <1>1, <1>2, <1>3, <1>4, <1>5, <1>6, <1>7, <1>8, <1>9 DEF Next, Recovery
<1>11. QED
  BY <1>10 DEF Goal

\* The invariant holds initially.
LEMMA InitPCInv == Init => PInv /\ CInv
<1> SUFFICES ASSUME Init PROVE PInv /\ CInv
  OBVIOUS
<1>1. /\ log = << >> /\ published = << >> /\ last = 0 /\ pending = {} /\ after = 0
      /\ reply = NoReply /\ wire = [c \in Conns |-> << >>]
  BY DEF Init
<1>2. Len(log) = 0 /\ ~Failed /\ ~ClosedPublished /\ Len(published) = 0
      /\ published \in Seq(Kinds \cup {"failed"})
  BY <1>1 DEF Failed, ClosedPublished, Has
<1>3. PInv
  BY <1>1, <1>2 DEF PInv, PublishedShape, OneTerminalEvent, ClosedIsSeen
<1>4. Target = 0 /\ reply \in Reply /\ reply.chunks = {} /\ ~reply.closed /\ reply.next = 1
  BY <1>1 DEF Target, NoReply, Reply
<1>5. ReplyIsTrue
  BY <1>2, <1>4 DEF ReplyIsTrue
<1>6. WireIsTrue
  <2>1. << >> \in Seq(Event) /\ Len(<< >>) = 0
    BY EmptySeq
  <2>2. QED
    BY <1>1, <2>1 DEF WireIsTrue
<1>7. QED
  BY <1>1, <1>3, <1>5, <1>6 DEF CInv, Possible

\* The reply of the server is true when it is given.
LEMMA ExecReadIsTrue ==
  ASSUME SInv, CInv, reply' = ExecRead, log' = log
  PROVE  ReplyIsTrue'
<1>0. log \in Seq(Kinds) /\ Len(log) \in Nat /\ DOMAIN log = 1 .. Len(log) /\ after \in Nat
  BY LenProperties DEF SInv, ServerTypes, CInv
<1>1. /\ reply'.next = Len(log) + 1 /\ reply'.closed = Has(log, "closed")
      /\ reply'.exited = Has(log, "exit")
      /\ reply'.chunks = {i \in RetainedOutput : i > after}
      /\ reply' = [chunks |-> reply'.chunks, next |-> reply'.next, exited |-> reply'.exited,
                   closed |-> reply'.closed]
  BY DEF ExecRead
<1>2. Target' = Len(log)
  BY <1>0, <1>1 DEF Target
<1>3. \A i \in reply'.chunks : i \in 1 .. Len(log) /\ log[i] = "out"
  BY <1>0, <1>1 DEF RetainedOutput, Outputs
<1>4. Has(log, "closed") \in BOOLEAN /\ Has(log, "exit") \in BOOLEAN
  BY DEF Has
<1>5. reply' \in Reply /\ reply'.next >= 1
  BY <1>0, <1>1, <1>3, <1>4 DEF Reply
<1>6. Has(log, "closed") => Len(log) >= 1 /\ log[Len(log)] = "closed"
  <2> SUFFICES ASSUME Has(log, "closed") PROVE Len(log) >= 1 /\ log[Len(log)] = "closed"
    OBVIOUS
  <2>1. PICK i \in 1 .. Len(log) : log[i] = "closed"
    BY <1>0 DEF Has
  <2>2. i = Len(log)
    BY <2>1 DEF SInv, ClosedIsLast
  <2>3. QED
    BY <1>0, <2>1, <2>2
<1>7. \A i \in 1 .. Len(log) : log[i] = "closed" => Has(log, "closed")
  BY <1>0 DEF Has
<1>8. QED
  BY <1>0, <1>1, <1>2, <1>3, <1>5, <1>6, <1>7 DEF ReplyIsTrue

\* Nothing to say about an answered or abandoned read.
LEMMA NoReplyIsTrue ==
  ASSUME SInv, log' = log, reply' = NoReply
  PROVE  ReplyIsTrue'
<1>1. Target' = 0 /\ reply' \in Reply /\ reply'.chunks = {} /\ ~reply'.closed /\ reply'.next = 1
  BY DEF Target, NoReply, Reply
<1>2. Len(log') \in Nat
  BY LenProperties DEF SInv, ServerTypes
<1>3. QED
  BY <1>1, <1>2 DEF ReplyIsTrue

\* Every step keeps the client's invariants.
LEMMA StepPCInv == SInv /\ PInv /\ CInv /\ [Next]_vars => PInv' /\ CInv'
<1> SUFFICES ASSUME SInv, PInv, CInv, [Next]_vars PROVE PInv' /\ CInv'
  OBVIOUS
<1>0. CASE \E t \in Tasks, k \in Kinds : Emits(t, k)
  BY <1>0, EmitKeepsClient
<1> SUFFICES ASSUME ~\E t \in Tasks, k \in Kinds : Emits(t, k) PROVE PInv' /\ CInv'
  BY <1>0
<1>1. log' = log
  BY ClientSteps
<1>2. PInv' /\ Possible(pending)' /\ last' >= last
  <2>0. last \in Nat /\ last >= last
    BY DEF PInv, PublishedShape
  <2>1. CASE UNCHANGED <<last, pending, published>>
    BY <1>1, <2>0, <2>1 DEF PInv, PublishedShape, OneTerminalEvent, ClosedIsSeen, ClosedPublished,
                      Failed, CInv, Possible
  <2>2. CASE Fails
    BY <1>1, <2>0, <2>2, FailKeepsPInv DEF Fails, Possible
  <2>3. CASE \E n, events : Possible(events) /\ Publishes(n, events) /\ Possible(pending')
    <3>1. PICK n, events : Possible(events) /\ Publishes(n, events) /\ Possible(pending')
      BY <2>3
    <3>2. PInv' /\ last' >= last
      BY <1>1, <3>1, PublishKeepsPInv DEF Publishes
    <3>3. Possible(pending)'
      BY <1>1, <3>1 DEF Possible
    <3>4. QED
      BY <3>2, <3>3
  <2>4. QED
    BY <2>1, <2>2, <2>3, ClientSteps
<1>3. WireIsTrue'
  <2>a. WireIsTrue /\ wire \in [Conns -> Seq(Event)]
    BY DEF CInv, WireIsTrue
  <2>1. CASE wire' = wire
    BY <1>1, <2>1, <2>a DEF WireIsTrue
  <2>b. ASSUME NEW c \in Conns, NEW w \in Seq(Event), wire' = [wire EXCEPT ![c] = w],
               \A j \in 1 .. Len(w) : w[j].seq <= Len(log) /\ w[j].kind = log[w[j].seq]
        PROVE  WireIsTrue'
    <3>1. wire' \in [Conns -> Seq(Event)]
      BY <2>a, <2>b
    <3>2. \A d \in Conns : wire'[d] = IF d = c THEN w ELSE wire[d]
      BY <2>a, <2>b
    <3>3. QED
      BY <1>1, <2>a, <2>b, <3>1, <3>2 DEF WireIsTrue
  <2>2. ASSUME NEW c \in Conns, Notification(c) PROVE WireIsTrue'
    <3>1. wire[c] \in Seq(Event) /\ wire[c] # << >>
          /\ wire' = [wire EXCEPT ![c] = Tail(wire[c])]
      BY <2>2, <2>a DEF Notification
    <3>2. /\ Tail(wire[c]) \in Seq(Event)
          /\ \A j \in 1 .. Len(Tail(wire[c])) :
               j + 1 \in 1 .. Len(wire[c]) /\ Tail(wire[c])[j] = wire[c][j + 1]
      BY <3>1, HeadTailProperties, LenProperties
    <3>3. \A j \in 1 .. Len(Tail(wire[c])) :
             /\ Tail(wire[c])[j].seq <= Len(log)
             /\ Tail(wire[c])[j].kind = log[Tail(wire[c])[j].seq]
      BY <2>a, <3>2 DEF WireIsTrue
    <3>4. QED
      BY <2>b, <3>1, <3>2, <3>3
  <2>3. ASSUME NEW c \in Conns, Disconnect(c) PROVE WireIsTrue'
    <3>1. PICK n \in 0 .. Len(wire[c]) : wire' = [wire EXCEPT ![c] = SubSeq(wire[c], 1, n)]
      BY <2>3 DEF Disconnect
    <3>2. wire[c] \in Seq(Event)
      BY <2>a
    <3>3. /\ SubSeq(wire[c], 1, n) \in Seq(Event)
          /\ Len(SubSeq(wire[c], 1, n)) = n
          /\ \A j \in 1 .. n : SubSeq(wire[c], 1, n)[j] = wire[c][j] /\ j \in 1 .. Len(wire[c])
      BY <3>2
    <3>4. \A j \in 1 .. n : /\ SubSeq(wire[c], 1, n)[j].seq <= Len(log)
                            /\ SubSeq(wire[c], 1, n)[j].kind = log[SubSeq(wire[c], 1, n)[j].seq]
      BY <2>a, <3>3 DEF WireIsTrue
    <3>5. QED
      BY <2>b, <3>1, <3>3, <3>4
  <2>4. ASSUME NEW t \in Tasks, Notify(t) PROVE WireIsTrue'
    <3> DEFINE c == sendto[t]
               e == [seq |-> note[t], kind |-> log[note[t]]]
    <3>1. CASE c \notin alive
      BY <2>1, <2>4, <3>1 DEF Notify
    <3>2. CASE c \in alive /\ c \notin Conns
      <4>1. wire' = [wire EXCEPT ![c] = Append(wire[c], e)]
        BY <2>4, <3>2 DEF Notify
      <4>2. wire' = wire
        BY <2>a, <3>2, <4>1
      <4>3. QED
        BY <2>1, <4>2
    <3>3. CASE c \in alive /\ c \in Conns
      <4>1. wire' = [wire EXCEPT ![c] = Append(wire[c], e)]
        BY <2>4, <3>3 DEF Notify
      <4>2. note[t] \in 1 .. Len(log) /\ log[note[t]] \in Kinds
        BY <2>4, LenProperties DEF Notify, SInv, NotesAreLogged, ServerTypes
      <4>3. e \in Event /\ e.seq <= Len(log) /\ e.kind = log[e.seq]
        BY <4>2, LenProperties DEF Event, SInv, ServerTypes
      <4> HIDE DEF e
      <4>4. wire[c] \in Seq(Event)
        BY <2>a, <3>3
      <4>5. /\ Append(wire[c], e) \in Seq(Event)
            /\ \A j \in 1 .. Len(Append(wire[c], e)) :
                 \/ j \in 1 .. Len(wire[c]) /\ Append(wire[c], e)[j] = wire[c][j]
                 \/ Append(wire[c], e)[j] = e
        BY <4>3, <4>4
      <4>6. \A j \in 1 .. Len(Append(wire[c], e)) :
               /\ Append(wire[c], e)[j].seq <= Len(log)
               /\ Append(wire[c], e)[j].kind = log[Append(wire[c], e)[j].seq]
        BY <2>a, <3>3, <4>3, <4>5 DEF WireIsTrue
      <4>7. QED
        BY <2>b, <3>3, <4>1, <4>5, <4>6
    <3>4. QED
      BY <3>1, <3>2, <3>3
  <2>5. QED
    BY <2>1, <2>2, <2>3, <2>4
       DEF Next, ServerTask, Recovery, StreamChunk, StreamEnds, ChildExits, MaybeEmitClosed,
           CloneSender, Retire, Detach, Unregister, RequestRecovery, Resume, AskRead, AnswerRead,
           RecoverEvents, GiveUp, CandidateLost, Install, RecoveryFails, Done, vars, netVars
<1>4. ReplyIsTrue'
  <2>1. CASE reply' = reply
    BY <1>1, <2>1 DEF CInv, ReplyIsTrue, Target
  <2>2. CASE reply' = NoReply
    BY <1>1, <2>2, NoReplyIsTrue
  <2>3. CASE reply' = ExecRead
    BY <1>1, <2>3, ExecReadIsTrue
  <2>4. reply' = reply \/ reply' = NoReply \/ reply' = ExecRead
    BY DEF Next, ServerTask, Recovery, StreamChunk, StreamEnds, ChildExits, MaybeEmitClosed,
           CloneSender, Notify, Retire, Detach, Unregister, Disconnect, Notification,
           RequestRecovery, Resume, AskRead, AnswerRead,
           RecoverEvents, GiveUp, CandidateLost, Install, RecoveryFails, Done, vars, connVars
  <2>5. QED
    BY <2>1, <2>2, <2>3, <2>4
<1>5. after' \in Nat /\ after' <= last'
  <2>1. after' = after \/ after' = 0 \/ (after' = last /\ last' = last)
    BY DEF Next, ServerTask, Recovery, StreamChunk, StreamEnds, ChildExits, MaybeEmitClosed,
           CloneSender, Notify, Retire, Detach, Unregister, Disconnect, Notification,
           RequestRecovery, Resume, AskRead, AnswerRead,
           RecoverEvents, GiveUp, CandidateLost, Install, RecoveryFails, Done, vars, connVars,
           clientVars
  <2>2. last \in Nat /\ last' \in Nat
    BY <1>2 DEF PInv, PublishedShape
  <2>3. QED
    BY <1>2, <2>1, <2>2 DEF CInv
<1>6. QED
  BY <1>2, <1>3, <1>4, <1>5 DEF CInv

EInv == SInv /\ PInv /\ CInv

\* The invariants of server and client hold throughout.
LEMMA EventsSafety == Spec => []EInv
<1>1. Init => EInv
  BY InitSInv, InitPCInv DEF EInv
<1>2. EInv /\ [Next]_vars => EInv'
  BY StepSInv, StepPCInv DEF EInv
<1>3. QED
  BY <1>1, <1>2, PTL DEF Spec

\* A subscriber's stream ends with one Closed or Failed and nothing follows it
\* (OneTerminalEvent), however notifications, recovery and failure interleave.
THEOREM EndsOnce == Spec => []OneTerminalEvent
<1>1. EInv => OneTerminalEvent
  BY DEF EInv, PInv
<1>2. QED
  BY EventsSafety, <1>1, PTL

-----------------------------------------------------------------------------
(***************************************************************************)
(* The route and the reorder buffer.                                       *)
(***************************************************************************)

\* A stream that has ended stays ended.
LEMMA TerminalStays ==
  ASSUME EInv, [Next]_vars, Terminal
  PROVE  published' = published /\ last' = last /\ pending' = pending
  BY ClientSteps DEF EInv, Fails, Publishes, Emits, clientVars

\* set_failure leaves an ended stream.
LEMMA SetFailureEnds ==
  ASSUME PInv, SetFailure
  PROVE  Terminal'
<1>1. CASE Terminal
  BY <1>1 DEF SetFailure, Terminal, ClosedPublished, Failed
<1>2. CASE ~Terminal
  <2>1. published \in Seq(Kinds \cup {"failed"}) /\ published' = Append(published, "failed")
    BY <1>2 DEF PInv, PublishedShape, SetFailure
  <2>2. Len(published) + 1 \in DOMAIN published' /\ published'[Len(published) + 1] = "failed"
    BY <2>1
  <2>3. QED
    BY <2>2 DEF Terminal, Failed, Has
<1>3. QED
  BY <1>1, <1>2

\* How the route of the process changes.
LEMMA RouteSteps ==
  ASSUME EInv, [Next]_vars
  PROVE  \/ route' = route
         \/ route = "routed" /\ route' = "dropped"
         \/ route = "routed" /\ route' = "removed" /\ Terminal'
<1> DEFINE Goal == \/ route' = route
                   \/ route = "routed" /\ route' = "dropped"
                   \/ route = "routed" /\ route' = "removed" /\ Terminal'
<1>1. ASSUME route' = RouteAfter PROVE Goal
  BY <1>1 DEF RouteAfter, RemoveSession, Terminal, ClosedPublished
<1>2. ASSUME NEW c \in Conns, Notification(c) PROVE Goal
  <2>1. \/ UNCHANGED clientVars
        \/ Fails /\ route = "routed" /\ route' = "removed"
        \/ route' = RouteAfter
    BY <1>2, NotificationCases DEF EInv
  <2>2. Fails => SetFailure
    BY DEF Fails, SetFailure
  <2>3. QED
    BY <1>1, <2>1, <2>2, SetFailureEnds DEF clientVars, EInv
<1>3. ASSUME RecoverEvents PROVE Goal
  <2>1. route' = route \/ route' = RouteAfter
    BY <1>3, RecoverEventsCases DEF clientVars, RecoverTooMuch, RecoverGap, RecoverAll
  <2>2. QED
    BY <1>1, <2>1
<1>4. ASSUME GiveUp PROVE Goal
  BY <1>4, SetFailureEnds DEF GiveUp, RemoveSession, EInv
<1>5. ASSUME RecoveryFails PROVE Goal
  BY <1>5, SetFailureEnds DEF RecoveryFails, clientVars, EInv
<1>6. ASSUME Unregister PROVE Goal
  BY <1>6 DEF Unregister
<1>7. QED
  BY <1>2, <1>3, <1>4, <1>5, <1>6
     DEF Next, ServerTask, Recovery, StreamChunk, StreamEnds, ChildExits, MaybeEmitClosed,
         CloneSender, Notify, Retire, Detach, Disconnect, RequestRecovery, Resume, AskRead,
         AnswerRead, CandidateLost, Install, Done, vars, clientVars

\* The client gives up the route of a process only when its stream has ended
\* (RouteUntilTerminal): no subscriber is left with a stream nobody feeds.
THEOREM RoutedToTheEnd == Spec => []RouteUntilTerminal
<1>1. Init => RouteUntilTerminal
  BY DEF Init, RouteUntilTerminal
<1>2. EInv /\ RouteUntilTerminal /\ [Next]_vars => RouteUntilTerminal'
  <2> SUFFICES ASSUME EInv, RouteUntilTerminal, [Next]_vars, route' = "removed" PROVE Terminal'
    BY DEF RouteUntilTerminal
  <2>1. CASE Terminal
    BY <2>1, TerminalStays DEF Terminal, ClosedPublished, Failed
  <2>2. CASE ~Terminal
    BY <2>2, RouteSteps DEF RouteUntilTerminal
  <2>3. QED
    BY <2>1, <2>2
<1>3. QED
  BY <1>1, <1>2, EventsSafety, PTL DEF Spec

Bounded(S) == IsFiniteSet(S) /\ Cardinality(S) <= MaxPending

\* A part of a buffer within the limit is within it.
LEMMA BoundedSubset ==
  ASSUME NEW S, NEW T, T \subseteq S, Bounded(S)
  PROVE  Bounded(T)
<1>1. IsFiniteSet(T) /\ Cardinality(T) <= Cardinality(S)
  BY FS_Subset DEF Bounded
<1>2. Cardinality(T) \in Nat /\ Cardinality(S) \in Nat
  BY <1>1, FS_CardinalityType DEF Bounded
<1>3. QED
  BY <1>1, <1>2 DEF Bounded

\* One more event fits a buffer that has not reached the limit.
LEMMA BoundedAdd ==
  ASSUME NEW S, NEW x, Bounded(S), ~(Cardinality(S) >= MaxPending)
  PROVE  Bounded(S \cup {x})
<1>1. /\ IsFiniteSet(S \cup {x})
      /\ Cardinality(S \cup {x}) = Cardinality(S) \/ Cardinality(S \cup {x}) = Cardinality(S) + 1
  BY FS_AddElement DEF Bounded
<1>2. Cardinality(S) \in Nat
  BY FS_CardinalityType DEF Bounded
<1>3. QED
  BY <1>1, <1>2 DEF Bounded

\* Sets of possible events are finite when their numbers are bounded and each
\* number occurs with one of three kinds.
LEMMA PossibleIsFinite ==
  ASSUME SInv, NEW events, Possible(events)
  PROVE  IsFiniteSet(events)
<1>1. Len(log) \in Nat
  BY LenProperties DEF SInv, ServerTypes
<1>2. IsFiniteSet(1 .. Len(log))
  BY <1>1, FS_Interval
<1>3. IsFiniteSet(Kinds)
  <2>1. IsFiniteSet({"out"})
    BY FS_Singleton
  <2>2. IsFiniteSet({"out"} \cup {"exit"})
    BY <2>1, FS_AddElement
  <2>3. IsFiniteSet(({"out"} \cup {"exit"}) \cup {"closed"})
    BY <2>2, FS_AddElement
  <2>4. Kinds = ({"out"} \cup {"exit"}) \cup {"closed"}
    BY DEF Kinds
  <2>5. QED
    BY <2>3, <2>4
<1>4. IsFiniteSet((1 .. Len(log)) \X Kinds)
  BY <1>2, <1>3, FS_Product
<1> DEFINE f == [p \in (1 .. Len(log)) \X Kinds |-> [seq |-> p[1], kind |-> p[2]]]
           T == {[seq |-> p[1], kind |-> p[2]] : p \in (1 .. Len(log)) \X Kinds}
<1>5. f \in Surjection((1 .. Len(log)) \X Kinds, T)
  BY DEF Surjection
<1>6. IsFiniteSet(T)
  BY <1>4, <1>5, FS_Surjection
<1>7. events \subseteq T
  <2> SUFFICES ASSUME NEW e \in events PROVE e \in T
    OBVIOUS
  <2>1. e \in Event /\ e.seq <= Len(log)
    BY DEF Possible
  <2>2. e = [seq |-> e.seq, kind |-> e.kind] /\ <<e.seq, e.kind>> \in (1 .. Len(log)) \X Kinds
    BY <1>1, <2>1 DEF Event
  <2>3. QED
    BY <2>2
<1>8. QED
  BY <1>6, <1>7, FS_Subset

\* What recovery keeps fits into the buffer: consider the last chunk it took.
LEMMA KeptIsBounded ==
  ASSUME EInv, Bounded(pending), NEW n1 \in Nat, NEW n2 \in Nat
  PROVE  Bounded(KeptOf(n1, n2))
<1> DEFINE beyond == {e \in Walked(n1) : e.seq > n2}
           upto(e) == {d \in beyond : d \in pending \/ d.seq <= e.seq}
           new == KeptOf(n1, n2) \ pending
           T == {e.seq : e \in new}
<1>0. Possible(Walked(n1)) /\ Len(log) \in Nat
  BY RecoveredArePossible, LenProperties DEF EInv, SInv, ServerTypes
<1>1. KeptOf(n1, n2) = {e \in beyond : e \in pending \/ Cardinality(upto(e)) <= MaxPending}
  BY DEF KeptOf, Kept
<1>2. CASE new = {}
  <2>1. KeptOf(n1, n2) \subseteq pending
    BY <1>2
  <2>2. QED
    BY <2>1, BoundedSubset
<1>3. CASE new # {}
  <2>1. new \subseteq Walked(n1)
    BY <1>1
  <2>2. \A e \in new : e.seq \in Nat /\ e.seq <= Len(log)
    BY <1>0, <2>1 DEF Possible, Event
  <2>3. T \subseteq Nat /\ T # {} /\ \A k \in T : k <= Len(log)
    BY <1>3, <2>2
  <2>4. \A e \in new : e.seq \in T
    OBVIOUS
  <2>5. \A k \in T : \E e \in new : k = e.seq
    OBVIOUS
  <2> HIDE DEF T
  <2>6. PICK m \in T : \A k \in T : k <= m
    BY <1>0, <2>3, LargestExists
  <2>7. PICK e \in new : m = e.seq
    BY <2>5
  <2>8. \A d \in new : d.seq <= e.seq
    BY <2>4, <2>6, <2>7
  <2>9. Cardinality(upto(e)) <= MaxPending
    BY <1>1
  <2>10. KeptOf(n1, n2) \subseteq upto(e)
    BY <1>1, <2>8
  <2>11. IsFiniteSet(Walked(n1)) /\ upto(e) \subseteq Walked(n1)
    BY <1>0, PossibleIsFinite DEF EInv
  <2>12. Bounded(upto(e))
    BY <2>9, <2>11, FS_Subset DEF Bounded
  <2> HIDE DEF upto
  <2>13. QED
    BY <2>10, <2>12, BoundedSubset
<1>4. QED
  BY <1>2, <1>3

\* The close fits in as well: if the buffer is full it is the next event, and
\* then nothing can be behind it.
LEMMA WholeIsBounded ==
  ASSUME EInv, Bounded(pending), NEW n1 \in Nat, NEW n2 \in Nat, TakesAll(n1, n2)
  PROVE  Bounded(Whole(n1, n2))
<1> DEFINE kept == KeptOf(n1, n2)
           x == [seq |-> Target, kind |-> "closed"]
<1>1. Bounded(kept)
  BY KeptIsBounded
<1>2. MissingClosed(n2, kept) = {} \/
        /\ MissingClosed(n2, kept) = {x} /\ reply.closed /\ Target > n2
        /\ Target \notin Seqs(kept) /\ ~Overflow(Target, n2, kept)
  BY DEF MissingClosed, TakesAll
<1>3. CASE MissingClosed(n2, kept) = {}
  <2>1. Whole(n1, n2) = kept
    BY <1>3 DEF Whole
  <2>2. QED
    BY <1>1, <2>1
<1>4. CASE /\ MissingClosed(n2, kept) = {x} /\ reply.closed /\ Target > n2
           /\ Target \notin Seqs(kept) /\ ~Overflow(Target, n2, kept)
  <2>1. Whole(n1, n2) = kept \cup {x}
    BY <1>4 DEF Whole
  <2>2. CASE ~(Cardinality(kept) >= MaxPending)
    <3> HIDE DEF kept, x
    <3>1. QED
      BY <1>1, <2>1, <2>2, BoundedAdd
  <2>3. CASE Target = n2 + 1
    <3>0. /\ Target \in Nat /\ Len(log) \in Nat /\ Target = Len(log)
      <4>1. Target \in Nat /\ Len(log) \in Nat /\ Target \in 1 .. Len(log) /\ log[Target] = "closed"
        BY <1>4, LenProperties DEF EInv, CInv, ReplyIsTrue, Reply, Target, SInv, ServerTypes
      <4>2. QED
        BY <4>1 DEF EInv, SInv, ClosedIsLast
    <3>1. ASSUME NEW e \in kept PROVE FALSE
      <4>1. e.seq > n2 /\ e \in Walked(n1) /\ Possible(Walked(n1))
        BY RecoveredArePossible DEF EInv
      <4>2. e.seq \in Nat /\ e.seq <= Len(log)
        BY <4>1 DEF Possible, Event
      <4>3. e.seq = Target
        BY <2>3, <3>0, <4>1, <4>2
      <4>4. QED
        BY <1>4, <4>3 DEF Seqs
    <3>2. kept = {}
      BY <3>1
    <3>3. Bounded({}) /\ ~(Cardinality({}) >= MaxPending)
      BY FS_EmptySet DEF Bounded
    <3>4. Bounded({} \cup {x})
      BY <3>3, BoundedAdd
    <3>5. QED
      BY <2>1, <3>2, <3>4
  <2>4. QED
    BY <1>4, <2>2, <2>3 DEF Overflow
<1>5. QED
  BY <1>2, <1>3, <1>4

\* The reorder buffer never holds more than MAX_PENDING_PROCESS_EVENTS
\* (BufferBounded), although recovery fills it while notifications arrive.
THEOREM BufferIsBounded == Spec => []BufferBounded
<1> DEFINE BInv == Bounded(pending)
<1>1. Init => BInv
  BY FS_EmptySet DEF Init, Bounded
<1>2. EInv /\ BInv /\ [Next]_vars => BInv'
  <2> SUFFICES ASSUME EInv, Bounded(pending), [Next]_vars PROVE Bounded(pending')
    BY DEF Bounded
  <2>1. ASSUME NEW c \in Conns, Notification(c) PROVE Bounded(pending')
    <3> DEFINE e == Head(wire[c])
    <3>1. \/ UNCHANGED clientVars
          \/ Fails
          \/ /\ e.seq \in Seqs(pending) \/ ~Overflow(e.seq, last, pending)
             /\ \E n \in Nat : /\ Publishes(n, Offered(e))
                               /\ n + 1 \notin Seqs(Offered(e))
                               /\ pending' = {x \in Offered(e) : x.seq > n}
      BY <2>1, NotificationCases DEF EInv
    <3> HIDE DEF e
    <3>2. CASE UNCHANGED clientVars
      BY <3>2 DEF clientVars
    <3>3. CASE Fails
      BY <3>3, BoundedSubset DEF Fails
    <3>4. ASSUME NEW n \in Nat, e.seq \in Seqs(pending) \/ ~Overflow(e.seq, last, pending),
                 Publishes(n, Offered(e)), n + 1 \notin Seqs(Offered(e)),
                 pending' = {x \in Offered(e) : x.seq > n}
          PROVE  Bounded(pending')
      <4>1. CASE e.seq \in Seqs(pending)
        BY <3>4, <4>1, BoundedSubset DEF Offered
      <4>2. CASE e.seq \notin Seqs(pending) /\ ~(Cardinality(pending) >= MaxPending)
        <5>1. Bounded(pending \cup {e})
          BY <4>2, BoundedAdd
        <5>2. pending' \subseteq pending \cup {e}
          BY <3>4, <4>2 DEF Offered
        <5>3. QED
          BY <5>1, <5>2, BoundedSubset
      <4>3. CASE e.seq \notin Seqs(pending) /\ e.seq = last + 1
        <5>1. Offered(e) = pending \cup {e} /\ last + 1 \in Seqs(Offered(e))
          BY <4>3 DEF Offered, Seqs
        <5>2. n >= last /\ last \in Nat
          BY <3>4 DEF Publishes, EInv, PInv, PublishedShape
        <5>3. n # last
          BY <3>4, <5>1
        <5>4. ~(e.seq > n)
          BY <4>3, <5>2, <5>3
        <5>5. pending' \subseteq pending
          BY <3>4, <5>1, <5>4
        <5>6. QED
          BY <5>5, BoundedSubset
      <4>4. QED
        BY <3>4, <4>1, <4>2, <4>3 DEF Overflow
    <3>5. QED
      BY <3>1, <3>2, <3>3, <3>4
  <2>2. ASSUME RecoverEvents PROVE Bounded(pending')
    <3>1. CASE UNCHANGED clientVars
      BY <3>1 DEF clientVars
    <3>2. CASE ~UNCHANGED clientVars
      <4>1. ~Terminal
        BY <2>2, <3>2, RecoverEventsCases
      <4>2. PICK n1, n2 \in Positions :
                   /\ PublishesTo(n2, last, Walked(n1))
                   /\ RecoverTooMuch(n1, n2) \/ RecoverGap(n1, n2) \/ RecoverAll(n1, n2)
        BY <2>2, <3>2, RecoverEventsCases
      <4>3. n1 \in Nat /\ n2 \in Nat
        BY DEF Positions
      <4>4. CASE RecoverTooMuch(n1, n2)
        BY <4>3, <4>4, KeptIsBounded DEF RecoverTooMuch, Publish
      <4>5. CASE RecoverGap(n1, n2)
        BY <4>3, <4>5, WholeIsBounded DEF RecoverGap, Publish
      <4>6. CASE RecoverAll(n1, n2)
        <5>1. PICK n3 \in Nat : n3 >= n2 /\ n3 >= Target
                                /\ pending' = {e \in Final(n1, n2) : e.seq > n3}
          BY <4>1, <4>2, <4>3, <4>6, RecoveryPublishes DEF EInv
        <5>2. Bounded(Whole(n1, n2))
          BY <4>3, <4>6, WholeIsBounded DEF RecoverAll
        <5>3. ASSUME NEW e \in pending' PROVE e \in Whole(n1, n2)
          <6>1. e \in Final(n1, n2) /\ e.seq > n3
            BY <5>1
          <6>2. Possible(Final(n1, n2)) /\ \A d \in LateExits(n1, n2) : d.seq <= Target
            BY <4>3, RecoveredArePossible DEF EInv
          <6>3. e.seq \in Nat /\ Target \in Nat
            BY <6>1, <6>2 DEF Possible, Event, EInv, CInv, ReplyIsTrue, Reply, Target
          <6>4. e \notin LateExits(n1, n2)
            BY <5>1, <6>1, <6>2, <6>3
          <6>5. QED
            BY <6>1, <6>4 DEF Final
        <5>4. pending' \subseteq Whole(n1, n2)
          BY <5>3
        <5>5. QED
          BY <5>2, <5>4, BoundedSubset
      <4>7. QED
        BY <4>2, <4>4, <4>5, <4>6
    <3>3. QED
      BY <3>1, <3>2
  <2>3. ASSUME pending' = pending \/ pending' = {} PROVE Bounded(pending')
    BY <2>3, BoundedSubset
  <2>4. QED
    BY <2>1, <2>2, <2>3
       DEF Next, ServerTask, Recovery, StreamChunk, StreamEnds, ChildExits, MaybeEmitClosed,
           CloneSender, Notify, Retire, Detach, Unregister, Disconnect, RequestRecovery, Resume,
           AskRead, AnswerRead, CandidateLost, Install, GiveUp, RecoveryFails, SetFailure, Done,
           vars, clientVars
<1>3. BInv => BufferBounded
  BY DEF Bounded, BufferBounded
<1>4. QED
  BY <1>1, <1>2, <1>3, EventsSafety, PTL DEF Spec

-----------------------------------------------------------------------------
(***************************************************************************)
(* Order and refinement, when the server retains all output.               *)
(***************************************************************************)
OutputsBounded == IsFiniteSet(Outputs) /\ Cardinality(Outputs) <= MaxOut

PublishedIsTrue == \A i \in 1 .. last : published[i] = log[i]

TInv == OutputsBounded /\ Accurate /\ PublishedIsTrue

\* It holds before the process has produced anything.
LEMMA InitTInv == Init => TInv
<1> SUFFICES ASSUME Init PROVE TInv
  OBVIOUS
<1>1. log = << >> /\ pending = {} /\ last = 0 /\ reply = NoReply
  BY DEF Init
<1>2. Outputs = {} /\ Target = 0
  BY <1>1 DEF Outputs, Target, NoReply
<1>3. QED
  BY <1>1, <1>2, FS_EmptySet DEF TInv, OutputsBounded, Accurate, AllTrue, ReplyIsComplete,
                                 PublishedIsTrue

\* The outputs after an event was numbered.
LEMMA EmitKeepsOutputs ==
  ASSUME SInv, OutputsBounded, NEW t \in Tasks, NEW k \in Kinds, Emits(t, k)
  PROVE  OutputsBounded'
<1>1. /\ log' \in Seq(Kinds) /\ Len(log') = Len(log) + 1 /\ Len(log) \in Nat
      /\ \A i \in 1 .. Len(log) : log'[i] = log[i]
      /\ log'[Len(log) + 1] = k
  BY EmitAppends DEF SInv, ServerTypes, Emits
<1>2. DOMAIN log = 1 .. Len(log) /\ DOMAIN log' = 1 .. Len(log) + 1
  BY <1>1, LenProperties DEF SInv, ServerTypes
<1>3. CASE k # "out"
  <2>1. Outputs' = Outputs
    BY <1>1, <1>2, <1>3 DEF Outputs
  <2>2. QED
    BY <2>1 DEF OutputsBounded
<1>4. CASE k = "out"
  <2>1. Outputs' = Outputs \cup {Len(log) + 1}
    BY <1>1, <1>2, <1>4 DEF Outputs
  <2>2. Cardinality(Outputs) < MaxOut
    BY <1>4 DEF Emits
  <2>3. /\ IsFiniteSet(Outputs') /\ Cardinality(Outputs) \in Nat
        /\ Cardinality(Outputs') = Cardinality(Outputs) \/ Cardinality(Outputs') = Cardinality(Outputs) + 1
    BY <2>1, FS_AddElement, FS_CardinalityType DEF OutputsBounded
  <2>4. QED
    BY <2>2, <2>3 DEF OutputsBounded
<1>5. QED
  BY <1>3, <1>4

\* With nothing evicted, the server's reply is complete.
LEMMA ExecReadIsComplete ==
  ASSUME Retained >= MaxOut, SInv, PInv, CInv, OutputsBounded, reply' = ExecRead, log' = log,
         last' = last
  PROVE  ReplyIsComplete'
<1>1. DOMAIN log = 1 .. Len(log) /\ Len(log) \in Nat
  BY LenProperties DEF SInv, ServerTypes
<1>2. ASSUME NEW i \in Outputs PROVE i \in RetainedOutput
  <2> DEFINE newer == {j \in Outputs : j >= i}
  <2>1. newer \subseteq Outputs
    OBVIOUS
  <2>2. Cardinality(newer) <= Cardinality(Outputs) /\ IsFiniteSet(newer)
    BY <2>1, FS_Subset DEF OutputsBounded
  <2>3. Cardinality(newer) \in Nat /\ Cardinality(Outputs) \in Nat
    BY <2>2, FS_CardinalityType DEF OutputsBounded
  <2>4. Cardinality(newer) <= Retained
    BY <2>2, <2>3 DEF OutputsBounded
  <2>5. QED
    BY <2>4 DEF RetainedOutput
<1>3. Target' = Len(log) /\ reply'.chunks = {i \in RetainedOutput : i > after}
  BY <1>1 DEF ExecRead, Target
<1>4. last \in Nat /\ after \in Nat /\ after <= last
  BY DEF PInv, PublishedShape, CInv
<1>5. ASSUME NEW i \in 1 .. Len(log), i > last, log[i] = "out" PROVE i \in reply'.chunks
  <2>1. i \in Outputs /\ i > after
    BY <1>1, <1>4, <1>5 DEF Outputs
  <2>2. QED
    BY <1>2, <1>3, <2>1
<1>6. QED
  BY <1>3, <1>5 DEF ReplyIsComplete

\* Every step keeps the client accurate.
LEMMA StepTInv ==
  ASSUME Retained >= MaxOut
  PROVE  EInv /\ TInv /\ [Next]_vars => TInv'
<1> SUFFICES ASSUME EInv, TInv, [Next]_vars PROVE TInv'
  OBVIOUS
<1>0. /\ SInv /\ PInv /\ CInv /\ EInv'
      /\ last \in Nat /\ last <= Len(log) /\ Len(log) \in Nat
      /\ Target \in Nat /\ Target <= Len(log)
  BY SMTT(40), StepSInv, StepPCInv, LenProperties
     DEF EInv, SInv, ServerTypes, PInv, PublishedShape, CInv, ReplyIsTrue, Reply, Target
<1>1. CASE \E t \in Tasks, k \in Kinds : Emits(t, k)
  <2>1. PICK t \in Tasks, k \in Kinds : Emits(t, k)
    BY <1>1
  <2>2. OutputsBounded'
    BY <1>0, <2>1, EmitKeepsOutputs DEF TInv
  <2>3. \A i \in 1 .. Len(log) : log'[i] = log[i]
    BY <1>0, <2>1, EmitAppends DEF SInv, Emits
  <2>4. UNCHANGED <<reply, last, pending, published>> /\ Target' = Target
    BY <2>1 DEF Emits, connVars, clientVars, Target
  <2>5. \A e \in pending : e.seq \in 1 .. Len(log)
    BY <1>0 DEF CInv, Possible, Event
  <2>6. AllTrue(pending)'
    BY <2>3, <2>4, <2>5 DEF TInv, Accurate, AllTrue
  <2>7. ReplyIsComplete'
    BY <1>0, <2>3, <2>4 DEF TInv, Accurate, ReplyIsComplete
  <2>8. PublishedIsTrue'
    BY <1>0, <2>3, <2>4 DEF TInv, PublishedIsTrue
  <2>9. QED
    BY <2>2, <2>6, <2>7, <2>8 DEF TInv, Accurate
<1>2. CASE ~\E t \in Tasks, k \in Kinds : Emits(t, k)
  <2>1. log' = log
    BY <1>0, <1>2, ClientSteps
  <2>2. OutputsBounded'
    BY <2>1 DEF TInv, OutputsBounded, Outputs
  <2>3. AllTrue(pending)' /\ PublishedIsTrue' /\ last' \in Nat /\ last' >= last
    <3>1. CASE UNCHANGED <<last, pending, published>>
      BY <1>0, <2>1, <3>1 DEF TInv, Accurate, AllTrue, PublishedIsTrue
    <3>2. CASE Fails
      <4>1. pending' = {} /\ last' = last /\ \A i \in 1 .. last : published'[i] = published[i]
        BY <1>0, <2>1, <3>2, FailKeepsPInv DEF Fails
      <4>2. QED
        BY <1>0, <2>1, <4>1 DEF TInv, AllTrue, PublishedIsTrue
    <3>3. CASE \E n, events :
                 /\ Possible(events) /\ Publishes(n, events) /\ Possible(pending')
                 /\ Accurate => AllTrue(events) /\ AllTrue(pending')
      <4>1. PICK n, events : /\ Possible(events) /\ Publishes(n, events)
                             /\ AllTrue(events) /\ AllTrue(pending')
        BY <3>3 DEF TInv
      <4>2. /\ \A i \in 1 .. last : published'[i] = published[i]
            /\ \A i \in (last + 1) .. n : \E e \in events : e.seq = i /\ published'[i] = e.kind
        BY <1>0, <2>1, <4>1, PublishKeepsPInv
      <4>3. last' = n /\ n \in Nat /\ n >= last
        BY <4>1 DEF Publishes
      <4>4. ASSUME NEW i \in 1 .. n PROVE published'[i] = log[i]
        <5>1. CASE i <= last
          BY <1>0, <4>2, <5>1 DEF TInv, PublishedIsTrue
        <5>2. CASE ~(i <= last)
          <6>1. i \in (last + 1) .. n
            BY <1>0, <4>3, <5>2
          <6>2. QED
            BY <4>1, <4>2, <6>1 DEF AllTrue
        <5>3. QED
          BY <5>1, <5>2
      <4>5. AllTrue(pending)'
        BY <2>1, <4>1 DEF AllTrue
      <4>6. QED
        BY <2>1, <4>3, <4>4, <4>5 DEF PublishedIsTrue
    <3>4. QED
      BY <1>0, <1>2, <3>1, <3>2, <3>3, ClientSteps
  <2>4. ReplyIsComplete'
    <3>1. CASE reply' = reply
      BY <1>0, <2>1, <2>3, <3>1 DEF TInv, Accurate, ReplyIsComplete, Target
    <3>2. CASE reply' = NoReply
      BY <3>2 DEF ReplyIsComplete, NoReply, Target
    <3>3. CASE AnswerRead /\ reply' = ExecRead
      BY <1>0, <2>1, <3>3, ExecReadIsComplete DEF TInv, AnswerRead, clientVars
    <3>4. reply' = reply \/ reply' = NoReply \/ (AnswerRead /\ reply' = ExecRead)
      BY DEF Next, ServerTask, Recovery, StreamChunk, StreamEnds, ChildExits, MaybeEmitClosed,
             CloneSender, Notify, Retire, Detach, Unregister, Disconnect, Notification,
             RequestRecovery, Resume, AskRead, AnswerRead,
             RecoverEvents, GiveUp, CandidateLost, Install, RecoveryFails, Done, vars, connVars
    <3>5. QED
      BY <3>1, <3>2, <3>3, <3>4
  <2>5. QED
    BY <2>2, <2>3, <2>4 DEF TInv, Accurate
<1>3. QED
  BY <1>1, <1>2

\* What was published is what the server logged.
LEMMA InOrder ==
  ASSUME EInv, TInv
  PROVE  PublishedInOrder
<1>0. DOMAIN published = 1 .. Len(published)
  BY LenProperties DEF EInv, PInv, PublishedShape
<1>1. /\ last \in Nat /\ last <= Len(log) /\ Len(log) \in Nat
      /\ \/ Len(published) = last + 1 /\ published[last + 1] = "failed"
         \/ Len(published) = last
  BY LenProperties DEF EInv, SInv, ServerTypes, PInv, PublishedShape
<1>2. ASSUME NEW i \in 1 .. Len(published), published[i] # "failed"
      PROVE  i <= Len(log) /\ published[i] = log[i]
  <2>1. i \in 1 .. last
    <3>1. CASE Len(published) = last
      BY <3>1
    <3>2. CASE Len(published) = last + 1 /\ published[last + 1] = "failed"
      <4>1. i # last + 1 /\ i \in 1 .. last + 1
        BY <1>2, <3>2
      <4>2. QED
        BY <1>1, <4>1
    <3>3. QED
      BY <1>1, <3>1, <3>2
  <2>2. published[i] = log[i]
    BY <2>1 DEF TInv, PublishedIsTrue
  <2>3. i <= Len(log)
    BY <1>1, <2>1
  <2>4. QED
    BY <2>2, <2>3
<1>3. QED
  BY <1>0, <1>2 DEF PublishedInOrder

\* As long as the server retains a process's output, subscribers see exactly
\* what happened, in order (PublishedInOrder), whatever was lost, doubled or
\* reordered on the way.
THEOREM Ordered == ASSUME Retained >= MaxOut PROVE Spec => []PublishedInOrder
<1>1. EInv /\ TInv => PublishedInOrder
  BY InOrder
<1>2. QED
  BY <1>1, EventsSafety, InitTInv, StepTInv, PTL DEF Spec

\* What the subscriber has seen is a prefix of the log.
SeenIsPrefix == /\ SubSeq(published, 1, last) = SubSeq(log, 1, last)
                /\ Len(SubSeq(log, 1, last)) = last

\* The invariants say so of every state.
LEMMA PrefixWasSeen ==
  ASSUME EInv, TInv
  PROVE  SeenIsPrefix
<1>0. last \in Nat /\ last <= Len(log) /\ Len(log) \in Nat /\ log \in Seq(Kinds)
  BY LenProperties DEF EInv, SInv, ServerTypes, PInv, PublishedShape
<1>1. \A i \in 1 .. last : log[i] \in Kinds /\ published[i] = log[i]
  BY <1>0, ElementOfSeq DEF TInv, PublishedIsTrue
<1>2. /\ SubSeq(log, 1, last) \in Seq(Kinds)
      /\ Len(SubSeq(log, 1, last)) = IF 1 <= last THEN last - 1 + 1 ELSE 0
      /\ \A i \in 1 .. last - 1 + 1 : SubSeq(log, 1, last)[i] = log[1 + i - 1]
  BY <1>0, <1>1, SubSeqProperties
<1>3. /\ SubSeq(published, 1, last) \in Seq(Kinds)
      /\ Len(SubSeq(published, 1, last)) = IF 1 <= last THEN last - 1 + 1 ELSE 0
      /\ \A i \in 1 .. last - 1 + 1 : SubSeq(published, 1, last)[i] = published[1 + i - 1]
  BY <1>0, <1>1, SubSeqProperties
<1>4. Len(SubSeq(log, 1, last)) = last /\ Len(SubSeq(published, 1, last)) = last
  BY <1>0, <1>2, <1>3
<1>5. \A i \in 1 .. last : 1 + i - 1 = i /\ i \in 1 .. last - 1 + 1
  BY <1>0
<1>6. \A i \in 1 .. last : SubSeq(published, 1, last)[i] = SubSeq(log, 1, last)[i]
  BY <1>1, <1>2, <1>3, <1>5
<1>7. QED
  BY <1>2, <1>3, <1>4, <1>6, SeqEqual DEF SeenIsPrefix

Outcome == IF ClosedPublished THEN "closed" ELSE IF Failed THEN "failed" ELSE "open"

\* Each step of the remote stream is a step of the local one, or invisible.
LEMMA StepRefines ==
  ASSUME EInv, TInv, SeenIsPrefix, EInv', TInv', SeenIsPrefix', [Next]_vars
  PROVE  [Subscriber!Next]_(Subscriber!vars)
<1> DEFINE seen == SubSeq(published, 1, last)
<1>0. /\ last \in Nat /\ last <= Len(log) /\ Len(log) \in Nat
      /\ SInv /\ PInv /\ CInv /\ PInv'
  BY LenProperties DEF EInv, SInv, ServerTypes, PInv, PublishedShape
<1>1. seen = SubSeq(log, 1, last) /\ Len(seen) = last
  BY DEF SeenIsPrefix
<1>2. seen' = SubSeq(log', 1, last')
  BY DEF SeenIsPrefix
<1> HIDE DEF seen
<1>3. CASE log' = log /\ UNCHANGED <<last, published>>
  <2>1. UNCHANGED <<log, seen, Outcome>>
    BY <1>3 DEF seen, Outcome, ClosedPublished, Failed
  <2>2. QED
    BY <2>1 DEF Subscriber!vars, seen, Outcome
<1>4. CASE \E t \in Tasks, k \in Kinds : Emits(t, k)
  <2>1. PICK t \in Tasks, k \in Kinds : Emits(t, k)
    BY <1>4
  <2>2. /\ ~Has(log, "closed") /\ (k = "exit" => ~Has(log, "exit"))
        /\ (k = "closed" => Has(log, "exit")) /\ log' = Append(log, k)
    BY <2>1 DEF Emits, Emit, ReadyToClose
  <2>3. UNCHANGED <<seen, Outcome>>
    BY <2>1 DEF Emits, clientVars, seen, Outcome, ClosedPublished, Failed
  <2>4. Subscriber!Happen(k)
    BY <2>2, <2>3 DEF Subscriber!Happen, Subscriber!Happened, Has, seen, Outcome
  <2>5. QED
    BY <2>4 DEF Subscriber!Next, Kinds
<1>5. CASE log' = log /\ Fails
  <2>1. Outcome = "open"
    BY <1>5 DEF Fails, Terminal, Outcome
  <2>2. Outcome' = "failed"
    BY <1>0, <1>5, FailKeepsPInv DEF Outcome
  <2>3. seen' = seen
    BY <1>1, <1>2, <1>5 DEF Fails
  <2>4. Subscriber!Fail
    BY <1>5, <2>1, <2>2, <2>3 DEF Subscriber!Fail, seen, Outcome
  <2>5. QED
    BY <2>4 DEF Subscriber!Next
<1>6. ASSUME log' = log, NEW n, NEW events, Possible(events), Publishes(n, events)
      PROVE  [Subscriber!Next]_(Subscriber!vars)
  <2>1. /\ n \in Nat /\ n >= last /\ last' = n /\ ~Failed' /\ Len(published') = n
    BY <1>0, <1>6, PublishKeepsPInv DEF Publishes
  <2>2. CASE n = last
    <3>1. published \in Seq(Kinds \cup {"failed"}) /\ Released(n, last, events) = << >>
      <4>1. 1 .. n - last = {}
        BY <1>0, <2>1, <2>2
      <4>2. Released(n, last, events) = [i \in {} |-> (CHOOSE e \in events : e.seq = last + i).kind]
        BY <4>1 DEF Released
      <4>3. QED
        BY <1>0, <4>2 DEF PInv, PublishedShape
    <3>2. published' = published
      BY <1>6, <3>1, ConcatEmptySeq DEF Publishes
    <3>3. QED
      BY <1>3, <1>6, <2>1, <2>2, <3>2
  <2>3. CASE n > last
    <3>1. n \in 1 .. Len(log) /\ Len(seen) = last /\ n > Len(seen)
      BY <1>0, <1>1, <1>6, <2>1, <2>3 DEF PInv, PublishedShape
    <3>2. seen' = SubSeq(log, 1, n)
      BY <1>2, <1>6, <2>1
    <3>3. Outcome = "open"
      BY <1>6 DEF Publishes, Terminal, Outcome
    <3>4. DOMAIN published' = 1 .. n /\ published'[n] = log[n]
      <4>1. published' \in Seq(Kinds \cup {"failed"})
        BY <1>0 DEF PInv, PublishedShape
      <4>2. DOMAIN published' = 1 .. n
        BY <2>1, <4>1, LenProperties
      <4>3. n \in 1 .. last'
        BY <2>1, <3>1
      <4>4. published'[n] = log'[n]
        BY <4>3 DEF TInv, PublishedIsTrue
      <4>5. QED
        BY <1>6, <4>2, <4>4
    <3>5. ClosedPublished' <=> log[n] = "closed"
      <4>1. ASSUME NEW i \in 1 .. n, published'[i] = "closed" PROVE i = n
        BY <1>0, <2>1, <3>4, <4>1 DEF PInv, OneTerminalEvent
      <4>2. n \in 1 .. n
        BY <3>1
      <4>3. QED
        BY <3>4, <4>1, <4>2 DEF ClosedPublished, Has
    <3>6. Outcome' = IF log[n] = "closed" THEN "closed" ELSE "open"
      BY <2>1, <3>5 DEF Outcome
    <3>7. Subscriber!Deliver(n)
      BY <1>6, <3>1, <3>2, <3>3, <3>6 DEF Subscriber!Deliver, seen, Outcome
    <3>8. QED
      BY <3>1, <3>7 DEF Subscriber!Next
  <2>4. QED
    BY <1>0, <2>1, <2>2, <2>3
<1>7. QED
  BY <1>0, <1>3, <1>4, <1>5, <1>6, ClientSteps

\* As long as the server retains a process's output, a subscriber cannot tell a
\* remote process from a local one, except by a Failed: ExecStream implements
\* ProcessEvents (ImplementsProcessEvents).
THEOREM Refinement == ASSUME Retained >= MaxOut PROVE Spec => ImplementsProcessEvents
<1>1. Init => Subscriber!Init
  <2> SUFFICES ASSUME Init PROVE Subscriber!Init
    OBVIOUS
  <2>1. log = << >> /\ published = << >> /\ last = 0
    BY DEF Init
  <2>2. SubSeq(published, 1, last) = << >>
    BY <2>1, SubSeqEmpty
  <2>3. ~ClosedPublished /\ ~Failed
    BY <2>1 DEF ClosedPublished, Failed, Has
  <2>4. QED
    BY <2>1, <2>2, <2>3 DEF Subscriber!Init
<1>2. EInv /\ TInv /\ SeenIsPrefix /\ (EInv /\ TInv /\ SeenIsPrefix)' /\ [Next]_vars
        => [Subscriber!Next]_(Subscriber!vars)
  BY StepRefines
<1>3. Spec => [](TInv /\ SeenIsPrefix)
  <2>1. EInv /\ TInv => SeenIsPrefix
    BY PrefixWasSeen
  <2>2. QED
    BY <2>1, EventsSafety, InitTInv, StepTInv, PTL DEF Spec
<1>4. QED
  BY <1>1, <1>2, <1>3, EventsSafety, PTL DEF Spec, ImplementsProcessEvents, Subscriber!Spec
-----------------------------------------------------------------------------
(***************************************************************************)
(* No gap that nobody will fill.                                           *)
(***************************************************************************)

\* The newest connection is the only one that may be current, and as long as
\* it is up it is the server's notification sender.
LinkInv ==
  /\ alive \subseteq 1 .. opened
  /\ status = "connected" => current = opened /\ rec = "idle"
  /\ opened \in alive => sender = opened
  /\ Failed => route # "routed"

\* Task t is about to notify event i on the newest connection.
Carries(t, i) ==
  /\ note[t] = i
  /\ \/ spc[t] = "notify" /\ sender = opened
     \/ spc[t] = "send" /\ sendto[t] = opened

Sent(i) == \E k \in 1 .. Len(wire[opened]) : wire[opened][k].seq = i

\* The client has event i, or will get it on the newest connection.
Arrives(i) ==
  \/ i <= last
  \/ i \in Seqs(pending)
  \/ Sent(i)
  \/ \E t \in Tasks : Carries(t, i)

\* The newest connection is current, or about to be.
Followed ==
  /\ opened \in alive /\ route = "routed"
  /\ status = "connected" \/ rec \in {"answered", "install"}

\* Then every event arrives, unless the recovery's answer stands for it.
GapInv ==
  Followed => \A i \in 1 .. Len(log) : Arrives(i) \/ (rec = "answered" /\ i <= Target)

\* Every step keeps the facts about connections.
LEMMA StepLinkInv == EInv /\ LinkInv /\ [Next]_vars => LinkInv'
<1> SUFFICES ASSUME EInv, LinkInv, [Next]_vars PROVE LinkInv'
  OBVIOUS
<1>0. opened \in Nat /\ opened \in Conns
  BY DEF EInv, SInv, ServerTypes, Conns
<1>1. /\ (alive \subseteq 1 .. opened)'
      /\ (status = "connected" => current = opened /\ rec = "idle")'
      /\ (opened \in alive => sender = opened)'
  <2>1. CASE Resume
    BY <1>0, <2>1 DEF Resume, LinkInv
  <2>2. CASE \E c \in Conns : Disconnect(c) \/ Notification(c) \/ RequestRecovery(c)
    BY <2>2 DEF Disconnect, Notification, RequestRecovery, serverVars, connVars, LinkInv
  <2>3. CASE Install
    BY <2>3 DEF Install, CandidateConnected, serverVars, netVars, LinkInv
  <2>4. CASE ~Resume /\ ~Install
             /\ ~\E c \in Conns : Disconnect(c) \/ Notification(c) \/ RequestRecovery(c)
    <3>1. UNCHANGED <<alive, opened>> /\ (sender' = sender \/ sender \notin alive)
      BY <2>4 DEF Next, ServerTask, Recovery, StreamChunk, StreamEnds, ChildExits,
           MaybeEmitClosed, CloneSender, Notify, Retire, Detach, Unregister, AskRead, AnswerRead,
           RecoverEvents, GiveUp, CandidateLost, RecoveryFails, Done, vars, serverVars, netVars
    <3>2. \/ status' = status /\ current' = current /\ rec' = rec
          \/ rec # "idle" /\ status' \in {status, "failed"}
      BY <2>4 DEF Next, ServerTask, Recovery, StreamChunk, StreamEnds, ChildExits,
           MaybeEmitClosed, CloneSender, Notify, Retire, Detach, Unregister, AskRead, AnswerRead,
           RecoverEvents, GiveUp, CandidateLost, RecoveryFails, Done, vars, serverVars, connVars
    <3>3. QED
      BY <3>1, <3>2 DEF LinkInv
  <2>5. QED
    BY <2>1, <2>2, <2>3, <2>4
<1>2. ASSUME Failed' PROVE route' # "routed"
  <2>1. CASE Failed
    BY <2>1, RouteSteps DEF LinkInv
  <2>2. CASE ~Failed
    <3>1. log' = log /\ Fails
      <4>1. published' # published
        BY <1>2, <2>2 DEF Failed
      <4>2. ASSUME NEW n, NEW events, Possible(events), Publishes(n, events), log' = log
            PROVE  ~Failed'
        BY <4>2, PublishKeepsPInv DEF EInv
      <4>3. QED
        BY <1>2, <4>1, <4>2, ClientSteps DEF EInv, Emits, clientVars
    <3>2. published' # published /\ ~Terminal
      BY <1>2, <2>2, <3>1 DEF Failed, Fails
    <3>3. ASSUME NEW c \in Conns, Notification(c) PROVE route' # "routed"
      <4>1. ASSUME NEW n, NEW events, Possible(events), Publishes(n, events)
            PROVE  FALSE
        BY <1>2, <3>1, <4>1, PublishKeepsPInv DEF EInv
      <4>2. QED
        BY <3>2, <3>3, <4>1, NotificationCases DEF EInv, clientVars
    <3>4. ASSUME RecoverEvents PROVE FALSE
      <4>1. ASSUME NEW n, NEW events, Possible(events), Publishes(n, events)
            PROVE  FALSE
        BY <1>2, <3>1, <4>1, PublishKeepsPInv DEF EInv
      <4>2. PICK n1, n2 \in Positions :
                 /\ PublishesTo(n2, last, Walked(n1))
                 /\ RecoverTooMuch(n1, n2) \/ RecoverGap(n1, n2) \/ RecoverAll(n1, n2)
        BY <3>2, <3>4, RecoverEventsCases DEF clientVars
      <4>3. n1 \in Nat /\ n2 \in Nat
        BY DEF Positions
      <4>4. Possible(Walked(n1)) /\ Possible(Walked(n1) \cup Final(n1, n2))
        BY <4>3, RecoveredArePossible DEF EInv, Possible
      <4>5. \E n : Publishes(n, Walked(n1)) \/ Publishes(n, Walked(n1) \cup Final(n1, n2))
        BY <3>2, <4>2, <4>3, RecoveryPublishes DEF EInv
      <4>6. QED
        BY <4>1, <4>4, <4>5
    <3>5. ASSUME GiveUp \/ RecoveryFails PROVE route' # "routed"
      BY <3>2, <3>5 DEF GiveUp, RecoveryFails, RemoveSession, clientVars
    <3>6. QED
      BY <3>2, <3>3, <3>4, <3>5
         DEF Next, ServerTask, Recovery, StreamChunk, StreamEnds, ChildExits, MaybeEmitClosed,
             CloneSender, Notify, Retire, Detach, Unregister, Disconnect, RequestRecovery, Resume,
             AskRead, AnswerRead, CandidateLost, Install, Done, vars, clientVars
  <2>3. QED
    BY <2>1, <2>2
<1>3. QED
  BY <1>1, <1>2 DEF LinkInv

\* A routed stream that has ended has seen all there is.
LEMMA RoutedEndHasAll ==
  ASSUME EInv, LinkInv, route = "routed", Terminal
  PROVE  last = Len(log)
  BY DEF EInv, LinkInv, PInv, ClosedIsSeen, Terminal

\* A notification of the reader takes an event off the wire only to hold or
\* publish it, unless the client knows it or has given the process up.
LEMMA NotificationKeepsArrives ==
  ASSUME EInv, LinkInv, NEW c \in Conns, Notification(c), route' = "routed",
         NEW i \in 1 .. Len(log), Arrives(i)
  PROVE  Arrives(i)'
<1> DEFINE e == Head(wire[c])
<1>0. /\ UNCHANGED <<log, note, spc, sender, sendto, opened>>
      /\ wire' = [wire EXCEPT ![c] = Tail(wire[c])]
  BY DEF Notification, serverVars
<1>1. /\ wire[c] # << >> /\ wire[c] \in Seq(Event) /\ e = wire[c][1] /\ e \in Event
      /\ \/ UNCHANGED clientVars /\ (route # "routed" \/ Terminal \/ e.seq <= last)
         \/ Fails /\ route = "routed" /\ route' = "removed"
         \/ \E n \in Nat : /\ Publishes(n, Offered(e))
                           /\ pending' = {x \in Offered(e) : x.seq > n}
  BY NotificationCases DEF EInv
<1> HIDE DEF e
<1>n. last \in Nat /\ Len(log) \in Nat /\ i \in Nat /\ opened \in Conns /\ wire \in [Conns -> Seq(Event)]
  BY LenProperties DEF EInv, SInv, ServerTypes, PInv, PublishedShape, CInv, WireIsTrue
<1>s. ASSUME Sent(i), e.seq # i PROVE Sent(i)'
  <2>1. PICK k \in 1 .. Len(wire[opened]) : wire[opened][k].seq = i
    BY <1>s DEF Sent
  <2>2. CASE c # opened
    BY <1>0, <1>n, <2>1, <2>2 DEF Sent
  <2>3. CASE c = opened
    <3>1. k # 1
      BY <1>1, <1>s, <2>1, <2>3
    <3>2. /\ wire'[opened] = Tail(wire[opened]) /\ Len(Tail(wire[opened])) = Len(wire[opened]) - 1
          /\ k - 1 \in 1 .. Len(wire[opened]) - 1
          /\ Tail(wire[opened])[k - 1] = wire[opened][k]
      BY <1>0, <1>1, <1>n, <2>1, <2>3, <3>1
    <3>3. QED
      BY <1>0, <2>1, <3>2 DEF Sent
  <2>4. QED
    BY <2>2, <2>3
<1>2. CASE UNCHANGED clientVars /\ (route # "routed" \/ Terminal \/ e.seq <= last)
  <2>1. UNCHANGED <<last, pending, route>> /\ route = "routed"
    BY <1>2 DEF clientVars
  <2>2. Terminal => i <= last
    BY <2>1, RoutedEndHasAll
  <2>3. e.seq = i => i <= last
    BY <1>2, <2>1, <2>2
  <2>4. QED
    <3>1. CASE i <= last \/ i \in Seqs(pending) \/ \E t \in Tasks : Carries(t, i)
      BY <1>0, <2>1, <3>1 DEF Arrives, Carries
    <3>2. CASE Sent(i) /\ ~(i <= last)
      BY <1>s, <2>3, <3>2 DEF Arrives
    <3>3. QED
      BY <3>1, <3>2 DEF Arrives
<1>3. CASE \E n \in Nat : /\ Publishes(n, Offered(e))
                          /\ pending' = {x \in Offered(e) : x.seq > n}
  <2>1. PICK n \in Nat : Publishes(n, Offered(e)) /\ pending' = {x \in Offered(e) : x.seq > n}
    BY <1>3
  <2>2. last' = n /\ n >= last
    BY <2>1 DEF Publishes
  <2>3. ASSUME i \in Seqs(Offered(e)) PROVE Arrives(i)'
    <3>1. PICK x \in Offered(e) : x.seq = i
      BY <2>3, SeqsHasEvents
    <3>2. i > n => x \in pending'
      BY <2>1, <3>1
    <3>3. i > n => i \in Seqs(pending')
      BY <3>1, <3>2, SeqsHasEvents
    <3>4. QED
      BY <1>n, <2>2, <3>3 DEF Arrives
  <2>4. Seqs(pending) \subseteq Seqs(Offered(e)) /\ e.seq \in Seqs(Offered(e))
    BY DEF Offered, Seqs
  <2>5. CASE i <= last
    BY <1>n, <2>2, <2>5 DEF Arrives
  <2>6. CASE i \in Seqs(pending) \/ e.seq = i
    BY <2>3, <2>4, <2>6
  <2>7. CASE \E t \in Tasks : Carries(t, i)
    BY <1>0, <2>7 DEF Arrives, Carries
  <2>8. CASE Sent(i) /\ e.seq # i
    BY <1>s, <2>8 DEF Arrives
  <2>9. QED
    BY <2>5, <2>6, <2>7, <2>8 DEF Arrives
<1>4. QED
  BY <1>1, <1>2, <1>3

\* An event that arrives keeps arriving while the newest connection is up and
\* the process is routed; applying a recovery's answer comes below.
LEMMA ArrivesStays ==
  ASSUME EInv, LinkInv, [Next]_vars, ~RecoverEvents, ~Resume,
         (opened \in alive)', route' = "routed", NEW i \in 1 .. Len(log), Arrives(i)
  PROVE  Arrives(i)'
<1>0. /\ opened \in Conns /\ opened # NoConn /\ wire \in [Conns -> Seq(Event)]
      /\ spc \in [Tasks -> {"waiting", "notify", "send", "close", "done"}]
      /\ note \in [Tasks -> Nat] /\ sendto \in [Tasks -> Conns \cup {NoConn}]
  BY DEF EInv, SInv, ServerTypes, CInv, WireIsTrue, Conns, NoConn
<1>1. opened' = opened /\ opened \in alive
  BY DEF Next, ServerTask, Recovery, StreamChunk, StreamEnds, ChildExits, MaybeEmitClosed,
         CloneSender, Notify, Retire, Detach, Unregister, Disconnect, Notification,
         RequestRecovery, AskRead, AnswerRead, GiveUp, CandidateLost, Install, RecoveryFails,
         Done, vars, serverVars, netVars
<1>2. sender = opened
  BY <1>1 DEF LinkInv
<1>m. ASSUME UNCHANGED <<last, pending, wire, sender>>, NEW t \in Tasks,
             \A u \in Tasks \ {t} : note'[u] = note[u] /\ spc'[u] = spc[u] /\ sendto'[u] = sendto[u],
             Carries(t, i) => Carries(t, i)'
      PROVE  Arrives(i)'
  <2>1. \A u \in Tasks : Carries(u, i) => Carries(u, i)'
    BY <1>1, <1>m DEF Carries
  <2>2. QED
    BY <1>1, <1>m, <2>1 DEF Arrives, Sent
<1>u. ASSUME UNCHANGED <<last, pending, wire, sender, note, spc, sendto>> PROVE Arrives(i)'
  BY <1>1, <1>u DEF Arrives, Sent, Carries
<1>e. ASSUME NEW t \in Tasks, NEW k \in Kinds, Emits(t, k) PROVE Arrives(i)'
  <2>1. UNCHANGED <<last, pending, wire, sender, sendto>> /\ spc[t] \in {"waiting", "close"}
    BY <1>e DEF Emits, netVars, clientVars
  <2>2. \A u \in Tasks \ {t} : note'[u] = note[u] /\ spc'[u] = spc[u]
    BY <1>0, <1>e DEF Emits, Emit
  <2>3. QED
    BY <1>m, <2>1, <2>2 DEF Carries
<1>3. ASSUME NEW s \in Streams, StreamChunk(s) \/ StreamEnds(s) PROVE Arrives(i)'
  <2>0. s \in Tasks
    BY DEF Tasks
  <2>1. CASE StreamChunk(s)
    BY <1>e, <2>0, <2>1, EmittingSteps DEF Kinds, EInv
  <2>2. CASE StreamEnds(s)
    <3>1. UNCHANGED <<last, pending, wire, sender, sendto, note>> /\ spc[s] = "waiting"
          /\ spc' = [spc EXCEPT ![s] = "close"]
      BY <2>2 DEF StreamEnds, netVars, clientVars
    <3>2. QED
      BY <1>0, <1>m, <2>0, <3>1 DEF Carries
  <2>3. QED
    BY <1>3, <2>1, <2>2
<1>4. ASSUME ChildExits PROVE Arrives(i)'
  BY <1>4, <1>e, EmittingSteps DEF Kinds, EInv, Tasks
<1>5. ASSUME NEW t \in Tasks, MaybeEmitClosed(t) PROVE Arrives(i)'
  <2>1. CASE Emits(t, "closed")
    BY <1>e, <2>1 DEF Kinds
  <2>2. CASE ~Emits(t, "closed")
    <3>1. UNCHANGED <<last, pending, wire, sender, sendto, note>> /\ spc[t] = "close"
          /\ spc' = [spc EXCEPT ![t] = "done"]
      BY <1>5, <2>2, EmittingSteps DEF netVars, clientVars, EInv
    <3>2. QED
      BY <1>0, <1>m, <3>1 DEF Carries
  <2>3. QED
    BY <2>1, <2>2
<1>6. ASSUME NEW t \in Tasks, CloneSender(t) PROVE Arrives(i)'
  <2>1. /\ UNCHANGED <<last, pending, wire, sender, note>> /\ spc[t] = "notify"
        /\ spc' = [spc EXCEPT ![t] = "send"] /\ sendto' = [sendto EXCEPT ![t] = sender]
    BY <1>0, <1>2, <1>6 DEF CloneSender, netVars, clientVars
  <2>2. Carries(t, i) => Carries(t, i)'
    BY <1>0, <1>1, <1>2, <2>1 DEF Carries
  <2>3. \A u \in Tasks \ {t} : note'[u] = note[u] /\ spc'[u] = spc[u] /\ sendto'[u] = sendto[u]
    BY <1>0, <2>1
  <2>4. QED
    BY <1>m, <2>1, <2>2, <2>3
<1>7. ASSUME NEW t \in Tasks, Notify(t) PROVE Arrives(i)'
  <2>0. /\ UNCHANGED <<last, pending, sender, alive, opened>> /\ spc[t] = "send"
        /\ spc' = [spc EXCEPT ![t] = AfterNotify(log[note[t]])]
        /\ note' = [note EXCEPT ![t] = 0] /\ sendto' = [sendto EXCEPT ![t] = NoConn]
    BY <1>7 DEF Notify, clientVars
  <2> DEFINE e == [seq |-> note[t], kind |-> log[note[t]]]
  <2>1. wire' = IF sendto[t] \in alive
                THEN [wire EXCEPT ![sendto[t]] = Append(wire[sendto[t]], e)] ELSE wire
    BY <1>7 DEF Notify
  <2>2. e.seq = note[t] /\ wire[opened] \in Seq(Event)
    BY <1>0
  <2> HIDE DEF e
  <2>3. \/ wire'[opened] = wire[opened] /\ sendto[t] # opened
        \/ wire'[opened] = Append(wire[opened], e) /\ sendto[t] = opened
    BY <1>0, <1>1, <2>1
  <2>4. Sent(i) => Sent(i)'
    BY <1>1, <2>2, <2>3 DEF Sent
  <2>5. Carries(t, i) => Sent(i)'
    <3> SUFFICES ASSUME Carries(t, i) PROVE Sent(i)'
      OBVIOUS
    <3>1. e.seq = i /\ wire'[opened] = Append(wire[opened], e)
      BY <2>0, <2>2, <2>3 DEF Carries
    <3>2. Len(wire[opened]) + 1 \in 1 .. Len(wire'[opened])
          /\ wire'[opened][Len(wire[opened]) + 1] = e
      BY <2>2, <3>1
    <3>3. QED
      BY <1>1, <3>1, <3>2 DEF Sent
  <2>6. \A u \in Tasks \ {t} : Carries(u, i) => Carries(u, i)'
    BY <1>0, <2>0 DEF Carries
  <2>7. QED
    BY <2>0, <2>4, <2>5, <2>6 DEF Arrives
<1>8. ASSUME Retire \/ Detach \/ Unregister PROVE Arrives(i)'
  BY <1>1, <1>2, <1>8, <1>u DEF Retire, Detach, Unregister, netVars, clientVars
<1>9. ASSUME NEW c \in Conns, Disconnect(c) PROVE Arrives(i)'
  <2>1. c # opened /\ UNCHANGED <<last, pending, sender, note, spc, sendto>>
    BY <1>1, <1>9 DEF Disconnect, serverVars, clientVars
  <2>2. wire'[opened] = wire[opened]
    BY <1>0, <1>9, <2>1 DEF Disconnect
  <2>3. QED
    BY <1>1, <2>1, <2>2 DEF Arrives, Sent, Carries
<1>10. ASSUME NEW c \in Conns, Notification(c) PROVE Arrives(i)'
  BY <1>10, NotificationKeepsArrives
<1>11. ASSUME NEW c \in Conns, RequestRecovery(c) PROVE Arrives(i)'
  BY <1>11, <1>u DEF RequestRecovery, serverVars, clientVars
<1>12. ASSUME GiveUp PROVE FALSE
  BY <1>12 DEF GiveUp, RemoveSession
<1>13. ASSUME AskRead \/ AnswerRead \/ CandidateLost \/ Install \/ Done \/ UNCHANGED vars
       PROVE  Arrives(i)'
  BY <1>13, <1>u DEF AskRead, AnswerRead, CandidateLost, Install, Done, vars, serverVars, netVars,
                     clientVars
<1>14. ASSUME RecoveryFails PROVE Arrives(i)'
  <2>1. UNCHANGED clientVars
    BY <1>14 DEF RecoveryFails
  <2>2. QED
    BY <1>14, <1>u, <2>1 DEF RecoveryFails, serverVars, netVars, clientVars
<1>15. QED
  BY <1>3, <1>4, <1>5, <1>6, <1>7, <1>8, <1>9, <1>10, <1>11, <1>12, <1>13, <1>14
     DEF Next, ServerTask, Recovery

\* A recovery that succeeds has published up to the answer and keeps what it
\* held beyond.
LEMMA RecoveryKeepsArrives ==
  ASSUME EInv, LinkInv, RecoverEvents, route' = "routed", rec' = "install",
         NEW i \in 1 .. Len(log), Arrives(i) \/ i <= Target
  PROVE  Arrives(i)'
<1>0. UNCHANGED <<log, note, spc, sender, sendto, opened, wire>> /\ rec = "answered"
  BY DEF RecoverEvents, serverVars, netVars
<1>n. Target \in Nat /\ last \in Nat /\ i \in Nat /\ Len(log) \in Nat
  BY LenProperties DEF EInv, SInv, ServerTypes, CInv, ReplyIsTrue, Reply, Target, PInv,
                       PublishedShape
<1>1. CASE (Terminal \/ Target <= last) /\ UNCHANGED clientVars
  <2>1. UNCHANGED <<last, pending, route>>
    BY <1>1 DEF clientVars
  <2>2. i <= Target => i <= last
    BY <1>1, <1>n, <2>1, RoutedEndHasAll
  <2>3. QED
    BY <1>0, <2>1, <2>2 DEF Arrives, Sent, Carries
<1>2. CASE ~((Terminal \/ Target <= last) /\ UNCHANGED clientVars)
  <2>1. PICK n1, n2 \in Positions :
               /\ PublishesTo(n2, last, Walked(n1))
               /\ RecoverAll(n1, n2) /\ ~Terminal
    BY <1>2, RecoverEventsCases DEF RecoverTooMuch, RecoverGap
  <2>2. n1 \in Nat /\ n2 \in Nat
    BY DEF Positions
  <2>3. PICK n3 \in Nat : /\ Publishes(n3, Walked(n1) \cup Final(n1, n2))
                          /\ n3 >= n2 /\ n3 >= Target
                          /\ pending' = {e \in Final(n1, n2) : e.seq > n3}
    BY <2>1, <2>2, RecoveryPublishes DEF EInv
  <2>4. last' = n3 /\ n3 >= last
    BY <2>3 DEF Publishes
  <2>5. CASE i <= last \/ i <= Target
    BY <1>n, <2>3, <2>4, <2>5 DEF Arrives
  <2>6. CASE i \in Seqs(pending) /\ ~(i <= n3)
    <3>1. PICK e \in pending : e.seq = i
      BY <2>6, SeqsHasEvents
    <3>2. e \in Walked(n1) /\ i > n2 /\ i > n3
      BY <1>n, <2>2, <2>3, <2>6 DEF Walked
    <3>3. e \in Final(n1, n2)
      BY <2>1, <3>1, <3>2 DEF RecoverAll, TakesAll, Final, Whole
    <3>4. i \in Seqs(pending')
      BY <2>3, <3>1, <3>2, <3>3, SeqsHasEvents
    <3>5. QED
      BY <3>4 DEF Arrives
  <2>7. CASE i <= n3
    BY <2>4, <2>7 DEF Arrives
  <2>8. CASE Sent(i) \/ \E t \in Tasks : Carries(t, i)
    BY <1>0, <2>8 DEF Arrives, Sent, Carries
  <2>9. QED
    BY <2>5, <2>6, <2>7, <2>8 DEF Arrives
<1>3. QED
  BY <1>1, <1>2

\* Every step leaves all events on their way.
LEMMA StepGapInv == EInv /\ LinkInv /\ GapInv /\ [Next]_vars => GapInv'
<1> SUFFICES ASSUME EInv, LinkInv, LinkInv', GapInv, [Next]_vars, Followed'
             PROVE  (\A i \in 1 .. Len(log) : Arrives(i) \/ (rec = "answered" /\ i <= Target))'
  BY StepLinkInv DEF GapInv
<1>0. /\ (opened \in alive)' /\ route' = "routed"
      /\ status' = "connected" \/ rec' \in {"answered", "install"}
      /\ route = "routed" /\ opened \in Nat /\ opened + 1 # opened
      /\ log \in Seq(Kinds) /\ Len(log) \in Nat
  BY RouteSteps, LenProperties DEF Followed, EInv, SInv, ServerTypes, Conns
<1>1. CASE RecoverEvents
  <2>1. UNCHANGED <<log, alive, opened, status>> /\ rec = "answered"
        /\ rec' \in {"install", "terminate"}
    BY <1>1, RecoverEventsCases
       DEF RecoverEvents, serverVars, netVars, RecoverTooMuch, RecoverGap, RecoverAll
  <2>2. rec' = "install"
    BY <1>0, <2>1 DEF LinkInv
  <2>3. Followed
    BY <1>0, <2>1 DEF Followed
  <2>4. QED
    BY <1>0, <1>1, <2>1, <2>2, <2>3, RecoveryKeepsArrives DEF GapInv
<1>2. CASE Resume
  BY <1>0, <1>2 DEF Resume, LinkInv
<1>3. CASE AnswerRead
  <2>1. rec' = "answered" /\ reply' = ExecRead /\ log' = log
    BY <1>0, <1>3 DEF AnswerRead, LinkInv, serverVars
  <2>2. Target' = Len(log)
    BY <1>0, <2>1 DEF Target, ExecRead
  <2>3. QED
    BY <1>0, <2>1, <2>2
<1>4. CASE ~RecoverEvents /\ ~Resume /\ ~AnswerRead
  <2>1. Followed /\ (rec = "answered" => rec' = "answered" /\ reply' = reply)
    <3>1. opened' = opened /\ opened \in alive
      BY <1>0, <1>4 DEF Next, ServerTask, Recovery, StreamChunk, StreamEnds, ChildExits,
         MaybeEmitClosed, CloneSender, Notify, Retire, Detach, Unregister, Disconnect,
         Notification, RequestRecovery, AskRead, AnswerRead, GiveUp, CandidateLost, Install,
         RecoveryFails, Done, vars, serverVars, netVars
    <3>2. \/ UNCHANGED <<status, rec, reply>>
          \/ rec = "install" /\ status' = "connected" /\ rec' = "idle"
      BY <1>0, <1>4, <3>1 DEF Next, ServerTask, Recovery, StreamChunk, StreamEnds, ChildExits,
         MaybeEmitClosed, CloneSender, Notify, Retire, Detach, Unregister, Disconnect,
         Notification, RequestRecovery, AskRead, GiveUp, RemoveSession, CandidateLost, Install,
         CandidateConnected, RecoveryFails, Done, vars, connVars, LinkInv
    <3>3. QED
      BY <1>0, <3>1, <3>2 DEF Followed
  <2>2. \A i \in 1 .. Len(log) : Arrives(i) \/ (rec' = "answered" /\ i <= Target')
    BY <2>1 DEF GapInv, Target
  <2>3. \A i \in 1 .. Len(log) : Arrives(i)' \/ (rec' = "answered" /\ i <= Target')
    BY <1>0, <1>4, <2>2, ArrivesStays
  <2>4. \/ log' = log
        \/ \E t \in Tasks, k \in Kinds : Emits(t, k)
    BY ClientSteps DEF EInv
  <2>5. CASE log' = log
    BY <2>3, <2>5
  <2>6. ASSUME NEW t \in Tasks, NEW k \in Kinds, Emits(t, k), NEW m \in Nat, m = Len(log) + 1
        PROVE  Len(log') = m /\ Arrives(m)'
    <3>1. Len(log') = m
      BY <2>6, EmitAppends DEF EInv, SInv, Emits
    <3>2. note'[t] = m /\ spc'[t] = "notify" /\ sender' = opened'
      BY <1>0, <2>6 DEF Emits, Emit, EInv, SInv, ServerTypes, LinkInv
    <3>3. Carries(t, m)'
      BY <3>1, <3>2 DEF Carries
    <3>4. QED
      BY <3>1, <3>3 DEF Arrives
  <2>7. CASE \E t \in Tasks, k \in Kinds : Emits(t, k)
    <3>1. PICK m \in Nat : m = Len(log) + 1
      BY <1>0
    <3>2. Len(log') = m /\ Arrives(m)'
      BY <2>6, <2>7, <3>1
    <3>3. ASSUME NEW i \in 1 .. Len(log') PROVE i \in 1 .. Len(log) \/ i = m
      BY <1>0, <3>1, <3>2
    <3>4. QED
      BY <2>3, <3>2, <3>3
  <2>8. QED
    BY <2>4, <2>5, <2>7
<1>5. QED
  BY <1>1, <1>2, <1>3, <1>4

\* Whenever the client takes itself to be connected and the connection is up,
\* every event it has not published is buffered, queued on that connection or
\* in the hands of a task that will send it there (NoGapForever): the switch of
\* the notification sender, the recovery read and the installation of the new
\* connection leave no event between them, whatever was evicted or reordered.
THEOREM NoGap == Spec => []NoGapForever
<1>1. Init => LinkInv /\ GapInv
  <2> SUFFICES ASSUME Init PROVE LinkInv /\ GapInv
    OBVIOUS
  <2>1. ~Failed /\ Len(log) = 0
    BY DEF Init, Failed, Has
  <2>2. QED
    BY <2>1 DEF Init, LinkInv, GapInv
<1>2. EInv /\ LinkInv /\ GapInv /\ [Next]_vars => LinkInv' /\ GapInv'
  BY StepLinkInv, StepGapInv
<1>3. EInv /\ LinkInv /\ GapInv => NoGapForever
  <2> SUFFICES ASSUME EInv, LinkInv, GapInv, status = "connected", current \in alive,
                      route = "routed", NEW i \in (last + 1) .. Len(log)
               PROVE  OnItsWay(i)
    BY DEF NoGapForever
  <2>1. current = opened /\ rec = "idle"
    BY DEF LinkInv
  <2>2. last \in Nat /\ Len(log) \in Nat /\ wire[opened] \in Seq(Event)
    BY LenProperties DEF EInv, SInv, ServerTypes, PInv, PublishedShape, CInv, WireIsTrue
  <2>3. i \in 1 .. Len(log) /\ ~(i <= last)
    BY <2>2
  <2>4. Arrives(i)
    BY <2>1, <2>3 DEF GapInv, Followed
  <2>5. Sent(i) => \E k \in DOMAIN wire[current] : wire[current][k].seq = i
    BY <2>1, <2>2 DEF Sent
  <2>6. QED
    BY <2>1, <2>3, <2>4, <2>5 DEF Arrives, Carries, OnItsWay
<1>4. QED
  BY <1>1, <1>2, <1>3, EventsSafety, PTL DEF Spec

=============================================================================
