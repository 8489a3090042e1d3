------------------------ MODULE AgentControlProofs ------------------------
(***************************************************************************)
(* Proofs about AgentControl, for any number of threads, paths and calls   *)
(* and any limit.                                                          *)
(*                                                                         *)
(* Shapes says what a call holds and knows at each of its points; it takes *)
(* no other call into account.  On it rest                                 *)
(*  - Slots: the pending residency slots, one for each call that holds one *)
(*    (SlotInv);                                                           *)
(*  - the registry: who may write which key of the tree, and that a thread *)
(*    is registered once (TreeInv), and the count of agents (CountInv);    *)
(*  - the waiting calls (WaitInv).                                         *)
(***************************************************************************)
EXTENDS AgentControl, SequenceTheorems, FiniteSetTheorems, TLAPS

CallType == [op : Ops \cup {"none"}, pc : Pcs \cup {"idle", "done"},
             t : Threads \cup {NoThread}, path : Paths \cup {NoPath},
             slot : {0, 1}, resv : {0, 1}, held : {0, 1},
             cand : Threads \cup {NoThread}, scan : Nat, g : Nat]

\* The points at which a call has a target.
TargetPcs == {"lookup", "load", "insert", "recheck", "commit", "capacity", "send", "shutdown",
              "wait", "remove", "forget", "release"}

\* A call r of a session of version v: what it holds where, and what it knows.
Shape(v, r) ==
    /\ r.slot = 1 => /\ v = "V2"
                     /\ r.pc \in {"reserve", "prepare", "create", "load", "insert", "recheck",
                                  "commit"}
    /\ r.resv = 1 => /\ r.pc \in {"prepare", "create", "load", "insert", "commit"}
                     /\ r.op \in {"spawn", "resume"}
    /\ r.held = 1 => /\ r.pc \in {"create", "commit"}
                     /\ r.path \in Paths
                     /\ r.resv = 1
    /\ r.path # NoPath => /\ r.op = "spawn" /\ v = "V2"
                          /\ r.pc \in {"create", "commit"} => r.held = 1
    /\ r.op = "resume" => r.t \in SubAgents /\ v = "V1"
    /\ r.op = "spawn" => /\ r.pc \notin {"load", "insert", "recheck"}
                         /\ r.pc = "commit" => r.t \in SubAgents
    /\ r.op # "spawn" /\ r.pc \notin {"idle", "done"} => r.t \in Threads
    /\ r.pc \in TargetPcs => r.t \in Threads
    /\ r.pc \in {"inspect", "stop", "await", "unload"} => r.cand \in Threads
    /\ r.pc = "prepare" => r.resv = 1
    /\ r.pc = "reserve" => r.op \in {"spawn", "resume"}
    /\ r.pc \in {"check", "slot", "pop", "inspect", "stop", "await", "unload", "lookup",
                 "recheck"} => v = "V2"

ResidentsOK == residents \in Seq(Threads) /\ IsInjective(residents)

Types ==
    /\ version \in {"V1", "V2"}
    /\ ResidentsOK
    /\ loop \in [Threads -> {"absent", "new", "idle", "busy", "dead"}]
    /\ gen \in [Threads -> Nat]
    /\ queue \in [Threads -> Seq({"trigger", "mail", "interrupt", "shutdown"})]
    /\ mail \subseteq Threads
    /\ call \in [Calls -> CallType]

Shapes == Types /\ \A c \in Calls : Shape(version, call[c])

-----------------------------------------------------------------------------
(***************************************************************************)
(* The list of residents.                                                  *)
(***************************************************************************)

\* Lists in which everything has one place.
Distinct(s) == \A i, j \in 1 .. Len(s) : s[i] = s[j] => i = j
In(s, x) == \E i \in 1 .. Len(s) : s[i] = x

\* The same for sequences as for functions.
LEMMA DistinctIsInjective ==
    ASSUME NEW S, NEW s \in Seq(S)
    PROVE  /\ IsInjective(s) <=> Distinct(s)
           /\ \A x : x \in ToSet(s) <=> In(s, x)
<1>1. DOMAIN s = 1 .. Len(s)
  BY LenProperties
<1>2. QED
  BY <1>1 DEF IsInjective, Distinct, ToSet, In

\* A list without its first element.
LEMMA TailDistinct ==
    ASSUME NEW S, NEW s \in Seq(S), s # << >>, Distinct(s)
    PROVE  /\ Head(s) \in S /\ Tail(s) \in Seq(S) /\ Distinct(Tail(s))
           /\ ~In(Tail(s), Head(s))
           /\ \A x : In(Tail(s), x) => In(s, x)
<1>1. /\ Head(s) \in S /\ Tail(s) \in Seq(S) /\ Len(Tail(s)) = Len(s) - 1
      /\ \A i \in 1 .. Len(Tail(s)) : Tail(s)[i] = s[i + 1]
  BY HeadTailProperties
<1>2. Head(s) = s[1] /\ Len(s) \in Nat /\ Len(s) >= 1
  OBVIOUS
<1>3. \A i \in 1 .. Len(Tail(s)) : i + 1 \in 1 .. Len(s) /\ i + 1 # 1
  BY <1>1, <1>2
<1>4. 1 \in 1 .. Len(s)
  BY <1>2
<1>5. ASSUME NEW i \in 1 .. Len(Tail(s)), NEW j \in 1 .. Len(Tail(s)), Tail(s)[i] = Tail(s)[j]
      PROVE  i = j
  <2>1. s[i + 1] = s[j + 1]
    BY <1>1, <1>5
  <2>2. i + 1 = j + 1
    BY <1>3, <2>1 DEF Distinct
  <2>3. QED
    BY <1>1, <1>2, <2>2
<1>6. ASSUME NEW i \in 1 .. Len(Tail(s)) PROVE Tail(s)[i] # Head(s)
  BY <1>1, <1>2, <1>3, <1>4 DEF Distinct
<1>7. QED
  BY <1>1, <1>3, <1>5, <1>6 DEF Distinct, In

\* A list with an element added at the end.
LEMMA AppendDistinct ==
    ASSUME NEW S, NEW s \in Seq(S), Distinct(s), NEW x \in S, ~In(s, x)
    PROVE  Append(s, x) \in Seq(S) /\ Distinct(Append(s, x))
<1> DEFINE w == Append(s, x)
<1>1. /\ w \in Seq(S) /\ Len(w) = Len(s) + 1 /\ Len(s) \in Nat
      /\ \A i \in 1 .. Len(s) : w[i] = s[i]
      /\ w[Len(s) + 1] = x
  OBVIOUS
<1> HIDE DEF w
<1>2. ASSUME NEW i \in 1 .. Len(w), NEW j \in 1 .. Len(w), w[i] = w[j] PROVE i = j
  <2>1. (i \in 1 .. Len(s) \/ i = Len(s) + 1) /\ (j \in 1 .. Len(s) \/ j = Len(s) + 1)
    BY <1>1
  <2>2. QED
    BY <1>1, <1>2, <2>1 DEF Distinct, In
<1>3. QED
  BY <1>1, <1>2 DEF Distinct, w

\* A list without the element in place k.
LEMMA RemoveDistinct ==
    ASSUME NEW S, NEW s \in Seq(S), Distinct(s), NEW k \in 1 .. Len(s)
    PROVE  /\ RemoveAt(s, k) \in Seq(S) /\ Distinct(RemoveAt(s, k))
           /\ ~In(RemoveAt(s, k), s[k])
<1> DEFINE a == SubSeq(s, 1, k - 1)
           b == SubSeq(s, k + 1, Len(s))
           w == a \o b
<1>0. Len(s) \in Nat /\ k \in Nat /\ \A i \in 1 .. Len(s) : s[i] \in S
  OBVIOUS
<1>1. a \in Seq(S) /\ Len(a) = k - 1 /\ \A i \in 1 .. k - 1 : a[i] = s[i]
  <2>1. \A i \in 1 .. k - 1 : s[i] \in S
    BY <1>0
  <2>2. /\ a \in Seq(S) /\ Len(a) = IF 1 <= k - 1 THEN k - 1 - 1 + 1 ELSE 0
        /\ \A i \in 1 .. k - 1 - 1 + 1 : a[i] = s[1 + i - 1]
    BY <1>0, <2>1, SubSeqProperties
  <2> HIDE DEF a
  <2>3. QED
    BY <1>0, <2>2
<1>2. b \in Seq(S) /\ Len(b) = Len(s) - k /\ \A i \in 1 .. Len(s) - k : b[i] = s[k + i]
  <2>1. \A i \in k + 1 .. Len(s) : s[i] \in S
    BY <1>0
  <2>2. /\ b \in Seq(S) /\ Len(b) = IF k + 1 <= Len(s) THEN Len(s) - (k + 1) + 1 ELSE 0
        /\ \A i \in 1 .. Len(s) - (k + 1) + 1 : b[i] = s[k + 1 + i - 1]
    BY <1>0, <2>1, SubSeqProperties
  <2> HIDE DEF b
  <2>3. QED
    BY <1>0, <2>2
<1> HIDE DEF a, b
<1>3. /\ w \in Seq(S) /\ Len(w) = Len(s) - 1
      /\ \A i \in 1 .. Len(s) - 1 : w[i] = IF i < k THEN s[i] ELSE s[i + 1]
  <2>1. /\ w \in Seq(S) /\ Len(w) = Len(a) + Len(b)
        /\ \A i \in 1 .. Len(a) + Len(b) : w[i] = IF i <= Len(a) THEN a[i] ELSE b[i - Len(a)]
    BY <1>1, <1>2, ConcatProperties
  <2> HIDE DEF w
  <2>2. Len(w) = Len(s) - 1
    BY <1>0, <1>1, <1>2, <2>1
  <2>3. ASSUME NEW i \in 1 .. Len(s) - 1 PROVE w[i] = IF i < k THEN s[i] ELSE s[i + 1]
    <3>1. i \in 1 .. Len(a) + Len(b) /\ (i < k <=> i <= Len(a))
      BY <1>0, <1>1, <1>2
    <3>2. CASE i < k
      <4>1. w[i] = a[i] /\ i \in 1 .. k - 1
        BY <1>0, <2>1, <3>1, <3>2
      <4>2. QED
        BY <1>1, <3>2, <4>1
    <3>3. CASE ~(i < k)
      <4>1. w[i] = b[i - (k - 1)] /\ i - (k - 1) \in 1 .. Len(s) - k
        BY <1>0, <1>1, <2>1, <3>1, <3>3
      <4>2. k + (i - (k - 1)) = i + 1
        BY <1>0
      <4>3. QED
        BY <1>2, <3>3, <4>1, <4>2
    <3>4. QED
      BY <3>2, <3>3
  <2>4. QED
    BY <2>1, <2>2, <2>3
<1>4. RemoveAt(s, k) = w
  BY DEF RemoveAt, a, b
<1> HIDE DEF w
<1>5. ASSUME NEW i \in 1 .. Len(w) PROVE w[i] # s[k]
  <2>1. CASE i < k
    <3>1. i \in 1 .. Len(s) /\ i # k /\ w[i] = s[i]
      BY <1>0, <1>3, <2>1
    <3>2. QED
      BY <3>1 DEF Distinct
  <2>2. CASE ~(i < k)
    <3>1. i + 1 \in 1 .. Len(s) /\ i + 1 # k /\ w[i] = s[i + 1]
      BY <1>0, <1>3, <2>2
    <3>2. QED
      BY <3>1 DEF Distinct
  <2>3. QED
    BY <2>1, <2>2
<1> DEFINE f(i) == IF i < k THEN i ELSE i + 1
<1>6. ASSUME NEW i \in 1 .. Len(w), NEW j \in 1 .. Len(w), w[i] = w[j] PROVE i = j
  <2>1. f(i) \in 1 .. Len(s) /\ f(j) \in 1 .. Len(s)
    BY <1>0, <1>3
  <2>2. w[i] = s[f(i)] /\ w[j] = s[f(j)]
    BY <1>0, <1>3
  <2>3. f(i) = f(j)
    BY <1>6, <2>1, <2>2 DEF Distinct
  <2>4. QED
    BY <1>0, <1>3, <2>3
<1>7. QED
  BY <1>3, <1>4, <1>5, <1>6 DEF Distinct, In

\* Taking a thread out of the list leaves the others, each in one place.
LEMMA WithoutResident ==
    ASSUME ResidentsOK, NEW t
    PROVE  Without(t) \in Seq(Threads) /\ Distinct(Without(t)) /\ ~In(Without(t), t)
<1>0. residents \in Seq(Threads) /\ Distinct(residents) /\ DOMAIN residents = 1 .. Len(residents)
  BY DistinctIsInjective, LenProperties DEF ResidentsOK
<1>1. CASE t \notin ToSet(residents)
  BY <1>0, <1>1, DistinctIsInjective DEF Without
<1>2. CASE t \in ToSet(residents)
  <2>1. \E i \in 1 .. Len(residents) : residents[i] = t
    BY <1>0, <1>2, DistinctIsInjective DEF In
  <2>2. PICK k \in 1 .. Len(residents) :
              residents[k] = t /\ k = CHOOSE i \in DOMAIN residents : residents[i] = t
    BY <1>0, <2>1
  <2>3. Without(t) = RemoveAt(residents, k)
    BY <1>2, <2>2 DEF Without
  <2>4. QED
    BY <1>0, <2>2, <2>3, RemoveDistinct
<1>3. QED
  BY <1>1, <1>2

\* A thread that was used goes to the end of the list.
LEMMA TouchedResident ==
    ASSUME ResidentsOK, NEW t \in Threads
    PROVE  touched(t) \in Seq(Threads) /\ IsInjective(touched(t))
<1>1. Without(t) \in Seq(Threads) /\ Distinct(Without(t)) /\ ~In(Without(t), t)
  BY WithoutResident
<1>2. touched(t) \in Seq(Threads) /\ Distinct(touched(t))
  BY <1>1, AppendDistinct DEF touched
<1>3. QED
  BY <1>2, DistinctIsInjective

\* pop_lru_candidate yields a resident and leaves the others.
LEMMA PoppedResident ==
    ASSUME ResidentsOK, NEW c, PopCandidate(c)
    PROVE  ResidentsOK' /\ Head(Candidates(c)) \in Threads
<1>0. residents \in Seq(Threads) /\ Distinct(residents)
  BY DistinctIsInjective DEF ResidentsOK
<1>1. /\ Candidates(c) # << >>
      /\ residents' = IF Passed(c) THEN Append(Tail(Candidates(c)), call[c].t)
                                   ELSE Tail(Candidates(c))
  BY DEF PopCandidate
<1>2. CASE Passed(c)
  <2>1. Candidates(c) = Tail(residents) /\ residents # << >> /\ call[c].t = Head(residents)
    BY <1>2 DEF Passed, Candidates
  <2>2. /\ Head(residents) \in Threads /\ Tail(residents) \in Seq(Threads)
        /\ Distinct(Tail(residents)) /\ ~In(Tail(residents), Head(residents))
    BY <1>0, <2>1, TailDistinct
  <2> DEFINE q == Tail(residents)
             t == Head(residents)
  <2> HIDE DEF q, t
  <2>3. q \in Seq(Threads) /\ q # << >> /\ Distinct(q) /\ t \in Threads /\ ~In(q, t)
    BY <1>1, <2>1, <2>2 DEF q, t
  <2>4. /\ Head(q) \in Threads /\ Tail(q) \in Seq(Threads) /\ Distinct(Tail(q))
        /\ ~In(Tail(q), t)
    BY <2>3, TailDistinct
  <2>5. Append(Tail(q), t) \in Seq(Threads) /\ Distinct(Append(Tail(q), t))
    BY <2>3, <2>4, AppendDistinct
  <2>6. residents' = Append(Tail(q), t) /\ Candidates(c) = q
    BY <1>1, <1>2, <2>1 DEF q, t
  <2>7. QED
    BY <2>4, <2>5, <2>6, DistinctIsInjective DEF ResidentsOK
<1>3. CASE ~Passed(c)
  <2>1. Candidates(c) = residents /\ residents' = Tail(residents) /\ residents # << >>
    BY <1>1, <1>3 DEF Candidates
  <2>2. Head(residents) \in Threads /\ Tail(residents) \in Seq(Threads) /\ Distinct(Tail(residents))
    BY <1>0, <2>1, TailDistinct
  <2>3. QED
    BY <2>1, <2>2, DistinctIsInjective DEF ResidentsOK
<1>4. QED
  BY <1>2, <1>3

-----------------------------------------------------------------------------
(***************************************************************************)
(* Every step keeps the types and the shape of the calls.                  *)
(***************************************************************************)

\* The strings of the module are no threads and no paths.
LEMMA Names ==
    /\ NoPath \notin Paths /\ RootPath \notin Paths /\ RootPath \notin Threads
    /\ NoPath # RootPath
    /\ NoThread \notin Threads /\ Vacant \notin Threads /\ Reserved \notin Threads
    /\ Vacant # Reserved
    /\ Root \in Threads /\ Root \notin SubAgents /\ SubAgents \subseteq Threads
  BY NamesAssumption, ThreadsAssumption DEF NoPath, RootPath, Vacant, Reserved, SubAgents

\* A step of call c that leaves it as r.
LEMMA CallMoves ==
    ASSUME Shapes, NEW c \in Calls, NEW r \in CallType, Shape(version, r),
           call' = [call EXCEPT ![c] = r], version' = version, ResidentsOK',
           loop' \in [Threads -> {"absent", "new", "idle", "busy", "dead"}],
           gen' \in [Threads -> Nat],
           queue' \in [Threads -> Seq({"trigger", "mail", "interrupt", "shutdown"})],
           mail' \subseteq Threads
    PROVE  Shapes'
  BY DEF Shapes, Types

\* The manager's tables keep their types when a thread is removed or told
\* something.
LEMMA ManagerTypes ==
    ASSUME Types, NEW t \in Threads
    PROVE  /\ RemoveThread(t) =>
                /\ loop' \in [Threads -> {"absent", "new", "idle", "busy", "dead"}]
                /\ queue' \in [Threads -> Seq({"trigger", "mail", "interrupt", "shutdown"})]
                /\ mail' \subseteq Threads /\ gen' = gen
           /\ \A sub \in {"trigger", "mail", "interrupt", "shutdown"} : Submit(t, sub) =>
                queue' \in [Threads -> Seq({"trigger", "mail", "interrupt", "shutdown"})]
<1> DEFINE Subs == {"trigger", "mail", "interrupt", "shutdown"}
<1>1. << >> \in Seq(Subs)
  BY EmptySeq
<1>2. ASSUME NEW sub \in Subs, Submit(t, sub) PROVE queue' \in [Threads -> Seq(Subs)]
  <2>1. queue \in [Threads -> Seq(Subs)] /\ queue[t] \in Seq(Subs)
    BY DEF Types
  <2>2. Append(queue[t], sub) \in Seq(Subs)
    BY <2>1
  <2> HIDE DEF Subs
  <2>3. QED
    BY <1>2, <2>1, <2>2 DEF Submit
<1>3. ASSUME RemoveThread(t)
      PROVE  /\ loop' \in [Threads -> {"absent", "new", "idle", "busy", "dead"}]
             /\ queue' \in [Threads -> Seq(Subs)] /\ mail' \subseteq Threads /\ gen' = gen
  <2> HIDE DEF Subs
  <2>0. queue \in [Threads -> Seq(Subs)]
    BY DEF Types, Subs
  <2>1. QED
    BY <1>1, <1>3, <2>0 DEF RemoveThread, Types
<1>4. QED
  BY <1>2, <1>3

\* The call returns.
LEMMA DoneShape == Done \in CallType /\ \A v : Shape(v, Done)
  BY Names DEF Done, Idle, CallType, Shape, TargetPcs

\* Steps that only end a call, move it to another point or begin it.
LEMMA FinishMoves ==
    ASSUME Shapes, NEW c \in Calls, Finish(c), UNCHANGED <<version, manager>>, ResidentsOK'
    PROVE  Shapes'
<1>1. call' = [call EXCEPT ![c] = Done]
  BY DEF Finish
<1>2. QED
  BY <1>1, DoneShape, CallMoves DEF manager, Shapes, Types

\* Steps that move a call to another point.
LEMMA GotoMoves ==
    ASSUME Shapes, NEW c \in Calls, NEW pc \in Pcs, Goto(c, pc), version' = version, ResidentsOK',
           loop' \in [Threads -> {"absent", "new", "idle", "busy", "dead"}],
           gen' \in [Threads -> Nat],
           queue' \in [Threads -> Seq({"trigger", "mail", "interrupt", "shutdown"})],
           mail' \subseteq Threads,
           Shape(version, [call[c] EXCEPT !.pc = pc])
    PROVE  Shapes'
<1> DEFINE r == [call[c] EXCEPT !.pc = pc]
<1>1. call[c] \in CallType
  BY DEF Shapes, Types
<1>2. r \in CallType
  BY <1>1 DEF CallType
<1>3. call' = [call EXCEPT ![c] = r]
  BY DEF Goto
<1> HIDE DEF r
<1>4. QED
  BY <1>2, <1>3, CallMoves DEF r

\* Beginning a call.
LEMMA BeginMoves ==
    ASSUME Shapes, NEW c \in Calls, NEW op \in Ops, NEW t \in Threads \cup {NoThread},
           NEW path \in Paths \cup {NoPath}, NEW pc \in Pcs, Begin(c, op, t, path, pc),
           path # NoPath => op = "spawn" /\ version = "V2",
           op = "resume" => t \in SubAgents /\ version = "V1",
           op # "spawn" => t \in Threads,
           pc \in {"check", "reserve", "lookup", "capacity", "send", "shutdown"},
           op = "spawn" => pc \in {"check", "reserve"},
           pc \in {"check", "lookup"} => version = "V2",
           pc = "reserve" => op \in {"spawn", "resume"}
    PROVE  Shapes'
<1> DEFINE r == [Idle EXCEPT !.op = op, !.pc = pc, !.t = t, !.path = path]
<1>0. Idle \in CallType /\ Idle.slot = 0 /\ Idle.resv = 0 /\ Idle.held = 0
  BY DEF Idle, CallType
<1>1. /\ r \in CallType
      /\ r.op = op /\ r.pc = pc /\ r.t = t /\ r.path = path
      /\ r.slot = 0 /\ r.resv = 0 /\ r.held = 0
  BY <1>0 DEF CallType
<1>2. call' = [call EXCEPT ![c] = r] /\ UNCHANGED <<version, residents, loop, gen, queue, mail>>
  BY DEF Begin, residency, manager
<1> HIDE DEF r
<1>4. Shape(version, r)
  <2>1. op # "spawn" \/ pc \in {"check", "reserve"}
    OBVIOUS
  <2>2. pc \in TargetPcs => t \in Threads
    BY DEF TargetPcs
  <2>3. QED
    BY <1>1, <2>2 DEF Shape
<1>5. QED
  BY <1>1, <1>2, <1>4, CallMoves DEF Shapes, Types, ResidentsOK

\* An error ends the call.
LEMMA FailMoves ==
    ASSUME Shapes, NEW c \in Calls, Fail(c)
    PROVE  Shapes'
<1>1. Finish(c) /\ UNCHANGED <<version, manager>> /\ residents' = residents
  BY DEF Fail
<1>2. QED
  BY <1>1, FinishMoves DEF Shapes, Types, ResidentsOK

\* What the tools ask for.
LEMMA RequestKeepsShapes ==
    ASSUME Shapes, NEW c \in Calls, Request(c)
    PROVE  Shapes'
<1>0. {"spawn", "send_input", "followup", "message", "interrupt", "close", "resume"} \subseteq Ops
      /\ {"check", "reserve", "lookup", "capacity", "send", "shutdown"} \subseteq Pcs
  BY DEF Ops, Pcs
<1>1. ASSUME Spawn(c) PROVE Shapes'
  <2>1. CASE version = "V1" /\ Begin(c, "spawn", NoThread, NoPath, "reserve")
    BY <1>0, <2>1, BeginMoves
  <2>2. CASE version = "V2" /\ \E p \in Paths \cup {NoPath} : Begin(c, "spawn", NoThread, p, "check")
    <3>1. PICK p \in Paths \cup {NoPath} : Begin(c, "spawn", NoThread, p, "check")
      BY <2>2
    <3>2. QED
      BY <1>0, <2>2, <3>1, BeginMoves
  <2>3. QED
    BY <1>1, <2>1, <2>2 DEF Spawn
<1>2. ASSUME NEW t \in Threads, Message(c, t) PROVE Shapes'
  <2>1. /\ version = "V2"
        /\ Begin(c, "message", t, NoPath, "lookup") \/ Begin(c, "followup", t, NoPath, "lookup")
    BY <1>2 DEF Message
  <2>2. QED
    BY <1>0, <2>1, BeginMoves
<1>3. ASSUME NEW t \in Threads, SendInput(c, t) PROVE Shapes'
  BY <1>0, <1>3, BeginMoves DEF SendInput
<1>4. ASSUME NEW t \in Threads, Interrupt(c, t) PROVE Shapes'
  BY <1>0, <1>4, BeginMoves DEF Interrupt
<1>5. ASSUME NEW t \in Threads, Close(c, t) PROVE Shapes'
  BY <1>0, <1>5, BeginMoves DEF Close
<1>6. ASSUME NEW t \in Threads, Resume(c, t) PROVE Shapes'
  <2>1. version = "V1" /\ t \in SubAgents /\ Begin(c, "resume", t, NoPath, "reserve")
    BY <1>6 DEF Resume, SubAgents
  <2>2. QED
    BY <1>0, <2>1, BeginMoves
<1>7. QED
  BY <1>1, <1>2, <1>3, <1>4, <1>5, <1>6 DEF Request

\* The steps of a call.
LEMMA CallKeepsShapes ==
    ASSUME Shapes, NEW c \in Calls, CallStep(c)
    PROVE  Shapes'
<1> DEFINE r == call[c]
<1>0. r \in CallType /\ Shape(version, r) /\ Types
  BY DEF Shapes, Types
<1>p. /\ r.pc \in Pcs \cup {"idle", "done"} /\ r.slot \in {0, 1} /\ r.resv \in {0, 1}
      /\ r.held \in {0, 1} /\ r.scan \in Nat
  BY <1>0 DEF CallType
<1>q. /\ {"check", "slot", "pop", "inspect", "stop", "await", "unload", "reserve"} \subseteq Pcs
      /\ {"prepare", "create", "lookup", "load", "insert", "recheck", "commit"} \subseteq Pcs
      /\ {"capacity", "send", "shutdown", "wait", "remove", "forget", "release"} \subseteq Pcs
  BY DEF Pcs
<1>r. UNCHANGED residents => ResidentsOK'
  BY <1>0 DEF Types, ResidentsOK
<1>m. UNCHANGED manager =>
        /\ loop' \in [Threads -> {"absent", "new", "idle", "busy", "dead"}]
        /\ gen' \in [Threads -> Nat]
        /\ queue' \in [Threads -> Seq({"trigger", "mail", "interrupt", "shutdown"})]
        /\ mail' \subseteq Threads
  BY <1>0 DEF manager, Types
<1>f. ASSUME Finish(c), UNCHANGED <<version, residents, manager>> PROVE Shapes'
  BY <1>f, <1>r, FinishMoves
\* A move to pc of which Shape asks no more than of the point it leaves.
<1>g. ASSUME NEW pc \in Pcs, Goto(c, pc), version' = version, ResidentsOK', UNCHANGED manager,
             Shape(version, [r EXCEPT !.pc = pc])
      PROVE  Shapes'
  BY <1>g, <1>m, GotoMoves
<1>1. ASSUME CheckCapacity(c) PROVE Shapes'
  <2>1. /\ UNCHANGED <<version, residents, manager>> /\ r.pc = "check"
        /\ Goto(c, "slot") \/ Finish(c)
    BY <1>1 DEF CheckCapacity, At, residency
  <2>2. Shape(version, [r EXCEPT !.pc = "slot"])
    BY <1>0, <2>1 DEF Shape, TargetPcs, CallType
  <2>3. QED
    BY <1>f, <1>g, <1>q, <1>r, <2>1, <2>2
\* A move that changes more than the point.
<1>x. ASSUME NEW x \in CallType, call' = [call EXCEPT ![c] = x], Shape(version, x),
             version' = version, ResidentsOK', UNCHANGED manager
      PROVE  Shapes'
  BY <1>x, <1>m, CallMoves
<1>2. ASSUME ReserveSlot(c) PROVE Shapes'
  <2>0. UNCHANGED <<version, residents, manager>> /\ r.pc = "slot"
    BY <1>2 DEF ReserveSlot, At
  <2>1. CASE Len(residents) + pending_slots < Capacity
    <3> DEFINE pc == IF r.op = "spawn" THEN "reserve" ELSE "load"
               x == [r EXCEPT !.slot = 1, !.pc = pc]
    <3>1. call' = [call EXCEPT ![c] = x]
      BY <1>2, <2>1 DEF ReserveSlot
    <3>2. x \in CallType
      BY ZenonT(60), <1>0, <1>q DEF CallType
    <3>4. Shape(version, x)
      BY <1>0, <2>0 DEF Shape, TargetPcs, CallType
    <3> HIDE DEF x
    <3>5. QED
      BY <1>r, <1>x, <2>0, <3>1, <3>2, <3>4
  <2>2. CASE ~(Len(residents) + pending_slots < Capacity)
    <3> DEFINE x == [r EXCEPT !.pc = "pop", !.scan = Len(residents)]
    <3>1. call' = [call EXCEPT ![c] = x]
      BY <1>2, <2>2 DEF ReserveSlot
    <3>2. Len(residents) \in Nat
      BY <1>0, LenProperties DEF Types, ResidentsOK
    <3>3. x \in CallType
      BY <1>0, <1>q, <3>2 DEF CallType
    <3>4. Shape(version, x)
      BY <1>0, <2>0 DEF Shape, TargetPcs, CallType
    <3> HIDE DEF x
    <3>5. QED
      BY <1>r, <1>x, <2>0, <3>1, <3>3, <3>4
  <2>3. QED
    BY <2>1, <2>2
<1>3. ASSUME PopCandidate(c) PROVE Shapes'
  <2>1. ResidentsOK' /\ Head(Candidates(c)) \in Threads
    BY <1>0, <1>3, PoppedResident DEF Types
  <2>2. UNCHANGED <<version, manager>> /\ r.pc = "pop" /\ r.scan > 0
    BY <1>3 DEF PopCandidate, At
  <2> DEFINE h == Head(Candidates(c))
             x == [r EXCEPT !.cand = h, !.scan = r.scan - 1, !.pc = "inspect"]
  <2>3. call' = [call EXCEPT ![c] = x]
    BY <1>3 DEF PopCandidate
  <2> HIDE DEF h
  <2>4. h \in Threads /\ r.scan - 1 \in Nat
    BY <1>p, <2>1, <2>2 DEF h
  <2>5. x \in CallType
    BY <1>0, <1>q, <2>4 DEF CallType
  <2>6. Shape(version, x)
    BY <1>0, <2>2, <2>4 DEF Shape, TargetPcs, CallType
  <2> HIDE DEF x
  <2>7. QED
    BY <1>x, <2>1, <2>2, <2>3, <2>5, <2>6
<1>4. ASSUME NoCandidate(c) PROVE Shapes'
  BY <1>4, <1>f DEF NoCandidate, residency
<1>5. ASSUME InspectCandidate(c) PROVE Shapes'
  <2>0. UNCHANGED <<version, manager>> /\ r.pc = "inspect" /\ r.cand \in Threads
    BY <1>0, <1>5 DEF InspectCandidate, At, Shape
  <2>1. ResidentsOK' /\ (Goto(c, "pop") \/ Goto(c, "stop"))
    <3>1. residents' = residents \/ residents' = touched(r.cand)
      BY <1>5 DEF InspectCandidate
    <3>2. QED
      BY <1>0, <1>5, <1>r, <2>0, <3>1, TouchedResident DEF InspectCandidate, Types, ResidentsOK
  <2>2. Shape(version, [r EXCEPT !.pc = "pop"]) /\ Shape(version, [r EXCEPT !.pc = "stop"])
    BY <1>0, <2>0 DEF Shape, TargetPcs, CallType
  <2>3. QED
    BY <1>g, <1>q, <2>0, <2>1, <2>2
<1>6. ASSUME AwaitCandidate(c) PROVE Shapes'
  <2>1. /\ UNCHANGED <<version, residents, manager>> /\ r.pc = "await" /\ Goto(c, "unload")
    BY <1>6 DEF AwaitCandidate, At, residency
  <2>2. Shape(version, [r EXCEPT !.pc = "unload"])
    BY <1>0, <2>1 DEF Shape, TargetPcs, CallType
  <2>3. QED
    BY <1>g, <1>q, <1>r, <2>1, <2>2
<1>7. ASSUME StopCandidate(c) PROVE Shapes'
  <2>0. /\ UNCHANGED <<version, residents, loop, gen, mail>> /\ r.pc = "stop"
        /\ r.cand \in Threads /\ gen[r.cand] \in Nat
    BY <1>0, <1>7 DEF StopCandidate, At, Shape, Types, residency
  <2> DEFINE h == gen[r.cand]
             x == [r EXCEPT !.pc = "await", !.g = h]
  <2>1. call' = [call EXCEPT ![c] = x]
    BY <1>7 DEF StopCandidate
  <2>2. queue' \in [Threads -> Seq({"trigger", "mail", "interrupt", "shutdown"})]
    BY <1>0, <1>7, <2>0, ManagerTypes DEF StopCandidate
  <2> HIDE DEF h
  <2>3. x \in CallType /\ Shape(version, x)
    <3>1. h \in Nat
      BY <2>0 DEF h
    <3>2. x \in CallType
      BY <1>0, <1>q, <3>1 DEF CallType
    <3>3. Shape(version, x)
      BY <1>0, <2>0 DEF Shape, TargetPcs, CallType
    <3>4. QED
      BY <3>2, <3>3
  <2> HIDE DEF x
  <2>4. QED
    BY <1>0, <1>r, <2>0, <2>1, <2>2, <2>3, CallMoves DEF Types
<1>8. ASSUME UnloadCandidate(c) PROVE Shapes'
  <2>0. /\ UNCHANGED <<version, residents>> /\ r.pc = "unload" /\ r.cand \in Threads
    BY <1>0, <1>8 DEF UnloadCandidate, At, Shape, residency
  <2> DEFINE x == [r EXCEPT !.pc = "slot", !.cand = NoThread, !.scan = 0, !.g = 0]
  <2>1. call' = [call EXCEPT ![c] = x]
    BY <1>8 DEF UnloadCandidate
  <2>2. /\ loop' \in [Threads -> {"absent", "new", "idle", "busy", "dead"}]
        /\ queue' \in [Threads -> Seq({"trigger", "mail", "interrupt", "shutdown"})]
        /\ mail' \subseteq Threads /\ gen' = gen
    BY <1>0, <1>8, <2>0, ManagerTypes DEF UnloadCandidate
  <2>3. x \in CallType
    BY <1>0, <1>q DEF CallType
  <2>4. Shape(version, x)
    BY <1>0, <2>0 DEF Shape, TargetPcs, CallType
  <2> HIDE DEF x
  <2>5. QED
    BY <1>0, <1>r, <2>0, <2>1, <2>2, <2>3, <2>4, CallMoves DEF Types
<1>9. ASSUME ReserveSpawn(c) PROVE Shapes'
  <2>0. UNCHANGED <<version, residents, manager>> /\ r.pc = "reserve"
    BY <1>9 DEF ReserveSpawn, At, residency
  <2> DEFINE x == [r EXCEPT !.resv = 1, !.pc = "prepare"]
  <2>1. call' = [call EXCEPT ![c] = x] \/ Finish(c)
    BY <1>9 DEF ReserveSpawn
  <2>2. x \in CallType
    BY <1>0, <1>q DEF CallType
  <2>3. Shape(version, x)
    BY <1>0, <2>0 DEF Shape, TargetPcs, CallType
  <2> HIDE DEF x
  <2>4. QED
    BY <1>f, <1>r, <1>x, <2>0, <2>1, <2>2, <2>3
<1>10. ASSUME Prepare(c) PROVE Shapes'
  <2> DEFINE pc == IF r.op = "spawn" THEN "create" ELSE "load"
             x == [r EXCEPT !.held = 1, !.pc = pc]
  <2>0. r.pc = "prepare"
    BY <1>10 DEF Prepare, At
  <2>1. \/ r.path = NoPath /\ Goto(c, pc) /\ UNCHANGED <<version, residents, manager>>
        \/ r.path # NoPath /\ call' = [call EXCEPT ![c] = x] /\ UNCHANGED <<version, residents, manager>>
        \/ Fail(c)
    BY <1>10 DEF Prepare, residency
  <2>2. CASE r.path = NoPath /\ Goto(c, pc) /\ UNCHANGED <<version, residents, manager>>
    <3>1. pc \in Pcs /\ Shape(version, [r EXCEPT !.pc = pc])
      BY <1>0, <1>q, <2>0, <2>2 DEF Shape, TargetPcs, CallType
    <3> HIDE DEF pc
    <3>2. QED
      BY <1>g, <1>r, <2>2, <3>1
  <2>3. CASE r.path # NoPath /\ call' = [call EXCEPT ![c] = x] /\ UNCHANGED <<version, residents, manager>>
    <3>1. x \in CallType
      BY ZenonT(60), <1>0, <1>q DEF CallType
    <3>2. Shape(version, x)
      BY <1>0, <2>0, <2>3 DEF Shape, TargetPcs, CallType
    <3> HIDE DEF x
    <3>3. QED
      BY <1>x, <1>r, <2>3, <3>1, <3>2
  <2>4. QED
    BY <2>1, <2>2, <2>3, FailMoves
<1>11. ASSUME CreateThread(c) PROVE Shapes'
  <2>1. CASE Fail(c)
    BY <2>1, FailMoves
  <2>2. CASE ~Fail(c)
    <3>1. PICK t \in SubAgents :
            /\ loop' = [loop EXCEPT ![t] = "new"] /\ gen' = [gen EXCEPT ![t] = 1]
            /\ call' = [call EXCEPT ![c].t = t, ![c].pc = "commit"]
            /\ UNCHANGED <<version, residents, queue, mail>>
      BY <1>11, <2>2 DEF CreateThread, residency
    <3>2. r.pc = "create" /\ t \in Threads
      BY <1>11, Names DEF CreateThread, At
    <3> DEFINE x == [r EXCEPT !.t = t, !.pc = "commit"]
    <3>3. call' = [call EXCEPT ![c] = x]
      BY <3>1
    <3>4. x \in CallType
      BY <1>0, <1>q, <3>2 DEF CallType
    <3>5. Shape(version, x)
      BY <1>0, <3>2 DEF Shape, TargetPcs, CallType
    <3>6. /\ loop' \in [Threads -> {"absent", "new", "idle", "busy", "dead"}]
          /\ gen' \in [Threads -> Nat]
      BY <1>0, <3>1 DEF Types
    <3> HIDE DEF x
    <3>7. QED
      BY <1>0, <1>r, <3>1, <3>3, <3>4, <3>5, <3>6, CallMoves DEF Types
  <2>3. QED
    BY <2>1, <2>2
<1>t. ASSUME NEW t \in Threads, residents' = residents \/ residents' = touched(t)
      PROVE  ResidentsOK'
  BY <1>0, <1>r, <1>t, TouchedResident DEF Types, ResidentsOK
<1>12. ASSUME LookupAgent(c) PROVE Shapes'
  <2>1. /\ UNCHANGED <<version, manager>> /\ r.pc = "lookup" /\ r.t \in Threads
        /\ residents' = residents \/ residents' = touched(r.t)
        /\ Goto(c, "capacity") \/ Goto(c, "slot") \/ (Finish(c) /\ UNCHANGED residents)
    BY <1>0, <1>12 DEF LookupAgent, At, Shape, TargetPcs
  <2>2. Shape(version, [r EXCEPT !.pc = "capacity"]) /\ Shape(version, [r EXCEPT !.pc = "slot"])
    BY <1>0, <2>1 DEF Shape, TargetPcs, CallType
  <2>3. QED
    BY <1>f, <1>g, <1>q, <1>t, <2>1, <2>2
<1>13. ASSUME LoadThread(c) PROVE Shapes'
  <2>1. UNCHANGED <<version, residents>> /\ r.pc = "load" /\ r.t \in Threads
    BY <1>0, <1>13 DEF LoadThread, At, residency, Shape, TargetPcs
  <2>2. Shape(version, [r EXCEPT !.pc = "commit"]) /\ Shape(version, [r EXCEPT !.pc = "insert"])
    BY <1>0, <2>1 DEF Shape, TargetPcs, CallType
  <2>3. CASE Running(r.t)
    BY <1>13, <1>g, <1>q, <1>r, <2>1, <2>2, <2>3 DEF LoadThread
  <2>4. CASE ~Running(r.t)
    <3>1. Goto(c, "insert") /\ RemoveThread(r.t)
      BY <1>13, <2>4 DEF LoadThread
    <3>2. /\ loop' \in [Threads -> {"absent", "new", "idle", "busy", "dead"}]
          /\ queue' \in [Threads -> Seq({"trigger", "mail", "interrupt", "shutdown"})]
          /\ mail' \subseteq Threads /\ gen' = gen
      BY <1>0, <2>1, <3>1, ManagerTypes
    <3>3. QED
      BY <1>0, <1>q, <1>r, <2>1, <2>2, <3>1, <3>2, GotoMoves DEF Types
  <2>5. QED
    BY <2>3, <2>4
<1>14. ASSUME InsertThread(c) PROVE Shapes'
  <2>1. r.pc = "insert" /\ r.t \in Threads
    BY <1>0, <1>14 DEF InsertThread, At, Shape, TargetPcs
  <2>2. Shape(version, [r EXCEPT !.pc = "commit"])
    BY <1>0, <2>1 DEF Shape, TargetPcs, CallType
  <2>3. CASE Fail(c)
    BY <2>3, FailMoves
  <2>4. CASE /\ version = "V2" /\ Goto(c, "recheck")
             /\ UNCHANGED <<version, registry, residency, manager>>
    <3>1. Shape(version, [r EXCEPT !.pc = "recheck"])
      BY <1>0, <2>1, <2>4 DEF Shape, TargetPcs, CallType
    <3>2. QED
      BY <1>g, <1>q, <1>r, <2>4, <3>1 DEF residency
  <2>5. CASE /\ loop' = [loop EXCEPT ![r.t] = "new"]
             /\ gen' = [gen EXCEPT ![r.t] = gen[r.t] + 1]
             /\ Goto(c, "commit")
             /\ UNCHANGED <<version, registry, residency, queue, mail>>
    <3>1. /\ loop' \in [Threads -> {"absent", "new", "idle", "busy", "dead"}]
          /\ gen' \in [Threads -> Nat]
      BY <1>0, <2>1, <2>5 DEF Types
    <3>2. QED
      BY <1>0, <1>q, <1>r, <2>2, <2>5, <3>1, GotoMoves DEF Types, residency
  <2>6. QED
    BY <1>14, <2>3, <2>4, <2>5 DEF InsertThread
<1>15. ASSUME Recheck(c) PROVE Shapes'
  <2>1. r.pc = "recheck" /\ r.t \in Threads
    BY <1>0, <1>15 DEF Recheck, At, Shape, TargetPcs
  <2>2. CASE Fail(c)
    BY <2>2, FailMoves
  <2>3. CASE ~Fail(c)
    <3> DEFINE x == [r EXCEPT !.slot = 0, !.pc = "capacity"]
    <3>1. /\ call' = [call EXCEPT ![c] = x]
          /\ residents' = residents \/ residents' = touched(r.t)
          /\ UNCHANGED <<version, manager>>
      BY <1>15, <2>3 DEF Recheck
    <3>2. x \in CallType
      BY <1>0, <1>q DEF CallType
    <3>3. Shape(version, x)
      BY <1>0, <2>1 DEF Shape, TargetPcs, CallType
    <3> HIDE DEF x
    <3>4. QED
      BY <1>t, <1>x, <2>1, <3>1, <3>2, <3>3
  <2>4. QED
    BY <2>2, <2>3
<1>16. ASSUME Commit(c) PROVE Shapes'
  <2>1. r.pc = "commit" /\ r.t \in Threads /\ UNCHANGED <<version, manager>>
        /\ (residents' = residents \/ residents' = touched(r.t))
    BY <1>0, <1>16 DEF Commit, At, Shape, TargetPcs
  <2> DEFINE pc == IF r.op = "spawn" THEN "send" ELSE "capacity"
             x == [r EXCEPT !.resv = 0, !.held = 0, !.slot = 0, !.path = NoPath, !.pc = pc]
  <2>2. call' = [call EXCEPT ![c] = Done] \/ call' = [call EXCEPT ![c] = x]
    <3>1. CASE r.op = "resume"
      BY <1>16, <3>1 DEF Commit
    <3>2. CASE r.op = "spawn"
      BY <1>16, <3>2 DEF Commit
    <3>3. CASE r.op # "spawn" /\ r.op # "resume"
      BY <1>16, <3>3 DEF Commit
    <3>4. QED
      BY <3>1, <3>2, <3>3
  <2>3. x \in CallType
    BY <1>0, <1>q DEF CallType
  <2>4. Shape(version, x)
    BY <1>0, <2>1 DEF Shape, TargetPcs, CallType
  <2> HIDE DEF x
  <2>5. QED
    BY <1>t, <1>x, <2>1, <2>2, <2>3, <2>4, DoneShape
<1>17. ASSUME CheckTurnStart(c) \/ SendOp(c) \/ ShutdownAgent(c) PROVE Shapes'
  <2>1. r.t \in Threads /\ r.pc \in {"capacity", "send", "shutdown"}
    BY <1>0, <1>17 DEF CheckTurnStart, SendOp, ShutdownAgent, At, Shape, TargetPcs
  <2>2. UNCHANGED <<version, residents, loop, gen, mail>>
    BY <1>17 DEF CheckTurnStart, SendOp, ShutdownAgent, residency, manager
  <2>3. queue' \in [Threads -> Seq({"trigger", "mail", "interrupt", "shutdown"})]
    <3>1. queue' = queue \/ \E sub \in {"trigger", "mail", "interrupt", "shutdown"} : Submit(r.t, sub)
      BY <1>17 DEF CheckTurnStart, SendOp, ShutdownAgent, Submission, manager
    <3>2. QED
      BY <1>0, <2>1, <3>1, ManagerTypes DEF Types
  <2> DEFINE h == gen[r.t]
             pc == IF Loaded(r.t) THEN "wait" ELSE "remove"
             x == [r EXCEPT !.g = h, !.pc = pc]
  <2>4. \/ Goto(c, "send") \/ Goto(c, "remove")
        \/ call' = [call EXCEPT ![c] = x]
        \/ call' = [call EXCEPT ![c] = Done]
    BY <1>17 DEF CheckTurnStart, SendOp, ShutdownAgent, Finish
  <2>5. h \in Nat
    BY <1>0, <2>1 DEF Types
  <2> HIDE DEF h
  <2>6. x \in CallType
    BY <1>0, <1>q, <2>5 DEF CallType
  <2>7. Shape(version, x)
    BY <1>0, <2>1 DEF Shape, TargetPcs, CallType
  <2>8. Shape(version, [r EXCEPT !.pc = "send"]) /\ Shape(version, [r EXCEPT !.pc = "remove"])
    BY <1>0, <2>1 DEF Shape, TargetPcs, CallType
  <2> HIDE DEF x
  <2>9. CASE Goto(c, "send") \/ Goto(c, "remove")
    BY <1>0, <1>q, <1>r, <2>2, <2>3, <2>8, <2>9, GotoMoves DEF Types
  <2>10. CASE call' = [call EXCEPT ![c] = x] \/ call' = [call EXCEPT ![c] = Done]
    BY <1>0, <1>r, <2>2, <2>3, <2>6, <2>7, <2>10, CallMoves, DoneShape DEF Types
  <2>11. QED
    BY <2>4, <2>9, <2>10
<1>18. ASSUME WaitTerminated(c) \/ RemoveAgent(c) \/ ForgetResidency(c) PROVE Shapes'
  <2>1. r.t \in Threads /\ r.pc \in {"wait", "remove", "forget"} /\ version' = version
        /\ \E pc \in {"remove", "forget", "release"} : Goto(c, pc)
    BY <1>0, <1>18 DEF WaitTerminated, RemoveAgent, ForgetResidency, At, Shape, TargetPcs
  <2>2. \A pc \in {"remove", "forget", "release"} : Shape(version, [r EXCEPT !.pc = pc])
    BY <1>0, <2>1 DEF Shape, TargetPcs, CallType
  <2>3. ResidentsOK'
    <3>1. residents' = residents \/ residents' = Without(r.t)
      BY <1>18 DEF WaitTerminated, RemoveAgent, ForgetResidency, residency
    <3>2. Without(r.t) \in Seq(Threads) /\ IsInjective(Without(r.t))
      BY <1>0, WithoutResident, DistinctIsInjective DEF Types
    <3>3. QED
      BY <1>r, <3>1, <3>2 DEF ResidentsOK
  <2>4. /\ loop' \in [Threads -> {"absent", "new", "idle", "busy", "dead"}]
        /\ gen' \in [Threads -> Nat]
        /\ queue' \in [Threads -> Seq({"trigger", "mail", "interrupt", "shutdown"})]
        /\ mail' \subseteq Threads
    <3>1. UNCHANGED manager \/ RemoveThread(r.t)
      BY <1>18 DEF WaitTerminated, RemoveAgent, ForgetResidency
    <3>2. QED
      BY <1>0, <1>m, <2>1, <3>1, ManagerTypes DEF Types
  <2>5. QED
    BY <1>q, <2>1, <2>2, <2>3, <2>4, GotoMoves
<1>19. ASSUME ReleaseSpawned(c) PROVE Shapes'
  BY <1>19, <1>f DEF ReleaseSpawned, residency
<1>20. QED
  BY <1>1, <1>2, <1>3, <1>4, <1>5, <1>6, <1>7, <1>8, <1>9, <1>10, <1>11, <1>12, <1>13, <1>14,
     <1>15, <1>16, <1>17, <1>18, <1>19 DEF CallStep

\* The invariant holds initially.
LEMMA InitShapes == Init => Shapes
<1> SUFFICES ASSUME Init PROVE Shapes
  OBVIOUS
<1>1. Spawned \in Seq(Threads) /\ IsInjective(Spawned)
  <2>1. Spawned \in Seq(SubAgents) /\ Len(Spawned) \in Nat
        /\ \A i, j \in DOMAIN Spawned : Spawned[i] = Spawned[j] => i = j
    BY SpawnedAssumption DEF SubAgents
  <2>2. \A i \in 1 .. Len(Spawned) : Spawned[i] \in Threads
    BY <2>1, ElementOfSeq, Names
  <2>3. Spawned \in Seq(Threads)
    BY <2>1, <2>2
  <2>4. QED
    BY <2>1, <2>3 DEF IsInjective
<1>2. ResidentsOK
  <2>1. << >> \in Seq(Threads) /\ IsInjective(<< >>)
    BY EmptySeq DEF IsInjective
  <2>2. residents = Spawned \/ residents = << >>
    BY DEF Init
  <2>3. QED
    BY <1>1, <2>1, <2>2 DEF ResidentsOK
<1>3. /\ loop \in [Threads -> {"absent", "new", "idle", "busy", "dead"}]
      /\ gen \in [Threads -> Nat]
  BY DEF Init
<1>4. /\ queue \in [Threads -> Seq({"trigger", "mail", "interrupt", "shutdown"})]
      /\ mail \subseteq Threads
  BY EmptySeq DEF Init
<1>5. Idle \in CallType /\ \A v : Shape(v, Idle)
  BY Names DEF Idle, CallType, Shape, TargetPcs
<1>6. call \in [Calls -> CallType] /\ \A c \in Calls : call[c] = Idle
  BY <1>5 DEF Init
<1>7. QED
  BY <1>2, <1>3, <1>4, <1>5, <1>6 DEF Shapes, Types, Init

\* The threads' own steps leave the calls alone.
LEMMA ThreadKeepsTypes ==
    ASSUME Types, NEW t \in Threads, ThreadStep(t) \/ RootEnds
    PROVE  Types' /\ UNCHANGED <<version, agent_tree, total_count, residents, pending_slots, gen, call>>
<1> DEFINE Subs == {"trigger", "mail", "interrupt", "shutdown"}
<1>1. UNCHANGED <<version, agent_tree, total_count, residents, pending_slots, gen, call>>
  BY DEF ThreadStep, HandleSubmission, TurnEnds, RootEnds, registry, residency
<1>2. << >> \in Seq(Subs) /\ queue \in [Threads -> Seq(Subs)] /\ Root \in Threads
  BY EmptySeq, Names DEF Types
<1>3. loop' \in [Threads -> {"absent", "new", "idle", "busy", "dead"}]
  <2>1. CASE HandleSubmission(t)
    <3>1. queue[t] \in Seq(Subs) /\ queue[t] # << >>
      BY <1>2, <2>1 DEF HandleSubmission
    <3>2. Head(queue[t]) \in Subs
      BY <3>1
    <3> DEFINE q == Head(queue[t])
    <3> HIDE DEF q
    <3>3. q \in Subs
      BY <3>2 DEF q
    <3>4. loop' = [loop EXCEPT ![t] = CASE q = "trigger" -> "busy"
                                        [] q = "mail" -> loop[t]
                                        [] q = "interrupt" -> IF loop[t] = "busy" THEN "idle" ELSE loop[t]
                                        [] q = "shutdown" -> "dead"]
      BY <2>1 DEF HandleSubmission, q
    <3>5. QED
      BY <3>3, <3>4 DEF Types
  <2>2. CASE TurnEnds(t) \/ RootEnds
    BY <1>2, <2>2 DEF TurnEnds, RootEnds, Types
  <2>3. QED
    BY <2>1, <2>2 DEF ThreadStep
<1>4. queue' \in [Threads -> Seq(Subs)] /\ mail' \subseteq Threads
  <2>1. CASE HandleSubmission(t)
    <3>1. queue[t] \in Seq(Subs) /\ queue[t] # << >>
      BY <1>2, <2>1 DEF HandleSubmission
    <3>2. Tail(queue[t]) \in Seq(Subs)
      BY <3>1
    <3> HIDE DEF Subs
    <3>3. QED
      BY <1>2, <2>1, <3>2 DEF HandleSubmission, Types
  <2>2. CASE TurnEnds(t) \/ RootEnds
    <3> HIDE DEF Subs
    <3>1. QED
      BY <1>2, <2>2 DEF TurnEnds, RootEnds, Types
  <2>3. QED
    BY <2>1, <2>2 DEF ThreadStep
<1>5. QED
  BY <1>1, <1>3, <1>4 DEF Types, ResidentsOK

\* Every step keeps the shape of the calls.
LEMMA StepShapes == Shapes /\ [Next]_vars => Shapes'
<1> SUFFICES ASSUME Shapes, [Next]_vars PROVE Shapes'
  OBVIOUS
<1>1. ASSUME NEW t \in Threads, ThreadStep(t) \/ RootEnds PROVE Shapes'
  BY <1>1, ThreadKeepsTypes DEF Shapes
<1>2. Root \in Threads
  BY Names
<1>3. CASE UNCHANGED vars
  BY <1>3 DEF Shapes, Types, ResidentsOK, vars, registry, residency, manager
<1>4. QED
  BY <1>1, <1>2, <1>3, RequestKeepsShapes, CallKeepsShapes DEF Next

-----------------------------------------------------------------------------
(***************************************************************************)
(* The residency slots.                                                    *)
(***************************************************************************)
SlotHolders == {c \in Calls : call[c].slot = 1}

\* Sets that differ in c at most.
LEMMA CountOne ==
    ASSUME NEW S, NEW T, NEW c, IsFiniteSet(S), T \ {c} = S \ {c}
    PROVE  /\ IsFiniteSet(T)
           /\ Cardinality(S) \in Nat /\ Cardinality(T) \in Nat
           /\ ((c \in S /\ c \in T) \/ (c \notin S /\ c \notin T)) => Cardinality(T) = Cardinality(S)
           /\ c \in T /\ c \notin S => Cardinality(T) = Cardinality(S) + 1
           /\ c \notin T /\ c \in S => Cardinality(T) = Cardinality(S) - 1
<1>1. CASE (c \in S /\ c \in T) \/ (c \notin S /\ c \notin T)
  <2>1. T = S
    BY <1>1
  <2>2. QED
    BY <1>1, <2>1, FS_CardinalityType
<1>2. CASE c \in T /\ c \notin S
  <2>1. T = S \cup {c}
    BY <1>2
  <2>2. QED
    BY <1>2, <2>1, FS_AddElement, FS_CardinalityType
<1>3. CASE c \notin T /\ c \in S
  <2>1. T = S \ {c}
    BY <1>3
  <2>2. QED
    BY <1>3, <2>1, FS_RemoveElement, FS_CardinalityType
<1>4. QED
  BY <1>1, <1>2, <1>3

\* A step is one call's.
LEMMA OtherCalls ==
    ASSUME Shapes, NEW c \in Calls, Request(c) \/ CallStep(c)
    PROVE  \A d \in Calls \ {c} : call'[d] = call[d]
<1>0. call \in [Calls -> CallType]
  BY DEF Shapes, Types
<1>b. ASSUME NEW op, NEW t, NEW path, NEW pc, Begin(c, op, t, path, pc)
      PROVE  \A d \in Calls \ {c} : call'[d] = call[d]
  BY <1>0, <1>b DEF Begin
<1>1. CASE Request(c)
  BY <1>1, <1>b DEF Request, Spawn, Message, SendInput, Interrupt, Close, Resume
<1>2. CASE CheckCapacity(c) \/ ReserveSlot(c) \/ PopCandidate(c) \/ NoCandidate(c)
             \/ InspectCandidate(c) \/ StopCandidate(c) \/ AwaitCandidate(c) \/ UnloadCandidate(c)
  BY <1>0, <1>2 DEF CheckCapacity, ReserveSlot, PopCandidate, NoCandidate, InspectCandidate,
       StopCandidate, AwaitCandidate, UnloadCandidate, Goto, Finish
<1>3. CASE ReserveSpawn(c) \/ Prepare(c) \/ CreateThread(c) \/ LookupAgent(c) \/ LoadThread(c)
             \/ InsertThread(c) \/ Recheck(c)
  BY <1>0, <1>3 DEF ReserveSpawn, Prepare, CreateThread, LookupAgent, LoadThread, InsertThread,
       Recheck, Fail, Goto, Finish
<1>4. CASE Commit(c)
  BY <1>0, <1>4 DEF Commit
<1>5. CASE CheckTurnStart(c) \/ SendOp(c) \/ ShutdownAgent(c) \/ WaitTerminated(c)
             \/ RemoveAgent(c) \/ ForgetResidency(c) \/ ReleaseSpawned(c)
  BY <1>0, <1>5 DEF CheckTurnStart, SendOp, ShutdownAgent, WaitTerminated, RemoveAgent,
       ForgetResidency, ReleaseSpawned, Goto, Finish
<1>6. QED
  BY <1>1, <1>2, <1>3, <1>4, <1>5 DEF CallStep

\* The slots that are handed out and given back are the call's.
LEMMA SlotAccount ==
    ASSUME Shapes, NEW c \in Calls, Request(c) \/ CallStep(c)
    PROVE  \/ pending_slots' = pending_slots /\ call'[c].slot = call[c].slot
           \/ pending_slots' = pending_slots + 1 /\ call[c].slot = 0 /\ call'[c].slot = 1
           \/ pending_slots' = pending_slots - call[c].slot /\ call'[c].slot = 0
<1> DEFINE Goal == \/ pending_slots' = pending_slots /\ call'[c].slot = call[c].slot
                   \/ pending_slots' = pending_slots + 1 /\ call[c].slot = 0 /\ call'[c].slot = 1
                   \/ pending_slots' = pending_slots - call[c].slot /\ call'[c].slot = 0
<1>0. /\ call \in [Calls -> CallType] /\ call[c] \in CallType /\ Shape(version, call[c])
      /\ Done.slot = 0 /\ Idle.slot = 0 /\ call[c].slot \in {0, 1}
  BY DEF Shapes, Types, Done, Idle, CallType
<1>s. call[c].pc \notin {"reserve", "prepare", "create", "load", "insert", "recheck", "commit"}
        \/ version = "V1" => call[c].slot = 0
  BY <1>0 DEF Shape
<1>b. ASSUME NEW op, NEW t, NEW path, NEW pc, Begin(c, op, t, path, pc) PROVE Goal
  <2>1. call[c].slot = 0
    BY <1>b, <1>s DEF Begin, At
  <2>2. call'[c].slot = 0
    BY <1>0, <1>b DEF Begin, Idle
  <2>3. pending_slots' = pending_slots
    BY <1>b DEF Begin, residency
  <2>4. QED
    BY <2>1, <2>2, <2>3
<1>g. ASSUME NEW pc, Goto(c, pc), pending_slots' = pending_slots PROVE Goal
  BY <1>0, <1>g DEF Goto, CallType
<1>f. ASSUME Finish(c), pending_slots' = pending_slots, call[c].slot = 0 PROVE Goal
  BY <1>0, <1>f DEF Finish
<1>e. ASSUME Fail(c) PROVE Goal
  BY <1>0, <1>e DEF Fail, Finish
<1>1. CASE Request(c)
  BY <1>1, <1>b DEF Request, Spawn, Message, SendInput, Interrupt, Close, Resume
<1>2. CASE ReserveSlot(c) \/ PopCandidate(c) \/ StopCandidate(c) \/ UnloadCandidate(c)
  BY <1>0, <1>2, <1>s DEF ReserveSlot, PopCandidate, StopCandidate, UnloadCandidate, At, residency,
       CallType
<1>3. CASE CheckCapacity(c) \/ NoCandidate(c) \/ InspectCandidate(c) \/ AwaitCandidate(c)
             \/ LookupAgent(c) \/ LoadThread(c)
  BY <1>3, <1>s, <1>f, <1>g DEF CheckCapacity, NoCandidate, InspectCandidate, AwaitCandidate,
       LookupAgent, LoadThread, At, residency
<1>4. CASE ReserveSpawn(c)
  <2>1. pending_slots' = pending_slots /\ call[c].pc = "reserve"
    BY <1>4 DEF ReserveSpawn, residency, At
  <2>2. CASE version = "V2" \/ total_count < Capacity
    BY <1>0, <1>4, <2>1, <2>2 DEF ReserveSpawn, CallType
  <2>3. CASE ~(version = "V2" \/ total_count < Capacity)
    <3>1. Finish(c) /\ call[c].slot = 0
      BY <1>0, <1>4, <2>3 DEF ReserveSpawn, Shape
    <3>2. QED
      BY <1>f, <2>1, <3>1
  <2>4. QED
    BY <2>2, <2>3
<1>5. CASE Prepare(c)
  <2>1. \/ pending_slots' = pending_slots /\ \E pc : Goto(c, pc)
        \/ pending_slots' = pending_slots /\ \E pc : call' = [call EXCEPT ![c].held = 1, ![c].pc = pc]
        \/ Fail(c)
    BY <1>5 DEF Prepare, residency
  <2>2. ASSUME NEW pc, call' = [call EXCEPT ![c].held = 1, ![c].pc = pc]
        PROVE  call'[c].slot = call[c].slot
    BY <1>0, <2>2 DEF CallType
  <2>3. QED
    BY <1>e, <1>g, <2>1, <2>2
<1>6. CASE CreateThread(c)
  <2>1. \/ pending_slots' = pending_slots
           /\ \E t : call' = [call EXCEPT ![c].t = t, ![c].pc = "commit"]
        \/ Fail(c)
    BY <1>6 DEF CreateThread, residency
  <2>2. ASSUME NEW t, call' = [call EXCEPT ![c].t = t, ![c].pc = "commit"]
        PROVE  call'[c].slot = call[c].slot
    BY <1>0, <2>2 DEF CallType
  <2>3. QED
    BY <1>e, <2>1, <2>2
<1>7. CASE InsertThread(c)
  BY <1>7, <1>e, <1>g DEF InsertThread, residency
<1>8. CASE Recheck(c)
  <2>1. CASE Fail(c)
    BY <2>1, <1>e
  <2>2. CASE ~Fail(c)
    BY <1>0, <1>8, <2>2 DEF Recheck, CallType
  <2>3. QED
    BY <2>1, <2>2
<1>9. CASE Commit(c)
  <2>1. pending_slots' = pending_slots - call[c].slot
    BY <1>9 DEF Commit
  <2>2. call'[c].slot = 0
    <3>1. \/ call' = [call EXCEPT ![c] = Done]
          \/ \E pc : call' = [call EXCEPT ![c] =
               [call[c] EXCEPT !.resv = 0, !.held = 0, !.slot = 0, !.path = NoPath, !.pc = pc]]
      BY <1>9 DEF Commit
    <3>2. QED
      BY <1>0, <3>1 DEF CallType
  <2>3. QED
    BY <2>1, <2>2
<1>10. CASE CheckTurnStart(c) \/ SendOp(c) \/ WaitTerminated(c) \/ RemoveAgent(c)
             \/ ForgetResidency(c) \/ ReleaseSpawned(c)
  BY <1>10, <1>s, <1>f, <1>g DEF CheckTurnStart, SendOp, WaitTerminated, RemoveAgent,
       ForgetResidency, ReleaseSpawned, At, residency
<1>11. CASE ShutdownAgent(c)
  <2>1. pending_slots' = pending_slots /\ call[c].slot = 0
    BY <1>11, <1>s DEF ShutdownAgent, residency, At
  <2>2. \/ Finish(c)
        \/ \E g, pc : call' = [call EXCEPT ![c].g = g, ![c].pc = pc]
    BY <1>11 DEF ShutdownAgent
  <2>3. ASSUME NEW g, NEW pc, call' = [call EXCEPT ![c].g = g, ![c].pc = pc]
        PROVE  call'[c].slot = call[c].slot
    BY <1>0, <2>3 DEF CallType
  <2>4. QED
    BY <1>f, <2>1, <2>2, <2>3
<1>12. QED
  BY <1>1, <1>2, <1>3, <1>4, <1>5, <1>6, <1>7, <1>8, <1>9, <1>10, <1>11 DEF CallStep

SlotInv == pending_slots = Cardinality(SlotHolders)

\* Every step keeps one pending slot for each call that holds one.
LEMMA StepSlotInv == Shapes /\ SlotInv /\ [Next]_vars => SlotInv'
<1> SUFFICES ASSUME Shapes, SlotInv, [Next]_vars PROVE SlotInv'
  OBVIOUS
<1>1. ASSUME NEW c \in Calls, Request(c) \/ CallStep(c) PROVE SlotInv'
  <2>1. SlotHolders' \ {c} = SlotHolders \ {c}
    BY <1>1, OtherCalls DEF SlotHolders
  <2>2. IsFiniteSet(SlotHolders)
    BY CallsAssumption, FS_Subset DEF SlotHolders
  <2> DEFINE S == SlotHolders
             T == SlotHolders'
  <2>3. (c \in S <=> call[c].slot = 1) /\ (c \in T <=> call'[c].slot = 1)
    BY DEF SlotHolders
  <2>z. call[c].slot \in {0, 1}
    BY DEF Shapes, Types, CallType
  <2>4. /\ Cardinality(S) \in Nat
        /\ ((c \in S /\ c \in T) \/ (c \notin S /\ c \notin T)) => Cardinality(T) = Cardinality(S)
        /\ c \in T /\ c \notin S => Cardinality(T) = Cardinality(S) + 1
        /\ c \notin T /\ c \in S => Cardinality(T) = Cardinality(S) - 1
    <3> HIDE DEF S, T
    <3>1. IsFiniteSet(S) /\ T \ {c} = S \ {c}
      BY <2>1, <2>2 DEF S, T
    <3>2. QED
      BY <3>1, CountOne
  <2>5. pending_slots = Cardinality(S)
    BY DEF SlotInv
  <2>6. pending_slots' = Cardinality(T)
    <3> HIDE DEF S, T
    <3>0. (c \in S <=> call[c].slot = 1) /\ (c \in T <=> call'[c].slot = 1) /\ call[c].slot \in {0, 1}
      BY <2>3, <2>z
    <3>1. CASE pending_slots' = pending_slots /\ call'[c].slot = call[c].slot
      BY <2>4, <2>5, <3>0, <3>1
    <3>2. CASE pending_slots' = pending_slots + 1 /\ call[c].slot = 0 /\ call'[c].slot = 1
      BY <2>4, <2>5, <3>0, <3>2
    <3>3. CASE pending_slots' = pending_slots - call[c].slot /\ call'[c].slot = 0
      BY <2>4, <2>5, <3>0, <3>3
    <3>4. QED
      BY <1>1, <3>1, <3>2, <3>3, SlotAccount
  <2>7. QED
    BY <2>6 DEF SlotInv
<1>2. ASSUME NEW t \in Threads, ThreadStep(t) \/ RootEnds PROVE SlotInv'
  BY <1>2, ThreadKeepsTypes DEF Shapes, SlotInv, SlotHolders
<1>3. CASE UNCHANGED vars
  BY <1>3 DEF SlotInv, SlotHolders, vars, residency
<1>4. QED
  BY <1>1, <1>2, <1>3, Names DEF Next

-----------------------------------------------------------------------------
(***************************************************************************)
(* The waiting calls.  A call remembers the generation of the thread it    *)
(* waits for; generations only grow, and within one a thread that has      *)
(* ended stays so and a shutdown that was submitted is not lost.           *)
(***************************************************************************)
Subs == {"trigger", "mail", "interrupt", "shutdown"}

\* A shutdown is queued in q.
Told(q) == \E i \in 1 .. Len(q) : q[i] = "shutdown"

\* The loop of a thread in state s runs.
Alive(s) == s \in {"new", "idle", "busy"}

\* What every step does to thread t.
Advances(t) ==
    /\ gen'[t] >= gen[t]
    /\ gen'[t] = gen[t] => /\ ~Alive(loop[t]) => ~Alive(loop'[t])
                           /\ Told(queue[t]) => ~Alive(loop'[t]) \/ Told(queue'[t])

\* A submission is added behind the others, and the first is taken.
LEMMA QueueKeepsShutdown ==
    ASSUME NEW q \in Seq(Subs), NEW sub \in Subs
    PROVE  /\ Told(q) => Told(Append(q, sub))
           /\ Told(Append(q, "shutdown"))
           /\ q # << >> /\ Head(q) # "shutdown" /\ Told(q) => Told(Tail(q))
           /\ (\E i \in DOMAIN q : q[i] = "shutdown") <=> Told(q)
<1>1. ASSUME NEW x \in Subs
      PROVE  /\ Len(Append(q, x)) = Len(q) + 1 /\ Len(q) \in Nat
             /\ \A i \in 1 .. Len(q) : Append(q, x)[i] = q[i]
             /\ Append(q, x)[Len(q) + 1] = x
  OBVIOUS
<1>2. ASSUME Told(q) PROVE Told(Append(q, sub))
  <2>1. PICK i \in 1 .. Len(q) : q[i] = "shutdown"
    BY <1>2 DEF Told
  <2>2. i \in 1 .. Len(Append(q, sub)) /\ Append(q, sub)[i] = "shutdown"
    BY <1>1, <2>1
  <2>3. QED
    BY <2>2 DEF Told
<1>3. Told(Append(q, "shutdown"))
  <2>1. "shutdown" \in Subs
    BY DEF Subs
  <2>2. Len(q) + 1 \in 1 .. Len(Append(q, "shutdown"))
    BY <1>1, <2>1
  <2>3. QED
    BY <1>1, <2>1, <2>2 DEF Told
<1>4. ASSUME q # << >>, Head(q) # "shutdown", Told(q) PROVE Told(Tail(q))
  <2>1. PICK i \in 1 .. Len(q) : q[i] = "shutdown"
    BY <1>4 DEF Told
  <2>2. /\ Len(Tail(q)) = Len(q) - 1 /\ Len(q) \in Nat /\ Head(q) = q[1]
        /\ \A j \in 1 .. Len(Tail(q)) : Tail(q)[j] = q[j + 1]
    BY <1>4, HeadTailProperties
  <2>3. i # 1
    BY <1>4, <2>1, <2>2
  <2>4. i - 1 \in 1 .. Len(Tail(q)) /\ (i - 1) + 1 = i
    BY <2>1, <2>2, <2>3
  <2>5. Tail(q)[i - 1] = "shutdown"
    BY <2>1, <2>2, <2>4
  <2>6. QED
    BY <2>4, <2>5 DEF Told
<1>5. (\E i \in DOMAIN q : q[i] = "shutdown") <=> Told(q)
  BY LenProperties DEF Told
<1>6. QED
  BY <1>2, <1>3, <1>4, <1>5

\* Nothing happens to a thread that is left alone.
LEMMA StillAdvances ==
    ASSUME Types, UNCHANGED <<loop, gen, queue>>, NEW t \in Threads
    PROVE  Advances(t)
  BY DEF Advances, Types, Alive

\* Removing a thread ends it.
LEMMA RemoveAdvances ==
    ASSUME Types, NEW u \in Threads, RemoveThread(u), NEW t \in Threads
    PROVE  Advances(t)
<1>1. gen' = gen /\ gen[t] \in Nat
  BY DEF RemoveThread, Types
<1>2. CASE t = u
  BY <1>1, <1>2 DEF RemoveThread, Types, Advances, Alive
<1>3. CASE t # u
  <2>1. loop'[t] = loop[t] /\ queue'[t] = queue[t]
    BY <1>3 DEF RemoveThread, Types
  <2>2. QED
    BY <1>1, <2>1 DEF Advances, Alive
<1>4. QED
  BY <1>2, <1>3

\* A submission goes behind the others, and a shutdown reaches a running thread.
LEMMA SubmitAdvances ==
    ASSUME Types, NEW u \in Threads, NEW sub \in Subs, Submit(u, sub), UNCHANGED <<loop, gen>>,
           NEW t \in Threads
    PROVE  /\ Advances(t)
           /\ sub = "shutdown" => ~Alive(loop'[u]) \/ Told(queue'[u])
<1>1. /\ queue \in [Threads -> Seq(Subs)] /\ gen[t] \in Nat /\ queue[u] \in Seq(Subs)
      /\ loop'[t] = loop[t] /\ loop'[u] = loop[u]
  BY DEF Types, Subs
<1>2. CASE ~Alive(loop[u])
  <2>1. queue' = queue
    BY <1>2 DEF Submit, Running, Alive
  <2>2. QED
    BY <1>1, <1>2, <2>1 DEF Advances
<1>3. CASE Alive(loop[u])
  <2>1. queue' = [queue EXCEPT ![u] = Append(queue[u], sub)]
    BY <1>3 DEF Submit, Running, Alive
  <2>2. queue'[u] = Append(queue[u], sub) /\ (t # u => queue'[t] = queue[t])
    BY <1>1, <2>1
  <2>3. (Told(queue[u]) => Told(queue'[u])) /\ (sub = "shutdown" => Told(queue'[u]))
    BY <1>1, <2>2, QueueKeepsShutdown
  <2>4. Told(queue[t]) => Told(queue'[t])
    BY <2>2, <2>3
  <2>5. gen'[t] = gen[t] /\ gen'[t] >= gen[t]
    BY <1>1
  <2>6. Advances(t)
    BY <1>1, <2>4, <2>5 DEF Advances
  <2>7. QED
    BY <2>3, <2>6
<1>4. QED
  BY <1>2, <1>3

\* A thread that is created or reloaded is of a new generation.
LEMMA NewAdvances ==
    ASSUME Types, NEW u \in Threads, NEW n \in Nat, n > gen[u], gen' = [gen EXCEPT ![u] = n],
           loop' = [loop EXCEPT ![u] = "new"], queue' = queue, NEW t \in Threads
    PROVE  Advances(t)
<1>1. gen[t] \in Nat /\ gen[u] \in Nat
  BY DEF Types
<1>2. CASE t = u
  BY <1>1, <1>2 DEF Types, Advances
<1>3. CASE t # u
  <2>1. gen'[t] = gen[t] /\ loop'[t] = loop[t]
    BY <1>3 DEF Types
  <2>2. QED
    BY <1>1, <2>1 DEF Advances, Alive
<1>4. QED
  BY <1>2, <1>3

\* The threads' own steps: a thread that takes a shutdown ends.
LEMMA ThreadAdvances ==
    ASSUME Types, NEW u \in Threads, ThreadStep(u) \/ RootEnds, NEW t \in Threads
    PROVE  Advances(t)
<1>0. /\ queue \in [Threads -> Seq(Subs)] /\ gen[t] \in Nat /\ queue[u] \in Seq(Subs)
      /\ queue[t] \in Seq(Subs) /\ gen' = gen /\ Root \in Threads /\ "shutdown" \in Subs
  BY ThreadKeepsTypes, Names DEF Types, Subs
<1>1. CASE HandleSubmission(u)
  <2>1. CASE t # u
    <3>1. loop'[t] = loop[t] /\ queue'[t] = queue[t]
      BY <1>0, <1>1, <2>1 DEF HandleSubmission, Types
    <3>2. QED
      BY <1>0, <3>1 DEF Advances, Alive
  <2>2. CASE t = u /\ Head(queue[u]) = "shutdown"
    <3>1. loop'[t] = "dead"
      BY <1>1, <2>2 DEF HandleSubmission, Types
    <3>2. QED
      BY <1>0, <3>1 DEF Advances, Alive
  <2>3. CASE t = u /\ Head(queue[u]) # "shutdown"
    <3>1. queue'[t] = Tail(queue[t]) /\ queue[t] # << >> /\ Alive(loop[t])
      BY <1>0, <1>1, <2>3 DEF HandleSubmission, Running, Alive
    <3>2. Told(queue[t]) => Told(Tail(queue[t]))
      BY <1>0, <2>3, <3>1, QueueKeepsShutdown
    <3>3. QED
      BY <1>0, <3>1, <3>2 DEF Advances
  <2>4. QED
    BY <2>1, <2>2, <2>3
<1>2. CASE TurnEnds(u)
  <2>1. queue' = queue /\ (Alive(loop[t]) \/ loop'[t] = loop[t])
    BY <1>2 DEF TurnEnds, Types, Alive
  <2>2. QED
    BY <1>0, <2>1 DEF Advances, Alive
<1>3. CASE RootEnds
  <2>1. CASE t = Root
    BY <1>0, <1>3, <2>1 DEF RootEnds, Advances, Alive, Types
  <2>2. CASE t # Root
    <3>1. loop'[t] = loop[t] /\ queue'[t] = queue[t]
      BY <1>0, <1>3, <2>2 DEF RootEnds, Types
    <3>2. QED
      BY <1>0, <3>1 DEF Advances, Alive
  <2>3. QED
    BY <2>1, <2>2
<1>4. QED
  BY <1>1, <1>2, <1>3 DEF ThreadStep

\* A call that waits for a thread, and the thread.
Waits(r) == r.pc \in {"await", "wait"}
Awaited(r) == IF r.pc = "await" THEN r.cand ELSE r.t

\* Every step of a call: no thread goes back, and only a call that has just told the
\* thread of its generation to shut down begins to wait.
LEMMA CallAdvances ==
    ASSUME Shapes, NEW c \in Calls, Request(c) \/ CallStep(c)
    PROVE  /\ \A t \in Threads : Advances(t)
           /\ Waits(call'[c]) =>
                LET t == Awaited(call'[c])
                IN t \in Threads /\ call'[c].g = gen'[t] /\ (~Alive(loop'[t]) \/ Told(queue'[t]))
<1>0. /\ call \in [Calls -> CallType] /\ call[c] \in CallType /\ Shape(version, call[c]) /\ Types
      /\ ~Waits(Done)
  BY DEF Shapes, Types, Waits, Done, Idle
<1>u. ASSUME UNCHANGED manager PROVE \A t \in Threads : Advances(t)
  BY <1>0, <1>u, StillAdvances DEF manager
<1>r. ASSUME NEW u \in Threads, RemoveThread(u) PROVE \A t \in Threads : Advances(t)
  BY <1>0, <1>r, RemoveAdvances
<1>s. ASSUME NEW u \in Threads, NEW sub \in Subs, Submit(u, sub), UNCHANGED <<loop, gen>>
      PROVE  \A t \in Threads : Advances(t)
  BY <1>0, <1>s, SubmitAdvances
<1>g. ASSUME NEW pc, Goto(c, pc), pc \notin {"await", "wait"} PROVE ~Waits(call'[c])
  BY <1>0, <1>g DEF Goto, CallType, Waits
<1>f. ASSUME Finish(c) PROVE ~Waits(call'[c])
  BY <1>0, <1>f DEF Finish
<1>e. ASSUME Fail(c) PROVE ~Waits(call'[c]) /\ UNCHANGED manager
  BY <1>f, <1>e DEF Fail
<1>b. ASSUME NEW op, NEW t, NEW path, NEW pc, Begin(c, op, t, path, pc), pc \notin {"await", "wait"}
      PROVE  ~Waits(call'[c]) /\ UNCHANGED manager
  BY <1>0, <1>b DEF Begin, Idle, Waits
<1>1. CASE Request(c)
  BY <1>1, <1>b, <1>u DEF Request, Spawn, Message, SendInput, Interrupt, Close, Resume
<1>2. CASE CheckCapacity(c) \/ NoCandidate(c) \/ InspectCandidate(c) \/ AwaitCandidate(c)
             \/ LookupAgent(c) \/ CheckTurnStart(c) \/ WaitTerminated(c) \/ ForgetResidency(c)
             \/ ReleaseSpawned(c)
  BY <1>2, <1>f, <1>g, <1>u DEF CheckCapacity, NoCandidate, InspectCandidate, AwaitCandidate,
       LookupAgent, CheckTurnStart, WaitTerminated, ForgetResidency, ReleaseSpawned
<1>3. CASE ReserveSlot(c) \/ PopCandidate(c) \/ ReserveSpawn(c)
  <2>1. UNCHANGED manager
    BY <1>3 DEF ReserveSlot, PopCandidate, ReserveSpawn
  <2>2. ASSUME ReserveSlot(c) PROVE ~Waits(call'[c])
    BY <1>0, <2>2 DEF ReserveSlot, CallType, Waits
  <2>3. ASSUME PopCandidate(c) PROVE ~Waits(call'[c])
    BY <1>0, <2>3 DEF PopCandidate, CallType, Waits
  <2>4. ASSUME ReserveSpawn(c) PROVE ~Waits(call'[c])
    <3>1. call' = [call EXCEPT ![c].resv = 1, ![c].pc = "prepare"] \/ Finish(c)
      BY <2>4 DEF ReserveSpawn
    <3>2. QED
      BY <1>0, <1>f, <3>1 DEF CallType, Waits
  <2>5. QED
    BY <1>3, <1>u, <2>1, <2>2, <2>3, <2>4
<1>4. CASE Prepare(c)
  <2>1. UNCHANGED manager
    BY <1>4, <1>e DEF Prepare
  <2>2. \/ \E pc : /\ pc \notin {"await", "wait"}
                   /\ Goto(c, pc) \/ call' = [call EXCEPT ![c].held = 1, ![c].pc = pc]
        \/ Fail(c)
    BY <1>4 DEF Prepare
  <2>3. ASSUME NEW pc, pc \notin {"await", "wait"}, call' = [call EXCEPT ![c].held = 1, ![c].pc = pc]
        PROVE  ~Waits(call'[c])
    BY <1>0, <2>3 DEF CallType, Waits
  <2>4. QED
    BY <1>u, <1>e, <1>g, <2>1, <2>2, <2>3
<1>5. CASE CreateThread(c)
  <2>1. CASE Fail(c)
    BY <1>e, <1>u, <2>1
  <2>2. CASE ~Fail(c)
    <3>1. PICK t \in SubAgents :
            /\ gen[t] = 0 /\ loop' = [loop EXCEPT ![t] = "new"] /\ gen' = [gen EXCEPT ![t] = 1]
            /\ call' = [call EXCEPT ![c].t = t, ![c].pc = "commit"] /\ queue' = queue
      BY <1>5, <2>2 DEF CreateThread
    <3>2. ~Waits(call'[c])
      BY <1>0, <3>1 DEF CallType, Waits
    <3>3. t \in Threads /\ 1 \in Nat /\ 1 > gen[t]
      BY <3>1, Names
    <3>4. QED
      BY <1>0, <3>1, <3>2, <3>3, NewAdvances
  <2>3. QED
    BY <2>1, <2>2
<1>6. CASE InsertThread(c)
  <2>0. call[c].t \in Threads
    BY <1>0, <1>6 DEF InsertThread, At, Shape, TargetPcs
  <2>1. CASE Fail(c)
    BY <1>e, <1>u, <2>1
  <2>2. CASE Goto(c, "recheck") /\ UNCHANGED manager
    BY <1>g, <1>u, <2>2
  <2>3. CASE /\ loop' = [loop EXCEPT ![call[c].t] = "new"]
             /\ gen' = [gen EXCEPT ![call[c].t] = gen[call[c].t] + 1]
             /\ Goto(c, "commit") /\ queue' = queue
    <3> DEFINE n == gen[call[c].t] + 1
    <3>1. n \in Nat /\ n > gen[call[c].t]
      BY <1>0, <2>0 DEF Types
    <3> HIDE DEF n
    <3>2. gen' = [gen EXCEPT ![call[c].t] = n]
      BY <2>3 DEF n
    <3>3. \A t \in Threads : Advances(t)
      BY <1>0, <2>0, <2>3, <3>1, <3>2, NewAdvances
    <3>4. QED
      BY <1>g, <2>3, <3>3
  <2>4. QED
    BY <1>6, <2>1, <2>2, <2>3 DEF InsertThread
<1>7. CASE Recheck(c)
  <2>1. CASE Fail(c)
    BY <1>e, <1>u, <2>1
  <2>2. CASE ~Fail(c)
    <3>1. call' = [call EXCEPT ![c].slot = 0, ![c].pc = "capacity"] /\ UNCHANGED manager
      BY <1>7, <2>2 DEF Recheck
    <3>2. ~Waits(call'[c])
      BY <1>0, <3>1 DEF CallType, Waits
    <3>3. QED
      BY <1>u, <3>1, <3>2
  <2>3. QED
    BY <2>1, <2>2
<1>8. CASE Commit(c)
  <2>1. UNCHANGED manager
    BY <1>8 DEF Commit
  <2>2. \/ call' = [call EXCEPT ![c] = Done]
        \/ \E pc \in {"send", "capacity"} : call' = [call EXCEPT ![c] =
             [call[c] EXCEPT !.resv = 0, !.held = 0, !.slot = 0, !.path = NoPath, !.pc = pc]]
    <3>1. CASE call[c].op = "resume"
      BY <1>8, <3>1 DEF Commit
    <3>2. CASE call[c].op = "spawn"
      BY <1>8, <3>2 DEF Commit
    <3>3. CASE call[c].op # "spawn" /\ call[c].op # "resume"
      BY <1>8, <3>3 DEF Commit
    <3>4. QED
      BY <3>1, <3>2, <3>3
  <2>3. ~Waits(call'[c])
    BY ZenonT(60), <1>0, <2>2 DEF CallType, Waits
  <2>4. QED
    BY <1>u, <2>1, <2>3
<1>9. CASE LoadThread(c) \/ RemoveAgent(c)
  <2>1. call[c].t \in Threads
    BY <1>0, <1>9 DEF LoadThread, RemoveAgent, At, Shape, TargetPcs
  <2>2. /\ UNCHANGED manager \/ RemoveThread(call[c].t)
        /\ Goto(c, "commit") \/ Goto(c, "insert") \/ Goto(c, "forget")
    BY <1>9 DEF LoadThread, RemoveAgent
  <2>3. QED
    BY <1>g, <1>r, <1>u, <2>1, <2>2
<1>10. CASE UnloadCandidate(c)
  <2>1. call[c].cand \in Threads /\ RemoveThread(call[c].cand)
    BY <1>0, <1>10 DEF UnloadCandidate, At, Shape
  <2>2. call' = [call EXCEPT ![c].pc = "slot", ![c].cand = NoThread, ![c].scan = 0, ![c].g = 0]
    BY <1>10 DEF UnloadCandidate
  <2>3. ~Waits(call'[c])
    BY <1>0, <2>2 DEF CallType, Waits
  <2>4. QED
    BY <1>r, <2>1, <2>3
<1>11. CASE SendOp(c)
  <2>1. /\ call[c].t \in Threads /\ UNCHANGED <<loop, gen>>
        /\ \E sub \in Subs : Submit(call[c].t, sub)
    BY <1>0, <1>11 DEF SendOp, At, Shape, TargetPcs, Submission, Subs
  <2>2. Goto(c, "remove") \/ Finish(c)
    BY <1>11 DEF SendOp
  <2>3. QED
    BY <1>f, <1>g, <1>s, <2>1, <2>2
<1>12. CASE StopCandidate(c)
  <2> DEFINE u == call[c].cand
             n == gen[u]
  <2>1. /\ u \in Threads /\ "shutdown" \in Subs /\ Submit(u, "shutdown")
        /\ UNCHANGED <<loop, gen>>
    BY <1>0, <1>12 DEF StopCandidate, At, Shape, Subs
  <2>2. call' = [call EXCEPT ![c].pc = "await", ![c].g = n]
    BY <1>12 DEF StopCandidate
  <2> HIDE DEF n
  <2>3. call'[c].pc = "await" /\ call'[c].cand = u /\ call'[c].g = n
    BY <1>0, <2>2 DEF CallType
  <2> HIDE DEF u
  <2>4. Awaited(call'[c]) = u /\ call'[c].g = gen'[u]
    BY <2>1, <2>3 DEF Awaited, n
  <2>5. (\A t \in Threads : Advances(t)) /\ (~Alive(loop'[u]) \/ Told(queue'[u]))
    BY <1>0, <1>s, <2>1, SubmitAdvances
  <2>6. QED
    BY <2>1, <2>4, <2>5
<1>13. CASE ShutdownAgent(c)
  <2> DEFINE u == call[c].t
             n == gen[u]
  <2>0. u \in Threads /\ "shutdown" \in Subs /\ UNCHANGED <<loop, gen>>
    BY <1>0, <1>13 DEF ShutdownAgent, At, Shape, TargetPcs, Subs
  <2>1. CASE Finish(c) /\ UNCHANGED queue
    <3>1. \A t \in Threads : Advances(t)
      BY <1>0, <2>0, <2>1, StillAdvances
    <3>2. QED
      BY <1>f, <2>1, <3>1
  <2>2. CASE Submit(u, "shutdown") /\ \E pc \in {"wait", "remove"} :
               call' = [call EXCEPT ![c].g = n, ![c].pc = pc]
    <3>1. PICK pc \in {"wait", "remove"} : call' = [call EXCEPT ![c].g = n, ![c].pc = pc]
      BY <2>2
    <3> HIDE DEF n
    <3>2. call'[c].pc = pc /\ call'[c].t = u /\ call'[c].g = n
      BY <1>0, <3>1 DEF CallType
    <3> HIDE DEF u
    <3>3. Awaited(call'[c]) = u /\ call'[c].g = gen'[u]
      BY <2>0, <3>2 DEF Awaited, n
    <3>4. (\A t \in Threads : Advances(t)) /\ (~Alive(loop'[u]) \/ Told(queue'[u]))
      BY <1>0, <1>s, <2>0, <2>2, SubmitAdvances
    <3>5. QED
      BY <2>0, <3>3, <3>4
  <2>3. QED
    BY <1>13, <2>1, <2>2 DEF ShutdownAgent
<1>14. QED
  BY <1>1, <1>2, <1>3, <1>4, <1>5, <1>6, <1>7, <1>8, <1>9, <1>10, <1>11, <1>12, <1>13 DEF CallStep

\* A waiting call knows no generation that is still to come, and what it waits for
\* has happened or is queued.
WaitOK(r) ==
    LET t == Awaited(r)
    IN Waits(r) => /\ t \in Threads /\ r.g <= gen[t]
                   /\ gen[t] # r.g \/ ~Alive(loop[t]) \/ Told(queue[t])
WaitInv == \A c \in Calls : WaitOK(call[c])

\* A call that does not move goes on waiting for the same.
LEMMA StillWaits ==
    ASSUME Types, \A t \in Threads : Advances(t) /\ gen'[t] \in Nat,
           NEW c \in Calls, WaitOK(call[c]), call'[c] = call[c]
    PROVE  WaitOK(call[c])'
<1> DEFINE t == Awaited(call[c])
<1>1. SUFFICES ASSUME Waits(call[c])
               PROVE  /\ t \in Threads /\ call[c].g <= gen'[t]
                      /\ gen'[t] # call[c].g \/ ~Alive(loop'[t]) \/ Told(queue'[t])
  BY DEF WaitOK, Waits, Awaited, Alive
<1>2. /\ t \in Threads /\ call[c].g <= gen[t]
      /\ gen[t] # call[c].g \/ ~Alive(loop[t]) \/ Told(queue[t])
  BY <1>1 DEF WaitOK
<1>3. gen[t] \in Nat /\ gen'[t] \in Nat /\ call[c].g \in Nat /\ Advances(t)
  BY <1>2 DEF Types, CallType
<1> HIDE DEF t
<1>4. CASE gen'[t] # gen[t]
  BY <1>2, <1>3, <1>4 DEF Advances
<1>5. CASE gen'[t] = gen[t]
  BY <1>2, <1>3, <1>5 DEF Advances
<1>6. QED
  BY <1>4, <1>5

\* Every step keeps it.
LEMMA StepWaitInv == Shapes /\ WaitInv /\ [Next]_vars => WaitInv'
<1> SUFFICES ASSUME Shapes, WaitInv, [Next]_vars PROVE WaitInv'
  OBVIOUS
<1>0. Types /\ Shapes' /\ \A t \in Threads : gen'[t] \in Nat
  BY StepShapes DEF Shapes, Types
<1>1. ASSUME NEW c \in Calls, Request(c) \/ CallStep(c) PROVE WaitInv'
  <2>1. \A t \in Threads : Advances(t)
    BY <1>1, CallAdvances
  <2>2. ASSUME NEW d \in Calls \ {c} PROVE WaitOK(call[d])'
    <3>1. call'[d] = call[d] /\ WaitOK(call[d])
      BY <1>1, OtherCalls DEF WaitInv
    <3>2. QED
      BY <1>0, <2>1, <3>1, StillWaits
  <2>3. WaitOK(call[c])'
    <3>1. SUFFICES ASSUME Waits(call'[c])
                   PROVE  LET t == Awaited(call'[c])
                          IN /\ t \in Threads /\ call'[c].g <= gen'[t]
                             /\ gen'[t] # call'[c].g \/ ~Alive(loop'[t]) \/ Told(queue'[t])
      BY DEF WaitOK, Waits, Awaited
    <3>2. LET t == Awaited(call'[c])
          IN t \in Threads /\ call'[c].g = gen'[t] /\ (~Alive(loop'[t]) \/ Told(queue'[t]))
      BY <1>1, <3>1, CallAdvances
    <3>3. QED
      BY <1>0, <3>2
  <2>4. QED
    BY <2>2, <2>3 DEF WaitInv
<1>2. ASSUME NEW u \in Threads, ThreadStep(u) \/ RootEnds PROVE WaitInv'
  <2>1. call' = call /\ \A t \in Threads : Advances(t)
    BY <1>0, <1>2, ThreadKeepsTypes, ThreadAdvances
  <2>2. ASSUME NEW d \in Calls PROVE WaitOK(call[d])'
    BY <1>0, <2>1, StillWaits DEF WaitInv
  <2>3. QED
    BY <2>2 DEF WaitInv
<1>3. CASE UNCHANGED vars
  BY <1>3 DEF WaitInv, WaitOK, Waits, Awaited, Alive, vars, manager
<1>4. QED
  BY <1>1, <1>2, <1>3, Names DEF Next

-----------------------------------------------------------------------------
(***************************************************************************)
(* The registry.  What a step of a call does to it is one of eight things. *)
(***************************************************************************)
\* About to register the thread it has.
Committing(r) == r.pc = "commit" /\ r.resv = 1

\* The registry is left alone.
Stays(c) ==
    /\ UNCHANGED <<agent_tree, total_count>>
    /\ call[c].held = 0 /\ call'[c].held = 0 /\ call'[c].resv = call[c].resv
    /\ version = "V2" => ~Committing(call'[c])

\* A reservation is counted.
Counts(c) ==
    /\ agent_tree' = agent_tree /\ total_count' = total_count + 1
    /\ version = "V1" => total_count < Capacity
    /\ call[c].held = 0 /\ call'[c].held = 0 /\ call[c].resv = 0 /\ call'[c].resv = 1
    /\ ~Committing(call'[c])

\* The call gives up what it holds.
GivesUp(c) ==
    /\ agent_tree' = [k \in Keys |->
           IF k = call[c].path /\ call[c].held = 1 /\ agent_tree[k] = Reserved
           THEN Vacant ELSE agent_tree[k]]
    /\ total_count' = total_count - call[c].resv
    /\ call'[c].held = 0 /\ call'[c].resv = 0 /\ ~Committing(call'[c])

\* The root is registered.
NotesRoot(c) ==
    /\ agent_tree' = RegisterRoot(agent_tree) /\ total_count' = total_count
    /\ call[c].held = 0 /\ call'[c].held = 0 /\ call'[c].resv = call[c].resv
    /\ ~Committing(call'[c])

\* A path is reserved.
TakesPath(c) ==
    /\ call[c].path \in Paths /\ agent_tree[call[c].path] = Vacant /\ version = "V2"
    /\ \E tree \in {agent_tree, RegisterRoot(agent_tree)} :
           agent_tree' = [tree EXCEPT ![call[c].path] = Reserved]
    /\ total_count' = total_count
    /\ call[c].held = 0 /\ call'[c].held = 1 /\ call'[c].path = call[c].path
    /\ call'[c].resv = call[c].resv
    /\ ~Committing(call'[c])

\* A thread is created that never was.
Creates(c) ==
    /\ UNCHANGED <<agent_tree, total_count>>
    /\ call'[c].held = call[c].held /\ call'[c].path = call[c].path
    /\ call'[c].resv = call[c].resv
    /\ call'[c].t \in SubAgents /\ gen[call'[c].t] = 0 /\ gen'[call'[c].t] = 1

\* The thread is registered.
Registers(c) ==
    /\ Committing(call[c])
    /\ agent_tree' = [agent_tree EXCEPT
           ![IF call[c].path = NoPath THEN call[c].t ELSE call[c].path] = call[c].t]
    /\ total_count' = total_count
    /\ call'[c].held = 0 /\ call'[c].resv = 0 /\ ~Committing(call'[c])

\* A registered thread is given up.
Releases(c) ==
    /\ \E k \in Keys :
           /\ agent_tree[k] \in Threads
           /\ agent_tree' = [agent_tree EXCEPT ![k] = Vacant]
           /\ total_count' = IF k = RootPath THEN total_count ELSE total_count - 1
    /\ call[c].held = 0 /\ call'[c].held = 0 /\ call'[c].resv = call[c].resv
    /\ ~Committing(call'[c])

\* There is nothing else.
LEMMA RegistryStep ==
    ASSUME Shapes, NEW c \in Calls, Request(c) \/ CallStep(c)
    PROVE  \/ Stays(c) \/ Counts(c) \/ GivesUp(c) \/ NotesRoot(c) \/ TakesPath(c)
           \/ Creates(c) \/ Registers(c) \/ Releases(c)
<1> DEFINE Goal == \/ Stays(c) \/ Counts(c) \/ GivesUp(c) \/ NotesRoot(c) \/ TakesPath(c)
                   \/ Creates(c) \/ Registers(c) \/ Releases(c)
<1>0. /\ call \in [Calls -> CallType] /\ call[c] \in CallType /\ Shape(version, call[c]) /\ Types
      /\ Done.held = 0 /\ Done.resv = 0 /\ Done.pc = "done"
      /\ call[c].held \in {0, 1} /\ call[c].resv \in {0, 1}
  BY DEF Shapes, Types, Done, Idle, CallType
<1>h. call[c].pc \notin {"create", "commit"} => call[c].held = 0
  BY <1>0 DEF Shape
<1>v. call[c].pc \notin {"prepare", "create", "load", "insert", "commit"} => call[c].resv = 0
  BY <1>0 DEF Shape
<1>b. ASSUME NEW op, NEW t, NEW path, NEW pc, Begin(c, op, t, path, pc), pc # "commit" PROVE Stays(c)
  <2>1. call[c].held = 0 /\ call[c].resv = 0
    BY <1>b, <1>h, <1>v DEF Begin, At
  <2>2. call'[c].held = 0 /\ call'[c].resv = 0 /\ call'[c].pc # "commit"
    BY <1>0, <1>b DEF Begin, Idle
  <2>3. UNCHANGED <<agent_tree, total_count>>
    BY <1>b DEF Begin, registry
  <2>4. QED
    BY <2>1, <2>2, <2>3 DEF Stays, Committing
<1>g. ASSUME NEW pc, Goto(c, pc), UNCHANGED registry, call[c].pc \notin {"create", "commit"},
             pc # "commit" \/ version = "V1" \/ call[c].resv = 0
      PROVE  Stays(c)
  <2>1. call'[c].held = call[c].held /\ call'[c].resv = call[c].resv /\ call'[c].pc = pc
    BY <1>0, <1>g DEF Goto, CallType
  <2>2. QED
    BY <1>g, <1>h, <2>1 DEF Stays, Committing, registry
<1>f. ASSUME Finish(c), UNCHANGED registry,
             call[c].pc \notin {"prepare", "create", "load", "insert", "commit"}
      PROVE  Stays(c)
  <2>1. call'[c] = Done
    BY <1>0, <1>f DEF Finish
  <2>2. QED
    BY <1>0, <1>f, <1>h, <1>v, <2>1 DEF Stays, Committing, registry
<1>e. ASSUME Fail(c) PROVE GivesUp(c)
  <2>1. call'[c] = Done
    BY <1>0, <1>e DEF Fail, Finish
  <2>2. QED
    BY <1>0, <1>e, <2>1 DEF Fail, GivesUp, Committing
<1>1. CASE Request(c)
  BY <1>1, <1>b DEF Request, Spawn, Message, SendInput, Interrupt, Close, Resume
<1>2. CASE CheckCapacity(c) \/ NoCandidate(c) \/ InspectCandidate(c) \/ AwaitCandidate(c)
             \/ LookupAgent(c) \/ CheckTurnStart(c) \/ SendOp(c) \/ WaitTerminated(c)
             \/ RemoveAgent(c) \/ ForgetResidency(c)
  BY <1>2, <1>f, <1>g DEF CheckCapacity, NoCandidate, InspectCandidate, AwaitCandidate,
       LookupAgent, CheckTurnStart, SendOp, WaitTerminated, RemoveAgent, ForgetResidency, At
<1>3. CASE ReserveSlot(c) \/ PopCandidate(c) \/ StopCandidate(c) \/ UnloadCandidate(c)
  <2>1. UNCHANGED <<agent_tree, total_count>> /\ call[c].pc \in {"slot", "pop", "stop", "unload"}
    BY <1>3 DEF ReserveSlot, PopCandidate, StopCandidate, UnloadCandidate, At, registry
  <2>2. call'[c].held = call[c].held /\ call'[c].resv = call[c].resv /\ call'[c].pc # "commit"
    BY <1>0, <1>3 DEF ReserveSlot, PopCandidate, StopCandidate, UnloadCandidate, CallType
  <2>3. QED
    BY <1>h, <2>1, <2>2 DEF Stays, Committing
<1>4. CASE ReserveSpawn(c)
  <2>0. call[c].pc = "reserve" /\ agent_tree' = agent_tree
    BY <1>4 DEF ReserveSpawn, At
  <2>1. CASE version = "V2" \/ total_count < Capacity
    <3>1. total_count' = total_count + 1 /\ call' = [call EXCEPT ![c].resv = 1, ![c].pc = "prepare"]
      BY <1>4, <2>1 DEF ReserveSpawn
    <3>2. call'[c].held = call[c].held /\ call'[c].resv = 1 /\ call'[c].pc = "prepare"
      BY <1>0, <3>1 DEF CallType
    <3>3. Counts(c)
      BY <1>h, <1>v, <2>0, <2>1, <3>1, <3>2 DEF Counts, Committing
    <3>4. QED
      BY <3>3
  <2>2. CASE ~(version = "V2" \/ total_count < Capacity)
    <3>1. Finish(c) /\ UNCHANGED registry
      BY <1>4, <2>2 DEF ReserveSpawn, registry
    <3>2. QED
      BY <1>f, <2>0, <3>1
  <2>3. QED
    BY <2>1, <2>2
<1>5. CASE Prepare(c)
  <2> DEFINE pc == IF call[c].op = "spawn" THEN "create" ELSE "load"
  <2>0. call[c].pc = "prepare" /\ pc # "commit"
    BY <1>5 DEF Prepare, At
  <2>1. CASE Fail(c)
    BY <1>e, <2>1
  <2>2. CASE Goto(c, pc) /\ total_count' = total_count
               /\ (agent_tree' = RegisterRoot(agent_tree) \/ UNCHANGED agent_tree)
    <3> HIDE DEF pc
    <3>1. CASE UNCHANGED agent_tree
      BY <1>g, <2>0, <2>2, <3>1 DEF registry
    <3>2. CASE agent_tree' = RegisterRoot(agent_tree)
      <4>1. call'[c].held = call[c].held /\ call'[c].resv = call[c].resv /\ call'[c].pc = pc
        BY <1>0, <2>2 DEF Goto, CallType
      <4>2. NotesRoot(c)
        BY <1>h, <2>0, <2>2, <3>2, <4>1 DEF NotesRoot, Committing
      <4>3. QED
        BY <4>2
    <3>3. QED
      BY <2>2, <3>1, <3>2
  <2>3. CASE /\ call[c].path # NoPath /\ agent_tree[call[c].path] = Vacant
             /\ \E tree \in {agent_tree, RegisterRoot(agent_tree)} :
                    agent_tree' = [tree EXCEPT ![call[c].path] = Reserved]
             /\ call' = [call EXCEPT ![c].held = 1, ![c].pc = pc]
             /\ total_count' = total_count
    <3> HIDE DEF pc
    <3>1. /\ call'[c].held = 1 /\ call'[c].resv = call[c].resv /\ call'[c].pc = pc
          /\ call'[c].path = call[c].path
      BY <1>0, <2>3 DEF CallType
    <3>2. call[c].path \in Paths /\ version = "V2"
      BY <1>0, <2>3 DEF CallType, Shape
    <3>3. TakesPath(c)
      BY <1>h, <2>0, <2>3, <3>1, <3>2 DEF TakesPath, Committing
    <3>4. QED
      BY <3>3
  <2>4. QED
    BY <1>5, <2>1, <2>2, <2>3 DEF Prepare
<1>6. CASE CreateThread(c)
  <2>1. CASE Fail(c)
    BY <1>e, <2>1
  <2>2. CASE ~Fail(c)
    <3>1. PICK t \in SubAgents :
            /\ gen[t] = 0 /\ gen' = [gen EXCEPT ![t] = 1]
            /\ call' = [call EXCEPT ![c].t = t, ![c].pc = "commit"]
            /\ UNCHANGED registry
      BY <1>6, <2>2 DEF CreateThread
    <3>2. /\ call'[c].held = call[c].held /\ call'[c].resv = call[c].resv
          /\ call'[c].path = call[c].path /\ call'[c].t = t
      BY <1>0, <3>1 DEF CallType
    <3>3. gen'[t] = 1
      BY <1>0, <3>1, Names DEF Types
    <3>4. Creates(c)
      BY <3>1, <3>2, <3>3 DEF Creates, registry
    <3>5. QED
      BY <3>4
  <2>3. QED
    BY <2>1, <2>2
<1>7. CASE LoadThread(c) \/ InsertThread(c)
  <2>0. call[c].pc \in {"load", "insert"} /\ (version = "V1" \/ call[c].resv = 0)
    BY <1>0, <1>7 DEF LoadThread, InsertThread, At, Shape
  <2>1. CASE Fail(c)
    BY <1>e, <2>1
  <2>2. CASE UNCHANGED registry /\ \E pc : Goto(c, pc)
    BY <1>g, <2>0, <2>2
  <2>3. QED
    BY <1>7, <2>1, <2>2 DEF LoadThread, InsertThread
<1>8. CASE Recheck(c)
  <2>1. CASE Fail(c)
    BY <1>e, <2>1
  <2>2. CASE ~Fail(c)
    <3>1. /\ call' = [call EXCEPT ![c].slot = 0, ![c].pc = "capacity"] /\ UNCHANGED registry
          /\ call[c].pc = "recheck"
      BY <1>8, <2>2 DEF Recheck, At
    <3>2. call'[c].held = call[c].held /\ call'[c].resv = call[c].resv /\ call'[c].pc # "commit"
      BY <1>0, <3>1 DEF CallType
    <3>3. Stays(c)
      BY <1>h, <3>1, <3>2 DEF Stays, Committing, registry
    <3>4. QED
      BY <3>3
  <2>3. QED
    BY <2>1, <2>2
<1>9. CASE Commit(c)
  <2>1. /\ call[c].pc = "commit" /\ total_count' = total_count
        /\ call[c].resv # 1 => agent_tree' = agent_tree
        /\ call[c].resv = 1 => agent_tree' = [agent_tree EXCEPT
             ![IF call[c].path = NoPath THEN call[c].t ELSE call[c].path] = call[c].t]
    BY <1>9 DEF Commit, At
  <2>2. \/ call' = [call EXCEPT ![c] = Done]
        \/ \E pc \in {"send", "capacity"} : call' = [call EXCEPT ![c] =
             [call[c] EXCEPT !.resv = 0, !.held = 0, !.slot = 0, !.path = NoPath, !.pc = pc]]
    <3>1. CASE call[c].op = "resume"
      BY <1>9, <3>1 DEF Commit
    <3>2. CASE call[c].op = "spawn"
      BY <1>9, <3>2 DEF Commit
    <3>3. CASE call[c].op # "spawn" /\ call[c].op # "resume"
      BY <1>9, <3>3 DEF Commit
    <3>4. QED
      BY <3>1, <3>2, <3>3
  <2>3. call'[c].held = 0 /\ call'[c].resv = 0
    <3>1. CASE call' = [call EXCEPT ![c] = Done]
      BY <1>0, <3>1
    <3>2. ASSUME NEW pc \in {"send", "capacity"}, call' = [call EXCEPT ![c] =
                   [call[c] EXCEPT !.resv = 0, !.held = 0, !.slot = 0, !.path = NoPath, !.pc = pc]]
          PROVE  call'[c].held = 0 /\ call'[c].resv = 0
      BY <1>0, <3>2 DEF CallType
    <3>3. QED
      BY <2>2, <3>1, <3>2
  <2>4. CASE call[c].resv = 1
    <3>1. Registers(c)
      BY <2>1, <2>3, <2>4 DEF Registers, Committing
    <3>2. QED
      BY <3>1
  <2>5. CASE call[c].resv # 1
    <3>1. call[c].held = 0 /\ call[c].resv = 0
      BY <1>0, <2>5 DEF Shape
    <3>2. Stays(c)
      BY <2>1, <2>3, <2>5, <3>1 DEF Stays, Committing
    <3>3. QED
      BY <3>2
  <2>6. QED
    BY <2>4, <2>5
<1>10. CASE ShutdownAgent(c)
  <2>0. UNCHANGED registry /\ call[c].pc = "shutdown"
    BY <1>10 DEF ShutdownAgent, At
  <2>1. CASE Finish(c)
    BY <1>f, <2>0, <2>1
  <2>2. CASE ~Finish(c)
    <3>1. \E pc \in {"wait", "remove"} :
            call' = [call EXCEPT ![c].g = gen[call[c].t], ![c].pc = pc]
      BY <1>10, <2>2 DEF ShutdownAgent
    <3>2. call'[c].held = call[c].held /\ call'[c].resv = call[c].resv /\ call'[c].pc # "commit"
      BY <1>0, <3>1 DEF CallType
    <3>3. Stays(c)
      BY <1>h, <2>0, <3>2 DEF Stays, Committing, registry
    <3>4. QED
      BY <3>3
  <2>3. QED
    BY <2>1, <2>2
<1>11. CASE ReleaseSpawned(c)
  <2>0. call[c].pc = "release" /\ Finish(c) /\ call[c].t \in Threads
    BY <1>0, <1>11 DEF ReleaseSpawned, At, Shape, TargetPcs
  <2>1. CASE ~Known(call[c].t)
    <3>1. UNCHANGED registry
      BY <1>11, <2>1 DEF ReleaseSpawned
    <3>2. QED
      BY <1>f, <2>0, <3>1
  <2>2. CASE Known(call[c].t)
    <3>1. PICK k \in Keys : /\ agent_tree[k] = call[c].t
                            /\ k = CHOOSE j \in Keys : agent_tree[j] = call[c].t
      BY <2>2 DEF Known
    <3>2. /\ agent_tree' = [agent_tree EXCEPT ![k] = Vacant]
          /\ total_count' = IF k = RootPath THEN total_count ELSE total_count - 1
      BY <1>11, <2>2, <3>1 DEF ReleaseSpawned
    <3>3. call'[c] = Done
      BY <1>0, <2>0 DEF Finish
    <3>4. Releases(c)
      BY <1>0, <1>h, <1>v, <2>0, <3>1, <3>2, <3>3 DEF Releases, Committing
    <3>5. QED
      BY <3>4
  <2>3. QED
    BY <2>1, <2>2
<1>12. QED
  BY <1>1, <1>2, <1>3, <1>4, <1>5, <1>6, <1>7, <1>8, <1>9, <1>10, <1>11 DEF CallStep

\* No step changes the version of the session.
LEMMA SameVersion ==
    ASSUME NEW c \in Calls, Request(c) \/ CallStep(c)
    PROVE  version' = version
<1>1. CASE Request(c)
  BY <1>1 DEF Request, Spawn, Message, SendInput, Interrupt, Close, Resume, Begin
<1>2. CASE CheckCapacity(c) \/ ReserveSlot(c) \/ PopCandidate(c) \/ NoCandidate(c)
             \/ InspectCandidate(c) \/ StopCandidate(c) \/ AwaitCandidate(c) \/ UnloadCandidate(c)
  BY <1>2 DEF CheckCapacity, ReserveSlot, PopCandidate, NoCandidate, InspectCandidate,
       StopCandidate, AwaitCandidate, UnloadCandidate
<1>3. CASE ReserveSpawn(c) \/ Prepare(c) \/ CreateThread(c) \/ LookupAgent(c) \/ LoadThread(c)
             \/ InsertThread(c) \/ Recheck(c) \/ Commit(c)
  BY <1>3 DEF ReserveSpawn, Prepare, CreateThread, LookupAgent, LoadThread, InsertThread,
       Recheck, Commit, Fail
<1>4. CASE CheckTurnStart(c) \/ SendOp(c) \/ ShutdownAgent(c) \/ WaitTerminated(c)
             \/ RemoveAgent(c) \/ ForgetResidency(c) \/ ReleaseSpawned(c)
  BY <1>4 DEF CheckTurnStart, SendOp, ShutdownAgent, WaitTerminated, RemoveAgent,
       ForgetResidency, ReleaseSpawned
<1>5. QED
  BY <1>1, <1>2, <1>3, <1>4 DEF CallStep

\* What can be registered where.
TreeTypes ==
    /\ agent_tree \in [Keys -> Threads \cup {Vacant, Reserved}]
    /\ agent_tree[RootPath] \in {Root, Vacant}
    /\ \A t \in Threads : agent_tree[t] \in {t, Vacant}
    /\ agent_tree[Root] = Vacant
    /\ \A p \in Paths : agent_tree[p] \in {Vacant, Reserved} \cup SubAgents
    /\ version = "V1" => \A p \in Paths : agent_tree[p] = Vacant

\* A thread is registered once.
OncePerThread ==
    \A j, k \in Keys : agent_tree[j] = agent_tree[k] /\ agent_tree[j] \in Threads => j = k

\* Reserved paths and the calls that hold them.
HeldInv ==
    /\ \A c, d \in Calls :
           (call[c].held = 1 /\ call[d].held = 1 /\ call[c].path = call[d].path) => c = d
    /\ \A c \in Calls : call[c].held = 1 => agent_tree[call[c].path] = Reserved
    /\ \A p \in Paths : agent_tree[p] = Reserved =>
           \E c \in Calls : call[c].held = 1 /\ call[c].path = p

\* In a v2 session a spawn registers the thread it has created, which nobody else has.
FreshInv ==
    /\ gen[Root] > 0
    /\ version = "V2" =>
        /\ \A k \in Keys : agent_tree[k] \in Threads => gen[agent_tree[k]] > 0
        /\ \A c \in Calls : Committing(call[c]) =>
               gen[call[c].t] > 0 /\ \A k \in Keys : agent_tree[k] # call[c].t
        /\ \A c, d \in Calls :
               (Committing(call[c]) /\ Committing(call[d]) /\ call[c].t = call[d].t) => c = d

TreeInv == TreeTypes /\ OncePerThread /\ HeldInv /\ FreshInv

\* The keys of the tree are of three kinds.
LEMMA KeyKinds ==
    /\ Paths \subseteq Keys /\ Threads \subseteq Keys /\ RootPath \in Keys /\ Root \in Keys
    /\ \A k \in Keys : k \in Paths \/ k \in Threads \/ k = RootPath
    /\ Paths \cap Threads = {} /\ RootPath \notin Paths /\ RootPath \notin Threads
    /\ Vacant \notin Threads /\ Reserved \notin Threads /\ Vacant # Reserved
    /\ Root \in Threads /\ Root \notin SubAgents /\ SubAgents \subseteq Threads
  BY Names, NamesAssumption, ThreadsAssumption DEF Keys

\* What a step of c has in common with every other.
Frame(c) ==
    /\ \A d \in Calls \ {c} : call'[d] = call[d]
    /\ version' = version
    /\ \A t \in Threads : gen[t] \in Nat /\ gen'[t] \in Nat /\ gen'[t] >= gen[t]
    /\ \A d \in Calls : Committing(call[d]) => call[d].t \in SubAgents

\* The part about threads, when nobody registers one but the root.
LEMMA FewerThreads ==
    ASSUME TreeInv, NEW c \in Calls, Frame(c), version = "V2" => ~Committing(call'[c]),
           \A k \in Keys : agent_tree'[k] \in Threads =>
               agent_tree'[k] = agent_tree[k] \/ agent_tree'[k] = Root
    PROVE  FreshInv'
<1>0. gen'[Root] > 0
  BY Names DEF TreeInv, FreshInv, Frame
<1> SUFFICES ASSUME version = "V2"
             PROVE  /\ \A k \in Keys : agent_tree'[k] \in Threads => gen'[agent_tree'[k]] > 0
                    /\ \A d \in Calls : Committing(call'[d]) =>
                           gen'[call'[d].t] > 0 /\ \A k \in Keys : agent_tree'[k] # call'[d].t
                    /\ \A d, e \in Calls :
                           (Committing(call'[d]) /\ Committing(call'[e]) /\ call'[d].t = call'[e].t) => d = e
  BY <1>0 DEF FreshInv, Frame, Committing
<1>1. ASSUME NEW k \in Keys, agent_tree'[k] \in Threads PROVE gen'[agent_tree'[k]] > 0
  BY <1>0, <1>1 DEF TreeInv, FreshInv, Frame
<1>2. ASSUME NEW d \in Calls, Committing(call'[d])
      PROVE  /\ d # c /\ call'[d] = call[d] /\ Committing(call[d])
             /\ gen'[call'[d].t] > 0 /\ \A k \in Keys : agent_tree'[k] # call'[d].t
  <2>1. d # c /\ call'[d] = call[d] /\ Committing(call[d])
    BY <1>2 DEF Frame
  <2>2. /\ call[d].t \in SubAgents /\ call[d].t \in Threads /\ call[d].t # Root
        /\ gen[call[d].t] > 0 /\ \A k \in Keys : agent_tree[k] # call[d].t
    BY <2>1, Names DEF TreeInv, FreshInv, Frame
  <2>3. QED
    BY <2>1, <2>2 DEF Frame
<1>3. \A d, e \in Calls :
           (Committing(call'[d]) /\ Committing(call'[e]) /\ call'[d].t = call'[e].t) => d = e
  BY <1>2 DEF TreeInv, FreshInv
<1>4. QED
  BY <1>1, <1>2, <1>3

\* The part about paths, for a call that holds none and a step that reserves and frees
\* none.
LEMMA SamePaths ==
    ASSUME TreeInv, NEW c \in Calls, Frame(c), call[c].held = 0, call'[c].held = 0,
           \A d \in Calls : call[d].held = 1 => call[d].path \in Paths,
           \A p \in Paths : agent_tree'[p] = Reserved <=> agent_tree[p] = Reserved
    PROVE  HeldInv'
  BY DEF TreeInv, HeldInv, Frame

\* The registry stays, or only counts.
LEMMA StaysKeepsTree ==
    ASSUME TreeInv, NEW c \in Calls, Frame(c), agent_tree' = agent_tree,
           \A d \in Calls : call[d].held = 1 => call[d].path \in Paths,
           call[c].held = 0, call'[c].held = 0, version = "V2" => ~Committing(call'[c])
    PROVE  TreeInv'
<1>1. TreeTypes' /\ OncePerThread'
  BY DEF TreeInv, TreeTypes, OncePerThread, Frame
<1>2. QED
  BY <1>1, SamePaths, FewerThreads DEF TreeInv

\* What a call gives up is what it held.
LEMMA GivesUpKeepsTree ==
    ASSUME TreeInv, NEW c \in Calls, Frame(c), GivesUp(c),
           \A d \in Calls : call[d].held = 1 => call[d].path \in Paths
    PROVE  TreeInv'
<1>1. \A k \in Keys : agent_tree'[k] =
          IF k = call[c].path /\ call[c].held = 1 /\ agent_tree[k] = Reserved
          THEN Vacant ELSE agent_tree[k]
  BY DEF GivesUp
<1>2. TreeTypes'
  BY <1>1, KeyKinds DEF TreeInv, TreeTypes, Frame, GivesUp
<1>3. OncePerThread'
  BY <1>1, KeyKinds DEF TreeInv, OncePerThread
<1>4. HeldInv'
  <2>1. ASSUME NEW d \in Calls, call'[d].held = 1
        PROVE  /\ d # c /\ call'[d] = call[d] /\ call[d].held = 1 /\ call[d].path \in Keys
               /\ agent_tree'[call'[d].path] = Reserved
    <3>1. d # c /\ call'[d] = call[d] /\ call[d].held = 1 /\ call[d].path \in Keys
      BY <2>1, KeyKinds DEF Frame, GivesUp
    <3>2. agent_tree[call[d].path] = Reserved /\ ~(call[c].held = 1 /\ call[c].path = call[d].path)
      BY <3>1 DEF TreeInv, HeldInv
    <3>3. QED
      BY <1>1, <3>1, <3>2
  <2>2. ASSUME NEW p \in Paths, agent_tree'[p] = Reserved
        PROVE  \E d \in Calls : call'[d].held = 1 /\ call'[d].path = p
    <3>1. agent_tree[p] = Reserved /\ ~(p = call[c].path /\ call[c].held = 1)
      BY <1>1, <2>2, KeyKinds
    <3>2. PICK d \in Calls : call[d].held = 1 /\ call[d].path = p
      BY <3>1 DEF TreeInv, HeldInv
    <3>3. call'[d] = call[d]
      BY <3>1, <3>2 DEF Frame
    <3>4. QED
      BY <3>2, <3>3
  <2>3. \A d, e \in Calls :
           (call'[d].held = 1 /\ call'[e].held = 1 /\ call'[d].path = call'[e].path) => d = e
    BY <2>1 DEF TreeInv, HeldInv
  <2>4. QED
    BY <2>1, <2>2, <2>3 DEF HeldInv
<1>5. FreshInv'
  BY <1>1, FewerThreads, KeyKinds DEF GivesUp
<1>6. QED
  BY <1>2, <1>3, <1>4, <1>5 DEF TreeInv

\* The root goes under its own path.
LEMMA RegisterRootValue ==
    ASSUME TreeTypes
    PROVE  /\ RegisterRoot(agent_tree) \in [Keys -> Threads \cup {Vacant, Reserved}]
           /\ RegisterRoot(agent_tree)[RootPath] = Root
           /\ \A k \in Keys \ {RootPath} : RegisterRoot(agent_tree)[k] = agent_tree[k]
  BY KeyKinds DEF TreeTypes, RegisterRoot

\* Registering the root again changes nothing for the agents.
LEMMA NotesRootKeepsTree ==
    ASSUME TreeInv, NEW c \in Calls, Frame(c), NotesRoot(c),
           \A d \in Calls : call[d].held = 1 => call[d].path \in Paths
    PROVE  TreeInv'
<1>1. /\ agent_tree' \in [Keys -> Threads \cup {Vacant, Reserved}]
      /\ agent_tree'[RootPath] = Root
      /\ \A k \in Keys \ {RootPath} : agent_tree'[k] = agent_tree[k]
  BY RegisterRootValue DEF NotesRoot, TreeInv
<1>2. TreeTypes'
  BY <1>1, KeyKinds DEF TreeInv, TreeTypes, Frame
<1>3. OncePerThread'
  <2>1. \A k \in Keys \ {RootPath} : agent_tree'[k] # Root
    BY <1>1, KeyKinds DEF TreeInv, TreeTypes
  <2>2. QED
    BY <1>1, <2>1 DEF TreeInv, OncePerThread
<1>4. HeldInv'
  <2>1. \A p \in Paths : agent_tree'[p] = Reserved <=> agent_tree[p] = Reserved
    BY <1>1, KeyKinds
  <2>2. QED
    BY <2>1, SamePaths DEF NotesRoot
<1>5. FreshInv'
  <2>1. \A k \in Keys : agent_tree'[k] \in Threads =>
            agent_tree'[k] = agent_tree[k] \/ agent_tree'[k] = Root
    BY <1>1
  <2>2. QED
    BY <2>1, FewerThreads DEF NotesRoot
<1>6. QED
  BY <1>2, <1>3, <1>4, <1>5 DEF TreeInv

\* The path that is reserved was vacant, so nobody held it.
LEMMA TakesPathKeepsTree ==
    ASSUME TreeInv, NEW c \in Calls, Frame(c), TakesPath(c),
           \A d \in Calls : call[d].held = 1 => call[d].path \in Paths
    PROVE  TreeInv'
<1> DEFINE p == call[c].path
<1>0. p \in Paths /\ p \in Keys /\ agent_tree[p] = Vacant /\ p # RootPath /\ version = "V2"
  BY KeyKinds DEF TakesPath
<1>h. /\ call[c].held = 0 /\ call'[c].held = 1 /\ call'[c].path = p /\ ~Committing(call'[c])
  BY DEF TakesPath
<1>t. PICK tree \in {agent_tree, RegisterRoot(agent_tree)} :
          agent_tree' = [tree EXCEPT ![p] = Reserved]
  BY DEF TakesPath
<1> HIDE DEF p
<1>1. /\ tree \in [Keys -> Threads \cup {Vacant, Reserved}]
      /\ tree[RootPath] \in {Root, agent_tree[RootPath]}
      /\ \A k \in Keys \ {RootPath} : tree[k] = agent_tree[k]
  BY RegisterRootValue, KeyKinds DEF TreeInv, TreeTypes
<1>2. /\ agent_tree' \in [Keys -> Threads \cup {Vacant, Reserved}]
      /\ agent_tree'[RootPath] \in {Root, agent_tree[RootPath]}
      /\ agent_tree'[p] = Reserved
      /\ \A k \in Keys \ {RootPath, p} : agent_tree'[k] = agent_tree[k]
  BY <1>0, <1>1, <1>t, KeyKinds
<1>3. TreeTypes'
  BY <1>0, <1>2, KeyKinds DEF TreeInv, TreeTypes, Frame
<1>4. OncePerThread'
  <2>1. \A k \in Keys \ {RootPath} : agent_tree'[k] # Root
    BY <1>2, KeyKinds DEF TreeInv, TreeTypes
  <2>2. agent_tree'[RootPath] \in Threads => agent_tree'[RootPath] = Root
    BY <1>2, KeyKinds DEF TreeInv, TreeTypes
  <2>3. \A k \in Keys \ {RootPath} : agent_tree'[k] \in Threads => agent_tree'[k] = agent_tree[k]
    BY <1>2, KeyKinds
  <2>4. QED
    BY <2>1, <2>2, <2>3 DEF TreeInv, OncePerThread
<1>5. HeldInv'
  <2>1. ASSUME NEW d \in Calls, call'[d].held = 1
        PROVE  /\ agent_tree'[call'[d].path] = Reserved
               /\ d # c => call'[d] = call[d] /\ call[d].held = 1 /\ call[d].path # p
    <3>1. CASE d = c
      BY <1>2, <1>h, <3>1
    <3>2. CASE d # c
      <4>1. /\ call'[d] = call[d] /\ call[d].held = 1 /\ call[d].path \in Paths
            /\ agent_tree[call[d].path] = Reserved
        BY <2>1, <3>2 DEF Frame, TreeInv, HeldInv
      <4>2. call[d].path # p /\ call[d].path \in Keys \ {RootPath, p}
        BY <1>0, <4>1, KeyKinds
      <4>3. QED
        BY <1>2, <3>2, <4>1, <4>2
    <3>3. QED
      BY <3>1, <3>2
  <2>2. ASSUME NEW q \in Paths, agent_tree'[q] = Reserved
        PROVE  \E d \in Calls : call'[d].held = 1 /\ call'[d].path = q
    <3>1. CASE q = p
      BY <1>h, <3>1
    <3>2. CASE q # p
      <4>1. agent_tree[q] = Reserved
        BY <1>2, <2>2, <3>2, KeyKinds
      <4>2. PICK d \in Calls : call[d].held = 1 /\ call[d].path = q
        BY <4>1 DEF TreeInv, HeldInv
      <4>3. call'[d] = call[d]
        BY <1>h, <4>2 DEF Frame
      <4>4. QED
        BY <4>2, <4>3
    <3>3. QED
      BY <3>1, <3>2
  <2>3. \A d, e \in Calls :
            (call'[d].held = 1 /\ call'[e].held = 1 /\ call'[d].path = call'[e].path) => d = e
    BY <1>h, <2>1 DEF TreeInv, HeldInv
  <2>4. QED
    BY <2>1, <2>2, <2>3 DEF HeldInv
<1>6. FreshInv'
  <2>1. \A k \in Keys : agent_tree'[k] \in Threads =>
            agent_tree'[k] = agent_tree[k] \/ agent_tree'[k] = Root
    BY <1>2, KeyKinds
  <2>2. QED
    BY <1>h, <2>1, FewerThreads
<1>7. QED
  BY <1>3, <1>4, <1>5, <1>6 DEF TreeInv

\* A thread that never was is in no place of the tree.
LEMMA CreatesKeepsTree ==
    ASSUME TreeInv, NEW c \in Calls, Frame(c), Creates(c)
    PROVE  TreeInv'
<1>1. TreeTypes' /\ OncePerThread'
  BY DEF TreeInv, TreeTypes, OncePerThread, Frame, Creates
<1>2. HeldInv'
  <2>1. \A d \in Calls : call'[d].held = call[d].held /\ call'[d].path = call[d].path
    BY DEF Frame, Creates
  <2>2. agent_tree' = agent_tree
    BY DEF Creates
  <2>3. QED
    BY <2>1, <2>2 DEF TreeInv, HeldInv
<1>3. FreshInv'
  <2> DEFINE t == call'[c].t
  <2>0. gen'[Root] > 0
    BY Names DEF TreeInv, FreshInv, Frame
  <2>1. t \in Threads /\ gen[t] = 0 /\ gen'[t] = 1 /\ agent_tree' = agent_tree
    BY Names DEF Creates
  <2> HIDE DEF t
  <2> SUFFICES ASSUME version = "V2"
               PROVE  /\ \A k \in Keys : agent_tree'[k] \in Threads => gen'[agent_tree'[k]] > 0
                      /\ \A d \in Calls : Committing(call'[d]) =>
                             gen'[call'[d].t] > 0 /\ \A k \in Keys : agent_tree'[k] # call'[d].t
                      /\ \A d, e \in Calls :
                             (Committing(call'[d]) /\ Committing(call'[e]) /\ call'[d].t = call'[e].t)
                                 => d = e
    BY <2>0 DEF FreshInv, Frame, Committing
  <2>2. ASSUME NEW k \in Keys, agent_tree'[k] \in Threads PROVE gen'[agent_tree'[k]] > 0
    BY <2>1, <2>2 DEF TreeInv, FreshInv, Frame
  <2>3. ASSUME NEW d \in Calls \ {c}, Committing(call'[d])
        PROVE  /\ call'[d] = call[d] /\ Committing(call[d]) /\ call[d].t # t
               /\ gen'[call'[d].t] > 0 /\ \A k \in Keys : agent_tree'[k] # call'[d].t
    <3>1. call'[d] = call[d] /\ Committing(call[d])
      BY <2>3 DEF Frame
    <3>2. call[d].t \in Threads /\ gen[call[d].t] > 0 /\ \A k \in Keys : agent_tree[k] # call[d].t
      BY <3>1, Names DEF TreeInv, FreshInv, Frame
    <3>3. QED
      BY <2>1, <3>1, <3>2 DEF Frame
  <2>4. gen'[t] > 0 /\ \A k \in Keys : agent_tree'[k] # t
    BY <2>1 DEF TreeInv, FreshInv
  <2>5. \A d \in Calls : Committing(call'[d]) =>
            gen'[call'[d].t] > 0 /\ \A k \in Keys : agent_tree'[k] # call'[d].t
    BY <2>3, <2>4 DEF t
  <2>6. \A d, e \in Calls :
            (Committing(call'[d]) /\ Committing(call'[e]) /\ call'[d].t = call'[e].t) => d = e
    <3>1. ASSUME NEW d \in Calls, NEW e \in Calls, Committing(call'[d]), Committing(call'[e]),
                 call'[d].t = call'[e].t
          PROVE  d = e
      <4>1. CASE d = c \/ e = c
        BY <2>3, <3>1, <4>1 DEF t
      <4>2. CASE d # c /\ e # c
        BY <2>3, <3>1, <4>2 DEF TreeInv, FreshInv
      <4>3. QED
        BY <4>1, <4>2
    <3>2. QED
      BY <3>1
  <2>7. QED
    BY <2>2, <2>5, <2>6
<1>4. QED
  BY <1>1, <1>2, <1>3 DEF TreeInv

\* A thread that is given up leaves its place vacant.
LEMMA ReleasesKeepsTree ==
    ASSUME TreeInv, NEW c \in Calls, Frame(c), Releases(c),
           \A d \in Calls : call[d].held = 1 => call[d].path \in Paths
    PROVE  TreeInv'
<1>1. PICK k \in Keys : agent_tree[k] \in Threads /\ agent_tree' = [agent_tree EXCEPT ![k] = Vacant]
  BY DEF Releases
<1>2. /\ agent_tree' \in [Keys -> Threads \cup {Vacant, Reserved}]
      /\ agent_tree'[k] = Vacant
      /\ \A j \in Keys \ {k} : agent_tree'[j] = agent_tree[j]
  BY <1>1 DEF TreeInv, TreeTypes
<1>3. TreeTypes'
  BY <1>2, KeyKinds DEF TreeInv, TreeTypes, Frame
<1>4. OncePerThread'
  BY <1>2, KeyKinds DEF TreeInv, OncePerThread
<1>5. HeldInv'
  <2>1. \A p \in Paths : agent_tree'[p] = Reserved <=> agent_tree[p] = Reserved
    BY <1>1, <1>2, KeyKinds
  <2>2. QED
    BY <2>1, SamePaths DEF Releases
<1>6. FreshInv'
  <2>1. \A j \in Keys : agent_tree'[j] \in Threads =>
            agent_tree'[j] = agent_tree[j] \/ agent_tree'[j] = Root
    BY <1>2, KeyKinds
  <2>2. QED
    BY <2>1, FewerThreads DEF Releases
<1>7. QED
  BY <1>3, <1>4, <1>5, <1>6 DEF TreeInv

\* A thread is registered where nobody is, under its own name or under the path that
\* was kept for it.
LEMMA RegistersKeepsTree ==
    ASSUME TreeInv, NEW c \in Calls, Frame(c), Registers(c),
           \A d \in Calls : call[d].held = 1 => call[d].path \in Paths,
           call[c].path # NoPath => call[c].held = 1 /\ call[c].path \in Paths /\ version = "V2",
           call[c].path = NoPath => call[c].held = 0,
           version \in {"V1", "V2"}
    PROVE  TreeInv'
<1> DEFINE t == call[c].t
           key == IF call[c].path = NoPath THEN call[c].t ELSE call[c].path
<1>0. /\ t \in SubAgents /\ t \in Threads /\ t # Root
      /\ agent_tree' = [agent_tree EXCEPT ![key] = t]
      /\ Committing(call[c]) /\ ~Committing(call'[c]) /\ call'[c].held = 0
  BY Names DEF Registers, Frame
<1>1. key = t \/ (key \in Paths /\ version = "V2" /\ agent_tree[key] = Reserved)
  BY DEF TreeInv, HeldInv
<1>k. key \in Keys
  BY <1>0, <1>1, KeyKinds
<1>v. version = "V2" => gen[t] > 0 /\ \A k \in Keys : agent_tree[k] # t
  BY <1>0 DEF TreeInv, FreshInv
<1>p. /\ key # t => \A d \in Calls : call[d].held = 1 /\ call[d].path = key => d = c
      /\ key = t => call[c].held = 0
  <2>1. CASE call[c].path = NoPath
    BY <2>1
  <2>2. CASE call[c].path # NoPath
    <3>1. call[c].held = 1 /\ key = call[c].path /\ key \in Paths
      BY <2>2
    <3>2. key # t
      BY <1>0, <3>1, KeyKinds
    <3>3. QED
      BY <3>1, <3>2 DEF TreeInv, HeldInv
  <2>3. QED
    BY <2>1, <2>2
<1> HIDE DEF t, key
<1>2. /\ agent_tree' \in [Keys -> Threads \cup {Vacant, Reserved}]
      /\ agent_tree'[key] = t
      /\ \A k \in Keys \ {key} : agent_tree'[k] = agent_tree[k]
  BY <1>0, <1>k DEF TreeInv, TreeTypes
<1>3. \A k \in Keys \ {key} : agent_tree[k] # t
  <2>1. CASE version = "V2"
    BY <1>v, <2>1
  <2>2. CASE version = "V1"
    <3>1. key = t
      BY <1>1, <2>2
    <3>2. QED
      BY <1>0, <2>2, <3>1, KeyKinds DEF TreeInv, TreeTypes
  <2>3. QED
    BY <2>1, <2>2
<1>4. TreeTypes'
  BY <1>0, <1>1, <1>2, KeyKinds DEF TreeInv, TreeTypes, Frame
<1>5. OncePerThread'
  BY <1>2, <1>3 DEF TreeInv, OncePerThread
<1>6. HeldInv'
  <2>1. CASE key = t
    <3>1. \A p \in Paths : agent_tree'[p] = Reserved <=> agent_tree[p] = Reserved
      BY <1>0, <1>2, <2>1, KeyKinds
    <3>2. QED
      BY <1>0, <1>p, <2>1, <3>1, SamePaths
  <2>2. CASE key # t
    <3>1. ASSUME NEW d \in Calls, call'[d].held = 1
          PROVE  call'[d] = call[d] /\ call[d].held = 1 /\ agent_tree'[call'[d].path] = Reserved
      <4>1. call'[d] = call[d] /\ call[d].held = 1 /\ d # c
        BY <1>0, <3>1 DEF Frame
      <4>2. call[d].path \in Keys \ {key} /\ agent_tree[call[d].path] = Reserved
        BY <1>p, <2>2, <4>1, KeyKinds DEF TreeInv, HeldInv
      <4>3. QED
        BY <1>2, <4>1, <4>2
    <3>2. ASSUME NEW p \in Paths, agent_tree'[p] = Reserved
          PROVE  \E d \in Calls : call'[d].held = 1 /\ call'[d].path = p
      <4>1. p # key /\ agent_tree[p] = Reserved
        BY <1>0, <1>2, <3>2, KeyKinds
      <4>2. PICK d \in Calls : call[d].held = 1 /\ call[d].path = p
        BY <4>1 DEF TreeInv, HeldInv
      <4>3. d # c
        <5>1. CASE call[c].path = NoPath
          BY <4>2, <5>1, Names
        <5>2. CASE call[c].path # NoPath
          BY <4>1, <4>2, <5>2 DEF key
        <5>3. QED
          BY <5>1, <5>2
      <4>4. QED
        BY <4>2, <4>3 DEF Frame
    <3>3. \A d, e \in Calls :
              (call'[d].held = 1 /\ call'[e].held = 1 /\ call'[d].path = call'[e].path) => d = e
      BY <3>1 DEF TreeInv, HeldInv
    <3>4. QED
      BY <3>1, <3>2, <3>3 DEF HeldInv
  <2>3. QED
    BY <2>1, <2>2
<1>7. FreshInv'
  <2>0. gen'[Root] > 0
    BY Names DEF TreeInv, FreshInv, Frame
  <2> SUFFICES ASSUME version = "V2"
               PROVE  /\ \A k \in Keys : agent_tree'[k] \in Threads => gen'[agent_tree'[k]] > 0
                      /\ \A d \in Calls : Committing(call'[d]) =>
                             gen'[call'[d].t] > 0 /\ \A k \in Keys : agent_tree'[k] # call'[d].t
                      /\ \A d, e \in Calls :
                             (Committing(call'[d]) /\ Committing(call'[e]) /\ call'[d].t = call'[e].t)
                                 => d = e
    BY <2>0 DEF FreshInv, Frame, Committing
  <2>1. ASSUME NEW k \in Keys, agent_tree'[k] \in Threads PROVE gen'[agent_tree'[k]] > 0
    <3>1. CASE k = key
      BY <1>0, <1>2, <1>v, <3>1 DEF Frame
    <3>2. CASE k # key
      BY <1>2, <2>1, <3>2 DEF TreeInv, FreshInv, Frame
    <3>3. QED
      BY <3>1, <3>2
  <2>2. ASSUME NEW d \in Calls, Committing(call'[d])
        PROVE  /\ call'[d] = call[d] /\ Committing(call[d])
               /\ gen'[call'[d].t] > 0 /\ \A k \in Keys : agent_tree'[k] # call'[d].t
    <3>1. d # c /\ call'[d] = call[d] /\ Committing(call[d])
      BY <1>0, <2>2 DEF Frame
    <3>2. /\ call[d].t \in Threads /\ gen[call[d].t] > 0 /\ \A k \in Keys : agent_tree[k] # call[d].t
          /\ call[d].t # t
      BY <1>0, <3>1, Names DEF TreeInv, FreshInv, Frame, t
    <3>3. QED
      BY <1>2, <3>1, <3>2 DEF Frame
  <2>3. \A d, e \in Calls :
            (Committing(call'[d]) /\ Committing(call'[e]) /\ call'[d].t = call'[e].t) => d = e
    BY <2>2 DEF TreeInv, FreshInv
  <2>4. QED
    BY <2>1, <2>2, <2>3
<1>8. QED
  BY <1>4, <1>5, <1>6, <1>7 DEF TreeInv

\* What the shape of the calls says about the registry.
LEMMA HoldersShape ==
    ASSUME Shapes
    PROVE  /\ version \in {"V1", "V2"}
           /\ \A d \in Calls :
                /\ call[d].held \in {0, 1} /\ call[d].resv \in {0, 1}
                /\ call[d].held = 1 => call[d].path \in Paths
                /\ Committing(call[d]) => call[d].t \in SubAgents
                /\ Committing(call[d]) /\ call[d].path # NoPath =>
                       call[d].held = 1 /\ call[d].path \in Paths /\ version = "V2"
                /\ call[d].path = NoPath => call[d].held = 0
<1>1. version \in {"V1", "V2"}
  BY DEF Shapes, Types
<1>2. ASSUME NEW d \in Calls
      PROVE  /\ call[d].held \in {0, 1} /\ call[d].resv \in {0, 1}
             /\ call[d].held = 1 => call[d].path \in Paths
             /\ Committing(call[d]) => call[d].t \in SubAgents
             /\ Committing(call[d]) /\ call[d].path # NoPath =>
                    call[d].held = 1 /\ call[d].path \in Paths /\ version = "V2"
             /\ call[d].path = NoPath => call[d].held = 0
  <2>1. call[d].held \in {0, 1} /\ call[d].resv \in {0, 1} /\ Shape(version, call[d])
    BY DEF Shapes, Types, CallType
  <2>2. QED
    BY <2>1, Names DEF Shape, Committing
<1>3. QED
  BY <1>1, <1>2

\* What a step of a call has in common with every other.
LEMMA CallFrame ==
    ASSUME Shapes, NEW c \in Calls, Request(c) \/ CallStep(c)
    PROVE  Frame(c)
<1>1. Shapes'
  BY RequestKeepsShapes, CallKeepsShapes
<1>2. \A t \in Threads : gen[t] \in Nat /\ gen'[t] \in Nat /\ gen'[t] >= gen[t]
  BY <1>1, CallAdvances DEF Shapes, Types, Advances
<1>3. QED
  BY <1>2, OtherCalls, SameVersion, HoldersShape DEF Frame

\* Every step keeps the tree in order.
LEMMA StepTreeInv == Shapes /\ TreeInv /\ [Next]_vars => TreeInv'
<1> SUFFICES ASSUME Shapes, TreeInv, [Next]_vars PROVE TreeInv'
  OBVIOUS
<1>0. \A d \in Calls : call[d].held = 1 => call[d].path \in Paths
  BY HoldersShape
<1>1. ASSUME NEW c \in Calls, Request(c) \/ CallStep(c) PROVE TreeInv'
  <2>0. Frame(c)
    BY <1>1, CallFrame
  <2>1. CASE Stays(c) \/ Counts(c)
    <3>1. /\ agent_tree' = agent_tree /\ call[c].held = 0 /\ call'[c].held = 0
          /\ version = "V2" => ~Committing(call'[c])
      BY <2>1 DEF Stays, Counts
    <3>2. QED
      BY <1>0, <2>0, <3>1, StaysKeepsTree
  <2>2. CASE Registers(c)
    <3>1. /\ call[c].path # NoPath => call[c].held = 1 /\ call[c].path \in Paths /\ version = "V2"
          /\ call[c].path = NoPath => call[c].held = 0
          /\ version \in {"V1", "V2"}
      BY <2>2, HoldersShape DEF Registers
    <3>2. QED
      BY <1>0, <2>0, <2>2, <3>1, RegistersKeepsTree
  <2>3. QED
    BY <1>0, <1>1, <2>0, <2>1, <2>2, RegistryStep, GivesUpKeepsTree, NotesRootKeepsTree,
       TakesPathKeepsTree, CreatesKeepsTree, ReleasesKeepsTree
<1>2. CASE UNCHANGED <<version, agent_tree, total_count, residents, pending_slots, gen, call>>
  BY <1>2 DEF TreeInv, TreeTypes, OncePerThread, HeldInv, FreshInv, Committing
<1>3. ASSUME NEW t \in Threads, ThreadStep(t) \/ RootEnds PROVE TreeInv'
  BY <1>2, <1>3, ThreadKeepsTypes DEF Shapes
<1>4. CASE UNCHANGED vars
  BY <1>2, <1>4 DEF vars, registry, residency, manager
<1>5. QED
  BY <1>1, <1>3, <1>4, Names DEF Next

-----------------------------------------------------------------------------
(***************************************************************************)
(* The count of agents.                                                    *)
(***************************************************************************)
CountInv ==
    /\ total_count \in Nat /\ IsFiniteSet(Registered)
    /\ Cardinality(Registered) + Cardinality(Reserving) <= total_count
    /\ version = "V1" => total_count <= Capacity

\* The calls with a reservation, after a step of c.
LEMMA ReservingAfter ==
    ASSUME Shapes, NEW c \in Calls, Frame(c)
    PROVE  /\ IsFiniteSet(Reserving) /\ Cardinality(Reserving) \in Nat
           /\ IsFiniteSet(Reserving') /\ Cardinality(Reserving') \in Nat
           /\ call'[c].resv = call[c].resv => Cardinality(Reserving') = Cardinality(Reserving)
           /\ call[c].resv = 0 /\ call'[c].resv = 1 =>
                  Cardinality(Reserving') = Cardinality(Reserving) + 1
           /\ call[c].resv = 1 /\ call'[c].resv = 0 =>
                  Cardinality(Reserving') = Cardinality(Reserving) - 1
<1>1. IsFiniteSet(Reserving)
  BY CallsAssumption, FS_Subset DEF Reserving
<1>2. Reserving' \ {c} = Reserving \ {c}
  BY DEF Reserving, Frame
<1>3. (c \in Reserving <=> call[c].resv = 1) /\ (c \in Reserving' <=> call'[c].resv = 1)
  BY DEF Reserving
<1> DEFINE S == Reserving
           T == Reserving'
<1>4. /\ IsFiniteSet(S) /\ T \ {c} = S \ {c}
      /\ (c \in S <=> call[c].resv = 1) /\ (c \in T <=> call'[c].resv = 1)
  BY <1>1, <1>2, <1>3
<1> HIDE DEF S, T
<1>5. /\ IsFiniteSet(T)
      /\ Cardinality(S) \in Nat /\ Cardinality(T) \in Nat
      /\ ((c \in S /\ c \in T) \/ (c \notin S /\ c \notin T)) => Cardinality(T) = Cardinality(S)
      /\ c \in T /\ c \notin S => Cardinality(T) = Cardinality(S) + 1
      /\ c \notin T /\ c \in S => Cardinality(T) = Cardinality(S) - 1
  BY <1>4, CountOne
<1>6. /\ IsFiniteSet(S) /\ Cardinality(S) \in Nat
      /\ IsFiniteSet(T) /\ Cardinality(T) \in Nat
      /\ call'[c].resv = call[c].resv => Cardinality(T) = Cardinality(S)
      /\ call[c].resv = 0 /\ call'[c].resv = 1 => Cardinality(T) = Cardinality(S) + 1
      /\ call[c].resv = 1 /\ call'[c].resv = 0 => Cardinality(T) = Cardinality(S) - 1
  BY <1>4, <1>5
<1>7. QED
  BY <1>6 DEF S, T

\* The places with a thread, when one of them changes.
LEMMA RegisteredAfter ==
    ASSUME NEW k \in Keys, IsFiniteSet(Registered),
           \A j \in Keys \ {RootPath, k} :
               agent_tree'[j] \in Threads <=> agent_tree[j] \in Threads
    PROVE  /\ IsFiniteSet(Registered')
           /\ Cardinality(Registered) \in Nat /\ Cardinality(Registered') \in Nat
           /\ Cardinality(Registered') <= Cardinality(Registered) + 1
           /\ k = RootPath \/ (agent_tree'[k] \in Threads <=> agent_tree[k] \in Threads) =>
                  Cardinality(Registered') = Cardinality(Registered)
           /\ k # RootPath /\ agent_tree[k] \in Threads /\ agent_tree'[k] \notin Threads =>
                  Cardinality(Registered') = Cardinality(Registered) - 1
<1>1. Registered' \ {k} = Registered \ {k}
  BY DEF Registered
<1>2. /\ k \in Registered <=> k # RootPath /\ agent_tree[k] \in Threads
      /\ k \in Registered' <=> k # RootPath /\ agent_tree'[k] \in Threads
  BY DEF Registered
<1> DEFINE S == Registered
           T == Registered'
<1>3. /\ IsFiniteSet(S) /\ T \ {k} = S \ {k}
      /\ k \in S <=> k # RootPath /\ agent_tree[k] \in Threads
      /\ k \in T <=> k # RootPath /\ agent_tree'[k] \in Threads
  BY <1>1, <1>2
<1> HIDE DEF S, T
<1>4. /\ IsFiniteSet(T)
      /\ Cardinality(S) \in Nat /\ Cardinality(T) \in Nat
      /\ ((k \in S /\ k \in T) \/ (k \notin S /\ k \notin T)) => Cardinality(T) = Cardinality(S)
      /\ k \in T /\ k \notin S => Cardinality(T) = Cardinality(S) + 1
      /\ k \notin T /\ k \in S => Cardinality(T) = Cardinality(S) - 1
  BY <1>3, CountOne
<1>5. /\ IsFiniteSet(T) /\ Cardinality(S) \in Nat /\ Cardinality(T) \in Nat
      /\ Cardinality(T) <= Cardinality(S) + 1
      /\ k = RootPath \/ (agent_tree'[k] \in Threads <=> agent_tree[k] \in Threads) =>
             Cardinality(T) = Cardinality(S)
      /\ k # RootPath /\ agent_tree[k] \in Threads /\ agent_tree'[k] \notin Threads =>
             Cardinality(T) = Cardinality(S) - 1
  BY <1>3, <1>4
<1>6. QED
  BY <1>5 DEF S, T

\* Every step keeps the count: what is uncounted was counted, once.
LEMMA StepCountInv == Shapes /\ TreeInv /\ CountInv /\ [Next]_vars => CountInv'
<1> SUFFICES ASSUME Shapes, TreeInv, CountInv, [Next]_vars PROVE CountInv'
  OBVIOUS
<1>a. ASSUME NEW c \in Calls, Request(c) \/ CallStep(c) PROVE CountInv'
  <2> DEFINE n == Cardinality(Registered)
             m == Cardinality(Reserving)
             n1 == Cardinality(Registered')
             m1 == Cardinality(Reserving')
  <2>0. Frame(c) /\ version' = version /\ Capacity \in Nat
    BY <1>a, CallFrame, CapacityAssumption DEF Frame
  <2>1. /\ m \in Nat /\ m1 \in Nat
        /\ call'[c].resv = call[c].resv => m1 = m
        /\ call[c].resv = 0 /\ call'[c].resv = 1 => m1 = m + 1
        /\ call[c].resv = 1 /\ call'[c].resv = 0 => m1 = m - 1
    BY <2>0, ReservingAfter
  <2>2. total_count \in Nat /\ n + m <= total_count /\ (version = "V1" => total_count <= Capacity)
        /\ call[c].resv \in {0, 1}
    BY HoldersShape DEF CountInv
  <2>t. agent_tree \in [Keys -> Threads \cup {Vacant, Reserved}] /\ RootPath \in Keys
    BY KeyKinds DEF TreeInv, TreeTypes
  <2>u. ASSUME NEW k \in Keys,
               \A j \in Keys \ {RootPath, k} :
                   agent_tree'[j] \in Threads <=> agent_tree[j] \in Threads
        PROVE  /\ IsFiniteSet(Registered') /\ n \in Nat /\ n1 \in Nat /\ n1 <= n + 1
               /\ k = RootPath \/ (agent_tree'[k] \in Threads <=> agent_tree[k] \in Threads) => n1 = n
               /\ k # RootPath /\ agent_tree[k] \in Threads /\ agent_tree'[k] \notin Threads =>
                      n1 = n - 1
    BY <2>u, RegisteredAfter DEF CountInv
  <2>f. ASSUME IsFiniteSet(Registered'), total_count' \in Nat, n1 + m1 <= total_count',
               version = "V1" => total_count' <= Capacity
        PROVE  CountInv'
    BY <2>0, <2>f DEF CountInv
  <2>s. ASSUME \A j \in Keys \ {RootPath} : agent_tree'[j] \in Threads <=> agent_tree[j] \in Threads
        PROVE  IsFiniteSet(Registered') /\ n \in Nat /\ n1 = n
    BY <2>s, <2>t, <2>u
  <2> HIDE DEF n, m, n1, m1
  <2>3. CASE Stays(c) \/ Creates(c) \/ NotesRoot(c) \/ TakesPath(c)
    <3>1. total_count' = total_count /\ call'[c].resv = call[c].resv
      BY <2>3 DEF Stays, Creates, NotesRoot, TakesPath
    <3>2. \A j \in Keys \ {RootPath} : agent_tree'[j] \in Threads <=> agent_tree[j] \in Threads
      <4>1. CASE Stays(c) \/ Creates(c)
        BY <4>1 DEF Stays, Creates
      <4>r. \A j \in Keys \ {RootPath} : RegisterRoot(agent_tree)[j] = agent_tree[j]
        BY RegisterRootValue DEF TreeInv
      <4>2. CASE NotesRoot(c)
        BY <4>2, <4>r DEF NotesRoot
      <4>3. CASE TakesPath(c)
        <5>1. PICK tree \in {agent_tree, RegisterRoot(agent_tree)} :
                  agent_tree' = [tree EXCEPT ![call[c].path] = Reserved]
          BY <4>3 DEF TakesPath
        <5>2. /\ tree \in [Keys -> Threads \cup {Vacant, Reserved}]
              /\ \A j \in Keys \ {RootPath} : tree[j] = agent_tree[j]
          BY <2>t, <4>r, RegisterRootValue DEF TreeInv
        <5>3. agent_tree[call[c].path] = Vacant
          BY <4>3 DEF TakesPath
        <5>4. QED
          BY <5>1, <5>2, <5>3, KeyKinds
      <4>4. QED
        BY <2>3, <4>1, <4>2, <4>3
    <3>3. QED
      BY <2>1, <2>2, <2>f, <2>s, <3>1, <3>2
  <2>4. CASE Counts(c)
    <3>1. /\ total_count' = total_count + 1 /\ call[c].resv = 0 /\ call'[c].resv = 1
          /\ version = "V1" => total_count < Capacity
          /\ \A j \in Keys \ {RootPath} : agent_tree'[j] \in Threads <=> agent_tree[j] \in Threads
      BY <2>4 DEF Counts
    <3>2. QED
      BY <2>0, <2>1, <2>2, <2>f, <2>s, <3>1
  <2>5. CASE GivesUp(c)
    <3>1. total_count' = total_count - call[c].resv /\ call'[c].resv = 0
      BY <2>5 DEF GivesUp
    <3>2. \A j \in Keys \ {RootPath} : agent_tree'[j] \in Threads <=> agent_tree[j] \in Threads
      BY <2>5, KeyKinds DEF GivesUp
    <3>3. m1 = m - call[c].resv
      BY <2>1, <2>2, <3>1
    <3>4. QED
      BY <2>0, <2>1, <2>2, <2>f, <2>s, <3>1, <3>2, <3>3
  <2>6. CASE Registers(c)
    <3> DEFINE k == IF call[c].path = NoPath THEN call[c].t ELSE call[c].path
    <3>1. /\ total_count' = total_count /\ call[c].resv = 1 /\ call'[c].resv = 0
          /\ agent_tree' = [agent_tree EXCEPT ![k] = call[c].t]
      BY <2>6 DEF Registers, Committing
    <3>2. k \in Keys
      <4>1. call[c].t \in Threads /\ (call[c].path # NoPath => call[c].path \in Paths)
        BY <2>6, HoldersShape, Names DEF Registers
      <4>2. QED
        BY <4>1, KeyKinds
    <3> HIDE DEF k
    <3>3. \A j \in Keys \ {RootPath, k} : agent_tree'[j] \in Threads <=> agent_tree[j] \in Threads
      BY <2>t, <3>1, <3>2
    <3>4. IsFiniteSet(Registered') /\ n \in Nat /\ n1 \in Nat /\ n1 <= n + 1
      BY <2>u, <3>2, <3>3
    <3>5. QED
      BY <2>0, <2>1, <2>2, <2>f, <3>1, <3>4
  <2>7. CASE Releases(c)
    <3>1. PICK k \in Keys :
               /\ agent_tree[k] \in Threads
               /\ agent_tree' = [agent_tree EXCEPT ![k] = Vacant]
               /\ total_count' = IF k = RootPath THEN total_count ELSE total_count - 1
      BY <2>7 DEF Releases
    <3>2. call'[c].resv = call[c].resv
      BY <2>7 DEF Releases
    <3>3. /\ \A j \in Keys \ {RootPath, k} : agent_tree'[j] \in Threads <=> agent_tree[j] \in Threads
          /\ agent_tree'[k] \notin Threads
      BY <2>t, <3>1, KeyKinds
    <3>4. /\ IsFiniteSet(Registered') /\ n \in Nat /\ n1 \in Nat
          /\ k = RootPath => n1 = n
          /\ k # RootPath => n1 = n - 1
      BY <2>u, <3>1, <3>3
    <3>5. CASE k = RootPath
      BY <2>0, <2>1, <2>2, <2>f, <3>1, <3>2, <3>4, <3>5
    <3>6. CASE k # RootPath
      BY <2>0, <2>1, <2>2, <2>f, <3>1, <3>2, <3>4, <3>6
    <3>7. QED
      BY <3>5, <3>6
  <2>8. QED
    BY <1>a, <2>3, <2>4, <2>5, <2>6, <2>7, RegistryStep
<1>b. CASE UNCHANGED <<version, agent_tree, total_count, residents, pending_slots, gen, call>>
  BY <1>b DEF CountInv, Registered, Reserving
<1>c. ASSUME NEW t \in Threads, ThreadStep(t) \/ RootEnds PROVE CountInv'
  BY <1>b, <1>c, ThreadKeepsTypes DEF Shapes
<1>d. CASE UNCHANGED vars
  BY <1>b, <1>d DEF vars, registry, residency, manager
<1>e. QED
  BY <1>a, <1>c, <1>d, Names DEF Next

-----------------------------------------------------------------------------
(***************************************************************************)
(* The initial states, and the theorems.                                   *)
(***************************************************************************)
\* A set all of whose elements are among n has at most n.
LEMMA RangeCount ==
    ASSUME NEW s, NEW n \in Nat, NEW R, \A k \in R : \E i \in 1 .. n : s[i] = k
    PROVE  IsFiniteSet(R) /\ Cardinality(R) <= n
<1> DEFINE T == {s[i] : i \in 1 .. n}
           f == [i \in 1 .. n |-> s[i]]
<1>1. f \in Surjection(1 .. n, T)
  BY DEF Surjection
<1>2. IsFiniteSet(1 .. n) /\ Cardinality(1 .. n) = n
  BY FS_Interval
<1>3. R \in SUBSET T
  OBVIOUS
<1> HIDE DEF T, f
<1>4. IsFiniteSet(T) /\ Cardinality(T) <= n
  BY <1>1, <1>2, FS_Surjection
<1>5. IsFiniteSet(R) /\ Cardinality(R) <= Cardinality(T)
  BY <1>3, <1>4, FS_Subset
<1>6. QED
  BY <1>4, <1>5, FS_CardinalityType

\* Where the agents of Spawned are at first.
LEMMA InitTree ==
    ASSUME Init
    PROVE  /\ agent_tree[RootPath] = Root
           /\ \A k \in Keys \ {RootPath} :
                \/ agent_tree[k] = Vacant
                \/ \E i \in 1 .. Len(Spawned) :
                      /\ agent_tree[k] = Spawned[i]
                      /\ version = "V1" => k = Spawned[i]
                      /\ version = "V2" => k = SpawnedPath[i]
           /\ gen[Root] = 1
           /\ \A i \in 1 .. Len(Spawned) : Spawned[i] \in SubAgents /\ gen[Spawned[i]] = 1
<1>0. /\ Spawned \in Seq(SubAgents) /\ SpawnedPath \in Seq(Paths) /\ Len(SpawnedPath) = Len(Spawned)
      /\ version \in {"V1", "V2"}
  BY SpawnedAssumption DEF Init, SubAgents
<1> DEFINE at == IF version = "V2" THEN SpawnedPath ELSE Spawned
<1>1. /\ DOMAIN at = 1 .. Len(Spawned) /\ DOMAIN Spawned = 1 .. Len(Spawned)
      /\ (version = "V1" => at = Spawned) /\ (version = "V2" => at = SpawnedPath)
  BY <1>0, LenProperties
<1>2. agent_tree = [k \in Keys |->
          IF k = RootPath THEN Root
          ELSE IF k \in ToSet(at) THEN Spawned[CHOOSE i \in DOMAIN at : at[i] = k]
          ELSE Vacant]
  BY DEF Init
<1> HIDE DEF at
<1>3. agent_tree[RootPath] = Root
  BY <1>2, KeyKinds
<1>4. ASSUME NEW k \in Keys \ {RootPath}, agent_tree[k] # Vacant
      PROVE  \E i \in 1 .. Len(Spawned) :
                 /\ agent_tree[k] = Spawned[i]
                 /\ version = "V1" => k = Spawned[i]
                 /\ version = "V2" => k = SpawnedPath[i]
  <2>1. k \in ToSet(at) /\ agent_tree[k] = Spawned[CHOOSE i \in DOMAIN at : at[i] = k]
    BY <1>2, <1>4
  <2>2. \E i \in DOMAIN at : at[i] = k
    BY <2>1 DEF ToSet
  <2>3. PICK i \in DOMAIN at : at[i] = k /\ i = CHOOSE j \in DOMAIN at : at[j] = k
    BY <2>2
  <2>4. i \in 1 .. Len(Spawned) /\ agent_tree[k] = Spawned[i]
    BY <1>1, <2>1, <2>3
  <2>5. QED
    BY <1>1, <2>3, <2>4
<1>5. ASSUME NEW t \in Threads, t = Root \/ t \in ToSet(Spawned) PROVE gen[t] = 1
  <2>1. loop[t] # "absent"
    BY <1>5 DEF Init
  <2>2. QED
    BY <2>1 DEF Init
<1>6. ASSUME NEW i \in 1 .. Len(Spawned) PROVE Spawned[i] \in SubAgents /\ gen[Spawned[i]] = 1
  <2>1. Spawned[i] \in SubAgents
    BY <1>0
  <2>2. Spawned[i] \in ToSet(Spawned)
    BY <1>1 DEF ToSet
  <2>3. QED
    BY <1>5, <2>1, <2>2, Names
<1>7. QED
  BY <1>3, <1>4, <1>5, <1>6, Names

\* The registry at first.
LEMMA InitTreeInv == Init => TreeInv /\ CountInv
<1> SUFFICES ASSUME Init PROVE TreeInv /\ CountInv
  OBVIOUS
<1> DEFINE n == Len(Spawned)
<1>0. /\ Spawned \in Seq(SubAgents) /\ SpawnedPath \in Seq(Paths) /\ Len(SpawnedPath) = n
      /\ n \in Nat /\ n <= Capacity /\ version \in {"V1", "V2"} /\ total_count = n
  BY SpawnedAssumption DEF Init, SubAgents
<1>1. \A i \in 1 .. n : SpawnedPath[i] \in Paths
  BY <1>0
<1>2. /\ \A i, j \in 1 .. n : Spawned[i] = Spawned[j] => i = j
      /\ \A i, j \in 1 .. n : SpawnedPath[i] = SpawnedPath[j] => i = j
  BY <1>0, SpawnedAssumption, LenProperties
<1>3. /\ agent_tree[RootPath] = Root
      /\ \A k \in Keys \ {RootPath} :
           \/ agent_tree[k] = Vacant
           \/ \E i \in 1 .. n :
                 /\ agent_tree[k] = Spawned[i]
                 /\ version = "V1" => k = Spawned[i]
                 /\ version = "V2" => k = SpawnedPath[i]
      /\ gen[Root] = 1
      /\ \A i \in 1 .. n : Spawned[i] \in SubAgents /\ gen[Spawned[i]] = 1
  BY InitTree
<1>c. \A c \in Calls : call[c].held = 0 /\ call[c].resv = 0
  BY DEF Init, Idle
<1>d. /\ DOMAIN agent_tree = Keys /\ agent_tree = [k \in Keys |-> agent_tree[k]]
  BY DEF Init
<1> HIDE DEF n
<1>4. TreeTypes
  <2>1. \A k \in Keys : agent_tree[k] \in Threads \cup {Vacant, Reserved}
    BY <1>3, KeyKinds
  <2>2. agent_tree \in [Keys -> Threads \cup {Vacant, Reserved}]
    BY <1>d, <2>1
  <2>3. ASSUME NEW t \in Threads PROVE agent_tree[t] \in {t, Vacant} /\ (t = Root => agent_tree[t] = Vacant)
    <3>1. t \in Keys \ {RootPath}
      BY KeyKinds
    <3>2. CASE agent_tree[t] # Vacant
      <4>1. PICK i \in 1 .. n : /\ agent_tree[t] = Spawned[i]
                                /\ version = "V1" => t = Spawned[i]
                                /\ version = "V2" => t = SpawnedPath[i]
        BY <1>3, <3>1, <3>2
      <4>2. version = "V1"
        BY <1>0, <1>1, <4>1, KeyKinds
      <4>3. QED
        BY <1>3, <4>1, <4>2, KeyKinds
    <3>3. QED
      BY <3>2
  <2>4. ASSUME NEW p \in Paths
        PROVE  agent_tree[p] \in {Vacant} \cup SubAgents /\ (version = "V1" => agent_tree[p] = Vacant)
    <3>1. p \in Keys \ {RootPath}
      BY KeyKinds
    <3>2. CASE agent_tree[p] # Vacant
      <4>1. PICK i \in 1 .. n : /\ agent_tree[p] = Spawned[i]
                                /\ version = "V1" => p = Spawned[i]
        BY <1>3, <3>1, <3>2
      <4>2. QED
        BY <1>3, <4>1, KeyKinds
    <3>3. QED
      BY <3>2
  <2>5. QED
    BY <1>3, <2>2, <2>3, <2>4, KeyKinds DEF TreeTypes
<1>5. OncePerThread
  <2>1. ASSUME NEW j \in Keys, NEW k \in Keys, agent_tree[j] = agent_tree[k], agent_tree[j] \in Threads
        PROVE  j = k
    <3>1. CASE j = RootPath \/ k = RootPath
      BY <1>3, <2>1, <3>1, KeyKinds
    <3>2. CASE j # RootPath /\ k # RootPath
      <4>1. PICK i \in 1 .. n : /\ agent_tree[j] = Spawned[i]
                                /\ version = "V1" => j = Spawned[i]
                                /\ version = "V2" => j = SpawnedPath[i]
        BY <1>3, <2>1, <3>2, KeyKinds
      <4>2. PICK l \in 1 .. n : /\ agent_tree[k] = Spawned[l]
                                /\ version = "V1" => k = Spawned[l]
                                /\ version = "V2" => k = SpawnedPath[l]
        BY <1>3, <2>1, <3>2, KeyKinds
      <4>3. i = l
        BY <1>2, <2>1, <4>1, <4>2
      <4>4. QED
        BY <1>0, <4>1, <4>2, <4>3
    <3>3. QED
      BY <3>1, <3>2
  <2>2. QED
    BY <2>1 DEF OncePerThread
<1>6. HeldInv
  <2>1. \A p \in Paths : agent_tree[p] # Reserved
    BY <1>3, KeyKinds
  <2>2. QED
    BY <1>c, <2>1 DEF HeldInv
<1>7. FreshInv
  <2>1. \A k \in Keys : agent_tree[k] \in Threads => gen[agent_tree[k]] > 0
    BY <1>3, KeyKinds
  <2>2. QED
    BY <1>3, <1>c, <2>1 DEF FreshInv, Committing
<1>8. CountInv
  <2> DEFINE s == IF version = "V2" THEN SpawnedPath ELSE Spawned
  <2>1. \A k \in Registered : \E i \in 1 .. n : s[i] = k
    BY <1>0, <1>3, KeyKinds DEF Registered
  <2> HIDE DEF s
  <2>2. IsFiniteSet(Registered) /\ Cardinality(Registered) <= n
    BY <1>0, <2>1, RangeCount
  <2>3. Reserving = {}
    BY <1>c DEF Reserving
  <2>4. Cardinality(Reserving) = 0 /\ Cardinality(Registered) \in Nat
    BY <2>2, <2>3, FS_EmptySet, FS_CardinalityType
  <2>5. QED
    BY <1>0, <2>2, <2>4 DEF CountInv
<1>9. QED
  BY <1>4, <1>5, <1>6, <1>7, <1>8 DEF TreeInv

\* No slot is handed out and nobody waits at first.
LEMMA InitSlotInv == Init => SlotInv /\ WaitInv
<1> SUFFICES ASSUME Init PROVE SlotInv /\ WaitInv
  OBVIOUS
<1>1. SlotHolders = {} /\ pending_slots = 0
  BY DEF SlotHolders, Init, Idle
<1>2. SlotInv
  BY <1>1, FS_EmptySet DEF SlotInv
<1>3. WaitInv
  BY DEF WaitInv, WaitOK, Waits, Init, Idle
<1>4. QED
  BY <1>2, <1>3

\* The invariant of AgentControl.
ControlInv == Shapes /\ SlotInv /\ WaitInv /\ TreeInv /\ CountInv

\* It holds in every state.
LEMMA ControlInvariant == Spec => []ControlInv
<1>1. Init => ControlInv
  BY InitShapes, InitSlotInv, InitTreeInv DEF ControlInv
<1>2. ControlInv /\ [Next]_vars => ControlInv'
  BY StepShapes, StepSlotInv, StepWaitInv, StepTreeInv, StepCountInv DEF ControlInv
<1>3. QED
  BY <1>1, <1>2, PTL DEF Spec

\* Type correctness: in particular no thread is twice among the residents, and neither
\* count falls below zero.
THEOREM WellTyped == Spec => []TypeOK
<1>1. ControlInv => TypeOK
  <2> SUFFICES ASSUME ControlInv PROVE TypeOK
    OBVIOUS
  <2>1. IsFiniteSet(SlotHolders)
    BY CallsAssumption, FS_Subset DEF SlotHolders
  <2>2. pending_slots \in Nat
    BY <2>1, FS_CardinalityType DEF ControlInv, SlotInv
  <2>3. QED
    BY <2>2 DEF TypeOK, ControlInv, Shapes, Types, ResidentsOK, CallType, TreeInv, TreeTypes, CountInv
<1>2. QED
  BY <1>1, ControlInvariant, PTL

\* The agents that are registered or being spawned are all counted, so a v1 session
\* never has more than its limit, however many agents, paths and calls there are.
THEOREM LimitHolds == Spec => []AgentLimitHolds
<1>1. ControlInv => AgentLimitHolds
  <2> SUFFICES ASSUME ControlInv PROVE AgentLimitHolds
    OBVIOUS
  <2>1. IsFiniteSet(Reserving)
    BY CallsAssumption, FS_Subset DEF Reserving
  <2>2. Cardinality(Registered) \in Nat /\ Cardinality(Reserving) \in Nat
    BY <2>1, FS_CardinalityType DEF ControlInv, CountInv
  <2>3. QED
    BY <2>2, CapacityAssumption DEF AgentLimitHolds, ControlInv, CountInv
<1>2. QED
  BY <1>1, ControlInvariant, PTL

\* Every residency slot and every reserved path belongs to exactly one call in flight,
\* and a thread is registered under one key: nothing leaks and nothing is given back
\* twice, whatever step of a spawn or reload fails.
THEOREM Held == Spec => []ReservationsHeld
<1>1. ControlInv => ReservationsHeld
  <2> SUFFICES ASSUME ControlInv PROVE ReservationsHeld
    OBVIOUS
  <2>1. pending_slots = Cardinality({c \in Calls : call[c].slot = 1})
    BY DEF ControlInv, SlotInv, SlotHolders
  <2>2. ASSUME NEW p \in Paths, agent_tree[p] = Reserved
        PROVE  Cardinality({c \in Calls : call[c].held = 1 /\ call[c].path = p}) = 1
    <3>1. PICK c \in Calls : call[c].held = 1 /\ call[c].path = p
      BY <2>2 DEF ControlInv, TreeInv, HeldInv
    <3>2. {d \in Calls : call[d].held = 1 /\ call[d].path = p} = {c}
      BY <3>1 DEF ControlInv, TreeInv, HeldInv
    <3>3. QED
      BY <3>2, FS_Singleton
  <2>3. \A c \in Calls : call[c].held = 1 => agent_tree[call[c].path] = Reserved
    BY DEF ControlInv, TreeInv, HeldInv
  <2>4. \A j, k \in Keys : agent_tree[j] = agent_tree[k] /\ agent_tree[j] \in Threads => j = k
    BY DEF ControlInv, TreeInv, OncePerThread
  <2>5. QED
    BY <2>1, <2>2, <2>3, <2>4 DEF ReservationsHeld
<1>2. QED
  BY <1>1, ControlInvariant, PTL

\* A call that waits for a thread to end waits for one that has ended, has been
\* replaced, or still has the shutdown in its queue.
THEOREM Wake == Spec => []WaitersWillWake
<1>1. ControlInv => WaitersWillWake
  <2> SUFFICES ASSUME ControlInv,
                      NEW c \in Calls, At(c, "await") \/ At(c, "wait")
               PROVE  LET t == IF At(c, "await") THEN call[c].cand ELSE call[c].t
                      IN Terminated(t, call[c].g)
                           \/ \E i \in DOMAIN queue[t] : queue[t][i] = "shutdown"
    BY DEF WaitersWillWake
  <2> DEFINE t == Awaited(call[c])
  <2>1. t = IF At(c, "await") THEN call[c].cand ELSE call[c].t
    BY DEF Awaited, At
  <2>2. t \in Threads /\ (gen[t] # call[c].g \/ ~Alive(loop[t]) \/ Told(queue[t]))
    BY DEF ControlInv, WaitInv, WaitOK, Waits, At
  <2> HIDE DEF t
  <2>3. queue[t] \in Seq(Subs) /\ "mail" \in Subs
    BY <2>2 DEF ControlInv, Shapes, Types, Subs
  <2>4. Told(queue[t]) => \E i \in DOMAIN queue[t] : queue[t][i] = "shutdown"
    BY <2>3, QueueKeepsShutdown
  <2>5. Terminated(t, call[c].g) \/ \E i \in DOMAIN queue[t] : queue[t][i] = "shutdown"
    BY <2>2, <2>4 DEF Terminated, Running, Alive
  <2>6. QED
    BY <2>1, <2>5
<1>2. QED
  BY <1>1, ControlInvariant, PTL

=============================================================================
