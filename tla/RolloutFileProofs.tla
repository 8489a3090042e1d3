-------------------------- MODULE RolloutFileProofs --------------------------
(***************************************************************************)
(* Proofs about RolloutFile, for any number of items, any capacity of the  *)
(* channel and any number of I/O errors.                                   *)
(*                                                                         *)
(* The invariant is built up in layers:                                    *)
(*  - Shapes: the recorder at each of its points, and the types;           *)
(*  - MemoryInv: the items in memory are in the order of recording, and    *)
(*    are none of those that were written or lost;                         *)
(*  - FileInv: which files there are while the recorder and the worker are *)
(*    at work, and how the worker's copies relate to them;                 *)
(*  - DataInv: in what order the files hold the items;                     *)
(*  - CleanInv: as long as no write was torn and no file in use removed,   *)
(*    every line of the files parses.                                      *)
(***************************************************************************)
EXTENDS RolloutFile, SequenceTheorems, TLAPS

CmdType == [op : Barriers \cup {"items"}, n : 0 .. MaxItems]
AnyCmd == [op : Barriers \cup {"items", "none", "resume"}, n : 0 .. MaxItems]

RecType == [pc : {"none", "idle", "materialize", "unzip", "open", "write"},
            chan : Seq(CmdType), open : BOOLEAN, pending : Seq(Items), meta : BOOLEAN,
            deferred : BOOLEAN, handle : {"none", "plain", "orphan"}, try : {0, 1, 2}, cmd : AnyCmd]

FileType == [here : BOOLEAN, data : Seq(Tokens), cold : BOOLEAN]
WorkerType == [pc : {"idle", "encode", "check", "persist", "recheck", "remove"},
               before : Seq(Tokens), temp : Seq(Tokens)]

\* A recorder r at each of its points.
Shape(r) ==
    /\ r \in RecType /\ Len(r.chan) <= Capacity
    /\ r.pc = "none" \/ r.cmd.op = "resume" =>
           r.chan = << >> /\ r.pending = << >> /\ r.open = FALSE /\ r.meta = FALSE
    /\ r.pc \in {"none", "materialize", "unzip", "open"} => r.handle = "none"
    /\ r.pc = "write" => r.handle # "none"
    /\ r.cmd.op = "resume" => r.pc \in {"materialize", "unzip", "open"}

Shapes ==
    /\ Shape(rec)
    /\ plain \in FileType /\ zst \in FileType /\ worker \in WorkerType
    /\ sent \in 0 .. MaxItems /\ faults \in 0 .. MaxFaults
    /\ torn \in BOOLEAN /\ unlinked \in BOOLEAN

-----------------------------------------------------------------------------
(***************************************************************************)
(* Shapes.                                                                 *)
(***************************************************************************)
\* Constants of the module.
LEMMA Parts ==
    /\ NoFile \in FileType /\ IdleWorker \in WorkerType
    /\ Gone = NoRecorder /\ Shape(NoRecorder) /\ Shape(NewRecorder)
    /\ NoCmd \in AnyCmd /\ CmdType \subseteq AnyCmd /\ MaxItems \in Nat /\ Capacity \in Nat
    /\ Capacity > 0 /\ MaxFaults \in Nat
<1>1. MaxItems \in Nat /\ Capacity \in Nat /\ Capacity > 0 /\ MaxFaults \in Nat
  BY BoundsAssumption
<1>2. NoCmd \in AnyCmd /\ CmdType \subseteq AnyCmd /\ NoCmd.op = "none"
  BY <1>1 DEF NoCmd, Cmd, AnyCmd, CmdType
<1>3. \A S : << >> \in Seq(S) /\ Len(<< >>) = 0
  BY EmptySeq
<1>4. NoFile \in FileType /\ IdleWorker \in WorkerType
  BY <1>3 DEF NoFile, FileType, IdleWorker, WorkerType
<1>5. NewRecorder \in RecType
  BY <1>2, <1>3 DEF NewRecorder, RecType
<1>6. Shape(NewRecorder)
  BY <1>1, <1>2, <1>3, <1>5 DEF Shape, NewRecorder
<1>7. NoRecorder \in RecType
  BY <1>5 DEF NoRecorder, RecType
<1>8. /\ NoRecorder.pc = "none" /\ NoRecorder.open = FALSE /\ NoRecorder.meta = FALSE
      /\ NoRecorder.chan = << >> /\ NoRecorder.pending = << >> /\ NoRecorder.handle = "none"
      /\ NoRecorder.cmd = NoCmd
  BY DEF NoRecorder, NewRecorder
<1>9. Shape(NoRecorder)
  BY <1>1, <1>2, <1>3, <1>7, <1>8 DEF Shape
<1>10. QED
  BY <1>1, <1>2, <1>4, <1>6, <1>9 DEF Gone

\* The end of a command.
LEMMA AnswerShape ==
    ASSUME NEW r, Shape(r), NEW ok \in BOOLEAN, Answer(r, ok), r.cmd.op # "resume"
    PROVE  /\ Shape(rec')
           /\ rec' = Gone \/ (rec'.chan = r.chan /\ rec'.pending = r.pending /\ rec'.meta = r.meta
                                /\ rec'.handle = r.handle /\ rec'.pc = "idle" /\ rec'.cmd = NoCmd)
<1> DEFINE x == [r EXCEPT !.pc = "idle", !.try = 0, !.cmd = NoCmd]
<1>1. r \in RecType
  BY DEF Shape
<1>2. x \in RecType
  BY <1>1, Parts DEF RecType
<1>3. /\ x.chan = r.chan /\ x.pending = r.pending /\ x.handle = r.handle /\ x.pc = "idle"
      /\ x.cmd = NoCmd /\ NoCmd.op = "none" /\ x.meta = r.meta
  BY <1>1 DEF RecType, NoCmd, Cmd
<1>4. rec' = Gone \/ rec' = x
  BY DEF Answer
<1> HIDE DEF x
<1>5. Shape(x)
  BY <1>2, <1>3 DEF Shape
<1>6. QED
  BY <1>3, <1>4, <1>5, Parts

\* An attempt to write.
LEMMA AttemptShape ==
    ASSUME NEW r, r \in RecType, Len(r.chan) <= Capacity, r.cmd.op # "resume", NEW n \in {1, 2}
    PROVE  LET x == Attempt(r, n)
           IN /\ Shape(x) /\ x.chan = r.chan /\ x.pending = r.pending /\ x.handle = r.handle
              /\ x.meta = r.meta /\ x.cmd = r.cmd /\ x.pc \in {"materialize", "write"}
<1> DEFINE x == Attempt(r, n)
<1>1. x \in RecType
  BY DEF RecType, Attempt
<1>2. /\ x.chan = r.chan /\ x.pending = r.pending /\ x.handle = r.handle /\ x.cmd = r.cmd
      /\ x.meta = r.meta
      /\ x.pc = IF r.handle = "none" THEN "materialize" ELSE "write"
  BY DEF RecType, Attempt
<1> HIDE DEF x
<1>3. Shape(x)
  BY <1>1, <1>2 DEF Shape
<1>4. QED
  BY <1>2, <1>3 DEF x

\* A write that failed is tried once more or reported; the recorder keeps what it has.
LEMMA FailedShape ==
    ASSUME NEW r, Shape(r), Failed(r), r.cmd.op # "resume"
    PROVE  /\ Shape(rec')
           /\ rec'.chan = r.chan /\ rec'.pending = r.pending /\ rec'.meta = r.meta
           /\ rec'.handle = "none" /\ rec'.cmd \in {r.cmd, NoCmd}
           /\ rec'.pc \in {"materialize", "idle"}
           /\ UNCHANGED <<acked, lost>>
<1> DEFINE x == [r EXCEPT !.handle = "none"]
<1>0. r \in RecType /\ Len(r.chan) <= Capacity
  BY DEF Shape
<1>1. x \in RecType
  BY <1>0 DEF RecType
<1>2. /\ x.chan = r.chan /\ x.pending = r.pending /\ x.handle = "none" /\ x.cmd = r.cmd
      /\ x.meta = r.meta /\ x.open = r.open
  BY <1>0 DEF RecType
<1>3. IF r.try = 1 THEN rec' = Attempt(x, 2) /\ UNCHANGED <<acked, lost>> ELSE Answer(x, FALSE)
  BY DEF Failed
<1> HIDE DEF x
<1>4. CASE r.try = 1
  <2>1. /\ Shape(Attempt(x, 2)) /\ Attempt(x, 2).chan = x.chan /\ Attempt(x, 2).pending = x.pending
        /\ Attempt(x, 2).handle = x.handle /\ Attempt(x, 2).cmd = x.cmd
        /\ Attempt(x, 2).meta = x.meta
        /\ Attempt(x, 2).pc \in {"materialize", "write"}
    BY <1>0, <1>1, <1>2, AttemptShape
  <2>2. Attempt(x, 2).pc = "materialize"
    BY <1>2, <2>1 DEF Shape
  <2>3. QED
    BY <1>2, <1>3, <1>4, <2>1, <2>2
<1>5. CASE r.try # 1
  <2> DEFINE y == [x EXCEPT !.pc = "idle", !.try = 0, !.cmd = NoCmd]
  <2>1. rec' = y /\ UNCHANGED <<acked, lost>>
    BY <1>3, <1>5 DEF Answer
  <2>2. y \in RecType
    BY <1>1, Parts DEF RecType
  <2>3. /\ y.chan = x.chan /\ y.pending = x.pending /\ y.handle = x.handle /\ y.pc = "idle"
        /\ y.cmd = NoCmd /\ NoCmd.op = "none" /\ y.meta = x.meta
    BY <1>1 DEF RecType, NoCmd, Cmd
  <2> HIDE DEF y
  <2>4. Shape(y)
    BY <1>0, <1>2, <2>2, <2>3 DEF Shape
  <2>5. QED
    BY <1>2, <2>1, <2>3, <2>4
<1>6. QED
  BY <1>4, <1>5

-----------------------------------------------------------------------------
(***************************************************************************)
(* The items in memory: p is the queue of pending items, q the channel and *)
(* n the number of items recorded.                                         *)
(***************************************************************************)
In(s, x) == \E i \in 1 .. Len(s) : s[i] = x
HasItem(q, x) == \E i \in 1 .. Len(q) : q[i].op = "items" /\ q[i].n = x

\* Both are in the order of recording, and what is pending was recorded first; a
\* barrier comes after what it covers.
InOrder(p, q, n) ==
    /\ \A i \in 1 .. Len(q) : q[i].n <= n /\ (q[i].op = "items" => q[i].n \in Items)
    /\ \A i, j \in 1 .. Len(q) : i < j =>
           q[i].n <= q[j].n /\ (q[j].op = "items" => q[i].n < q[j].n)
    /\ \A i \in 1 .. Len(p) : p[i] <= n
    /\ \A i, j \in 1 .. Len(p) : i < j => p[i] < p[j]
    /\ \A i \in 1 .. Len(p), j \in 1 .. Len(q) : q[j].op = "items" => p[i] < q[j].n

\* What command c covers is no longer in the channel.
Covers(c, q, n) ==
    c.op \in Barriers => /\ c.n <= n
                         /\ \A j \in 1 .. Len(q) : q[j].op = "items" => c.n < q[j].n

\* InMemory in these terms.
LEMMA MemoryIs ==
    ASSUME NEW r \in RecType
    PROVE  \A x : x \in InMemory(r) <=> In(r.pending, x) \/ HasItem(r.chan, x)
<1>1. r.pending \in Seq(Items) /\ r.chan \in Seq(CmdType)
  BY DEF RecType
<1>2. DOMAIN r.pending = 1 .. Len(r.pending) /\ DOMAIN r.chan = 1 .. Len(r.chan)
  BY <1>1, LenProperties
<1>3. QED
  BY <1>2 DEF InMemory, ToSet, In, HasItem

\* A sequence with an element added, and without its first.
LEMMA AppendPlaces ==
    ASSUME NEW S, NEW s \in Seq(S), NEW x \in S
    PROVE  /\ Append(s, x) \in Seq(S) /\ Len(Append(s, x)) = Len(s) + 1 /\ Len(s) \in Nat
           /\ \A i \in 1 .. Len(s) : i \in 1 .. Len(Append(s, x)) /\ Append(s, x)[i] = s[i]
           /\ Len(s) + 1 \in 1 .. Len(Append(s, x)) /\ Append(s, x)[Len(s) + 1] = x
           /\ \A i \in 1 .. Len(Append(s, x)) : i \in 1 .. Len(s) \/ i = Len(s) + 1
           /\ \A i \in 1 .. Len(s) : i < Len(s) + 1
           /\ \A y : In(Append(s, x), y) <=> In(s, y) \/ y = x
<1>1. /\ Append(s, x) \in Seq(S) /\ Len(Append(s, x)) = Len(s) + 1 /\ Len(s) \in Nat
      /\ \A i \in 1 .. Len(s) : Append(s, x)[i] = s[i]
      /\ Append(s, x)[Len(s) + 1] = x
  OBVIOUS
<1>2. /\ \A i \in 1 .. Len(s) : i \in 1 .. Len(Append(s, x)) /\ i < Len(s) + 1
      /\ \A i \in 1 .. Len(Append(s, x)) : i \in 1 .. Len(s) \/ i = Len(s) + 1
      /\ Len(s) + 1 \in 1 .. Len(Append(s, x))
  BY <1>1
<1>3. \A y : In(Append(s, x), y) <=> In(s, y) \/ y = x
  BY <1>1, <1>2 DEF In
<1>4. QED
  BY <1>1, <1>2, <1>3

\* See AppendPlaces.
LEMMA TailPlaces ==
    ASSUME NEW S, NEW s \in Seq(S), s # << >>
    PROVE  /\ Tail(s) \in Seq(S) /\ Len(Tail(s)) = Len(s) - 1 /\ Len(s) \in Nat
           /\ Head(s) \in S /\ Head(s) = s[1] /\ 1 \in 1 .. Len(s)
           /\ \A i \in 1 .. Len(Tail(s)) : /\ i + 1 \in 1 .. Len(s) /\ Tail(s)[i] = s[i + 1]
                                           /\ 1 < i + 1
           /\ \A i, j \in 1 .. Len(Tail(s)) : i < j => i + 1 < j + 1
           /\ \A y : In(s, y) <=> y = Head(s) \/ In(Tail(s), y)
<1>1. /\ Tail(s) \in Seq(S) /\ Len(Tail(s)) = Len(s) - 1 /\ Len(s) \in Nat
      /\ Head(s) \in S /\ Head(s) = s[1] /\ Len(s) >= 1
      /\ \A i \in 1 .. Len(Tail(s)) : Tail(s)[i] = s[i + 1]
  BY HeadTailProperties
<1>2. /\ \A i \in 1 .. Len(Tail(s)) : i + 1 \in 1 .. Len(s) /\ 1 < i + 1
      /\ \A i, j \in 1 .. Len(Tail(s)) : i < j => i + 1 < j + 1
      /\ 1 \in 1 .. Len(s)
  BY <1>1
<1>3. \A i \in 1 .. Len(s) : i = 1 \/ (i - 1 \in 1 .. Len(Tail(s)) /\ (i - 1) + 1 = i)
  BY <1>1
<1>4. ASSUME NEW y, In(s, y) PROVE y = Head(s) \/ In(Tail(s), y)
  <2>1. PICK i \in 1 .. Len(s) : s[i] = y
    BY <1>4 DEF In
  <2>2. CASE i = 1
    BY <1>1, <2>1, <2>2
  <2>3. CASE i # 1
    <3>1. i - 1 \in 1 .. Len(Tail(s)) /\ Tail(s)[i - 1] = s[(i - 1) + 1] /\ (i - 1) + 1 = i
      BY <1>1, <1>3, <2>3
    <3>2. QED
      BY <2>1, <3>1 DEF In
  <2>4. QED
    BY <2>2, <2>3
<1>5. ASSUME NEW y, y = Head(s) \/ In(Tail(s), y) PROVE In(s, y)
  BY <1>1, <1>2, <1>5 DEF In
<1>6. QED
  BY <1>1, <1>2, <1>4, <1>5

\* An item is recorded.
LEMMA RecordOrder ==
    ASSUME NEW p \in Seq(Items), NEW q \in Seq(CmdType), NEW n \in Nat, InOrder(p, q, n),
           n + 1 \in 0 .. MaxItems
    PROVE  LET w == Append(q, Cmd("items", n + 1))
           IN /\ w \in Seq(CmdType) /\ InOrder(p, w, n + 1)
              /\ \A c \in AnyCmd : Covers(c, q, n) => Covers(c, w, n + 1)
              /\ \A x : HasItem(w, x) <=> HasItem(q, x) \/ x = n + 1
<1> DEFINE c == Cmd("items", n + 1)
           w == Append(q, c)
<1>1. c \in CmdType /\ c.op = "items" /\ c.n = n + 1
  BY DEF Cmd, CmdType
<1> HIDE DEF c
<1>2. /\ w \in Seq(CmdType) /\ Len(w) = Len(q) + 1 /\ Len(q) \in Nat
      /\ \A i \in 1 .. Len(q) : i \in 1 .. Len(w) /\ w[i] = q[i]
      /\ Len(q) + 1 \in 1 .. Len(w) /\ w[Len(q) + 1] = c
      /\ \A i \in 1 .. Len(w) : i \in 1 .. Len(q) \/ i = Len(q) + 1
  BY <1>1, AppendPlaces
<1> HIDE DEF w
<1>3. ASSUME NEW i \in 1 .. Len(q) PROVE q[i].n < n + 1 /\ q[i].n <= n + 1
  <2>1. q[i] \in CmdType /\ q[i].n <= n
    BY DEF InOrder
  <2>2. q[i].n \in Nat
    BY <2>1, Parts DEF CmdType
  <2>3. QED
    BY <2>1, <2>2
<1>4. ASSUME NEW i \in 1 .. Len(p) PROVE p[i] < n + 1 /\ p[i] <= n + 1
  <2>1. p[i] \in Items /\ p[i] <= n
    BY DEF InOrder
  <2>2. p[i] \in Nat
    BY <2>1, Parts DEF Items
  <2>3. QED
    BY <2>1, <2>2
<1>5. \A i \in 1 .. Len(w) : w[i].n <= n + 1 /\ (w[i].op = "items" => w[i].n \in Items)
  <2>1. n + 1 \in Items /\ n + 1 <= n + 1
    BY Parts DEF Items
  <2>2. QED
    BY <1>1, <1>2, <1>3, <2>1 DEF InOrder
<1>6. ASSUME NEW i \in 1 .. Len(w), NEW j \in 1 .. Len(w), i < j
      PROVE  w[i].n <= w[j].n /\ (w[j].op = "items" => w[i].n < w[j].n)
  <2>1. i \in 1 .. Len(q)
    BY <1>2, <1>6
  <2>2. CASE j \in 1 .. Len(q)
    BY <1>2, <1>6, <2>1, <2>2 DEF InOrder
  <2>3. CASE j = Len(q) + 1
    BY <1>1, <1>2, <1>3, <2>1, <2>3
  <2>4. QED
    BY <1>2, <2>2, <2>3
<1>7. ASSUME NEW i \in 1 .. Len(p), NEW j \in 1 .. Len(w), w[j].op = "items" PROVE p[i] < w[j].n
  <2>1. CASE j \in 1 .. Len(q)
    BY <1>2, <1>7, <2>1 DEF InOrder
  <2>2. CASE j = Len(q) + 1
    BY <1>1, <1>2, <1>4, <2>2
  <2>3. QED
    BY <1>2, <2>1, <2>2
<1>8. InOrder(p, w, n + 1)
  BY <1>4, <1>5, <1>6, <1>7 DEF InOrder
<1>9. ASSUME NEW d \in AnyCmd, Covers(d, q, n) PROVE Covers(d, w, n + 1)
  <2>1. d.n \in Nat
    BY Parts DEF AnyCmd
  <2>2. SUFFICES ASSUME d.op \in Barriers
                 PROVE  d.n <= n + 1 /\ \A j \in 1 .. Len(w) : w[j].op = "items" => d.n < w[j].n
    BY DEF Covers
  <2>3. d.n <= n /\ \A j \in 1 .. Len(q) : q[j].op = "items" => d.n < q[j].n
    BY <1>9, <2>2 DEF Covers
  <2>4. d.n <= n + 1 /\ d.n < n + 1
    BY <2>1, <2>3
  <2>5. QED
    BY <1>1, <1>2, <2>3, <2>4
<1>10. \A x : HasItem(w, x) <=> HasItem(q, x) \/ x = n + 1
  BY <1>1, <1>2 DEF HasItem
<1>11. QED
  BY <1>2, <1>8, <1>9, <1>10 DEF w, c

\* A barrier is sent.
LEMMA BarrierOrder ==
    ASSUME NEW p \in Seq(Items), NEW q \in Seq(CmdType), NEW n \in 0 .. MaxItems, InOrder(p, q, n),
           NEW op \in Barriers
    PROVE  LET w == Append(q, Cmd(op, n))
           IN /\ w \in Seq(CmdType) /\ InOrder(p, w, n)
              /\ \A c \in AnyCmd : Covers(c, q, n) => Covers(c, w, n)
              /\ \A x : HasItem(w, x) <=> HasItem(q, x)
<1> DEFINE c == Cmd(op, n)
           w == Append(q, c)
<1>1. c \in CmdType /\ c.op # "items" /\ c.n = n /\ n \in Nat
  BY Parts DEF Cmd, CmdType, Barriers
<1> HIDE DEF c
<1>2. /\ w \in Seq(CmdType) /\ Len(w) = Len(q) + 1 /\ Len(q) \in Nat
      /\ \A i \in 1 .. Len(q) : i \in 1 .. Len(w) /\ w[i] = q[i]
      /\ Len(q) + 1 \in 1 .. Len(w) /\ w[Len(q) + 1] = c
      /\ \A i \in 1 .. Len(w) : i \in 1 .. Len(q) \/ i = Len(q) + 1
  BY <1>1, AppendPlaces
<1> HIDE DEF w
<1>5. \A i \in 1 .. Len(w) : w[i].n <= n /\ (w[i].op = "items" => w[i].n \in Items)
  BY <1>1, <1>2 DEF InOrder
<1>6. ASSUME NEW i \in 1 .. Len(w), NEW j \in 1 .. Len(w), i < j
      PROVE  w[i].n <= w[j].n /\ (w[j].op = "items" => w[i].n < w[j].n)
  <2>1. i \in 1 .. Len(q)
    BY <1>2, <1>6
  <2>2. CASE j \in 1 .. Len(q)
    BY <1>2, <1>6, <2>1, <2>2 DEF InOrder
  <2>3. CASE j = Len(q) + 1
    BY <1>1, <1>2, <1>5, <2>3
  <2>4. QED
    BY <1>2, <2>2, <2>3
<1>8. InOrder(p, w, n)
  BY <1>1, <1>2, <1>5, <1>6 DEF InOrder
<1>9. \A d \in AnyCmd : Covers(d, q, n) => Covers(d, w, n)
  BY <1>1, <1>2 DEF Covers
<1>10. \A x : HasItem(w, x) <=> HasItem(q, x)
  BY <1>1, <1>2 DEF HasItem
<1>11. QED
  BY <1>2, <1>8, <1>9, <1>10 DEF w, c

\* The writer takes the first command; an item goes behind the pending ones.
LEMMA TakeOrder ==
    ASSUME NEW p \in Seq(Items), NEW q \in Seq(CmdType), NEW n \in 0 .. MaxItems, InOrder(p, q, n),
           q # << >>
    PROVE  LET c == Head(q)
               w == IF c.op = "items" THEN Append(p, c.n) ELSE p
           IN /\ w \in Seq(Items) /\ InOrder(w, Tail(q), n) /\ Covers(c, Tail(q), n)
              /\ \A x : In(w, x) \/ HasItem(Tail(q), x) <=> In(p, x) \/ HasItem(q, x)
<1> DEFINE c == Head(q)
           t == Tail(q)
           w == IF c.op = "items" THEN Append(p, c.n) ELSE p
<1>1. /\ t \in Seq(CmdType) /\ Len(t) = Len(q) - 1 /\ Len(q) \in Nat
      /\ c \in CmdType /\ c = q[1] /\ 1 \in 1 .. Len(q)
      /\ \A i \in 1 .. Len(t) : i + 1 \in 1 .. Len(q) /\ t[i] = q[i + 1] /\ 1 < i + 1
      /\ \A i, j \in 1 .. Len(t) : i < j => i + 1 < j + 1
  BY TailPlaces
<1> HIDE DEF c, t
<1>h. c.op = "items" => c.n \in Items
  BY <1>1 DEF InOrder
<1>2. n \in Nat /\ c.n \in Nat /\ c.n <= n
  BY <1>1, Parts DEF InOrder, CmdType
<1>3. /\ \A i \in 1 .. Len(t) : t[i].op = "items" => t[i].n \in Items
      /\ \A i \in 1 .. Len(t) : t[i].n <= n /\ c.n <= t[i].n /\ (t[i].op = "items" => c.n < t[i].n)
      /\ \A i, j \in 1 .. Len(t) : i < j =>
             t[i].n <= t[j].n /\ (t[j].op = "items" => t[i].n < t[j].n)
      /\ \A i \in 1 .. Len(p), j \in 1 .. Len(t) : t[j].op = "items" => p[i] < t[j].n
  BY <1>1 DEF InOrder
<1>4. Covers(c, t, n)
  BY <1>2, <1>3 DEF Covers
<1>5. \A x : HasItem(q, x) <=> HasItem(t, x) \/ (c.op = "items" /\ c.n = x)
  <2>1. ASSUME NEW x, HasItem(q, x) PROVE HasItem(t, x) \/ (c.op = "items" /\ c.n = x)
    <3>1. PICK i \in 1 .. Len(q) : q[i].op = "items" /\ q[i].n = x
      BY <2>1 DEF HasItem
    <3>2. CASE i = 1
      BY <1>1, <3>1, <3>2
    <3>3. CASE i # 1
      <4>1. i - 1 \in 1 .. Len(t) /\ (i - 1) + 1 = i
        BY <1>1, <3>3
      <4>2. t[i - 1] = q[i]
        BY <1>1, <4>1
      <4>3. QED
        BY <3>1, <4>1, <4>2 DEF HasItem
    <3>4. QED
      BY <3>2, <3>3
  <2>2. ASSUME NEW x, HasItem(t, x) \/ (c.op = "items" /\ c.n = x) PROVE HasItem(q, x)
    BY <1>1, <2>2 DEF HasItem
  <2>3. QED
    BY <2>1, <2>2
<1>6. CASE c.op # "items"
  <2>1. w = p
    BY <1>6
  <2>2. InOrder(p, t, n)
    BY <1>3 DEF InOrder
  <2>3. QED
    BY <1>4, <1>5, <1>6, <2>1, <2>2 DEF c, t
<1>7. CASE c.op = "items"
  <2> DEFINE v == Append(p, c.n)
  <2>1. /\ v \in Seq(Items) /\ Len(v) = Len(p) + 1 /\ Len(p) \in Nat
        /\ \A i \in 1 .. Len(p) : i \in 1 .. Len(v) /\ v[i] = p[i]
        /\ Len(p) + 1 \in 1 .. Len(v) /\ v[Len(p) + 1] = c.n
        /\ \A i \in 1 .. Len(v) : i \in 1 .. Len(p) \/ i = Len(p) + 1
        /\ \A i \in 1 .. Len(p) : i < Len(p) + 1
        /\ \A y : In(v, y) <=> In(p, y) \/ y = c.n
    BY <1>7, <1>h, AppendPlaces
  <2>w. w = v
    BY <1>7
  <2> HIDE DEF v, w
  <2>2. \A i \in 1 .. Len(p) : p[i] < c.n /\ p[i] <= n
    BY <1>1, <1>7 DEF InOrder
  <2>3. \A i \in 1 .. Len(v) : v[i] <= n
    BY <1>2, <2>1, <2>2
  <2>4. ASSUME NEW i \in 1 .. Len(v), NEW j \in 1 .. Len(v), i < j PROVE v[i] < v[j]
    <3>1. i \in 1 .. Len(p)
      BY <2>1, <2>4
    <3>2. CASE j \in 1 .. Len(p)
      BY <2>1, <2>4, <3>1, <3>2 DEF InOrder
    <3>3. CASE j = Len(p) + 1
      BY <2>1, <2>2, <3>1, <3>3
    <3>4. QED
      BY <2>1, <3>2, <3>3
  <2>5. ASSUME NEW i \in 1 .. Len(v), NEW j \in 1 .. Len(t), t[j].op = "items" PROVE v[i] < t[j].n
    <3>1. CASE i \in 1 .. Len(p)
      BY <1>3, <2>1, <2>5, <3>1
    <3>2. CASE i = Len(p) + 1
      BY <1>3, <2>1, <2>5, <3>2
    <3>3. QED
      BY <2>1, <3>1, <3>2
  <2>6. InOrder(v, t, n)
    BY <1>3, <2>3, <2>4, <2>5 DEF InOrder
  <2>7. \A x : In(v, x) \/ HasItem(t, x) <=> In(p, x) \/ HasItem(q, x)
    BY <1>5, <1>7, <2>1
  <2>8. w \in Seq(Items) /\ InOrder(w, t, n) /\ (\A x : In(w, x) \/ HasItem(t, x) <=> In(p, x) \/ HasItem(q, x))
    BY <2>1, <2>6, <2>7, <2>w
  <2>9. QED
    BY <1>4, <2>8 DEF c, t, w
<1>8. QED
  BY <1>6, <1>7

\* The first pending item is written: everything else in memory is newer.
LEMMA WriteOrder ==
    ASSUME NEW p \in Seq(Items), NEW q \in Seq(CmdType), NEW n \in Nat, InOrder(p, q, n), p # << >>
    PROVE  /\ Tail(p) \in Seq(Items) /\ InOrder(Tail(p), q, n) /\ Head(p) \in Items /\ Head(p) <= n
           /\ \A x : In(p, x) <=> x = Head(p) \/ In(Tail(p), x)
           /\ \A x : In(Tail(p), x) \/ HasItem(q, x) => Head(p) < x
<1>1. /\ Tail(p) \in Seq(Items) /\ Len(Tail(p)) = Len(p) - 1 /\ Len(p) \in Nat
      /\ Head(p) \in Items /\ Head(p) = p[1] /\ 1 \in 1 .. Len(p)
      /\ \A i \in 1 .. Len(Tail(p)) : i + 1 \in 1 .. Len(p) /\ Tail(p)[i] = p[i + 1] /\ 1 < i + 1
      /\ \A i, j \in 1 .. Len(Tail(p)) : i < j => i + 1 < j + 1
      /\ \A y : In(p, y) <=> y = Head(p) \/ In(Tail(p), y)
  BY TailPlaces
<1>2. InOrder(Tail(p), q, n)
  BY <1>1 DEF InOrder
<1>3. \A x : In(Tail(p), x) \/ HasItem(q, x) => Head(p) < x
  BY <1>1 DEF In, HasItem, InOrder
<1>4. Head(p) <= n
  BY <1>1 DEF InOrder
<1>5. QED
  BY <1>1, <1>2, <1>3, <1>4

-----------------------------------------------------------------------------
(***************************************************************************)
(* What each action does to the recorder.                                  *)
(***************************************************************************)
\* What the later proofs read of the recorder, kept from r to s.
KeepsMemory(r, s) == s.chan = r.chan /\ s.pending = r.pending /\ s.meta = r.meta
Keeps(r, s) == KeepsMemory(r, s) /\ s.pc = r.pc /\ s.handle = r.handle /\ s.cmd = r.cmd

\* A command is sent.
LEMMA SendRec ==
    ASSUME Shape(rec), NEW c \in CmdType, Send(c)
    PROVE  /\ Shape(rec') /\ rec'.chan = Append(rec.chan, c) /\ rec'.pending = rec.pending
           /\ rec'.meta = rec.meta /\ rec'.pc = rec.pc /\ rec'.handle = rec.handle
           /\ rec'.cmd = rec.cmd
<1> DEFINE w == Append(rec.chan, c)
           x == [rec EXCEPT !.chan = w]
<1>1. rec \in RecType /\ Len(rec.chan) < Capacity /\ rec.open /\ rec' = x
  BY DEF Shape, Send
<1>2. rec.chan \in Seq(CmdType)
  BY <1>1 DEF RecType
<1>3. w \in Seq(CmdType) /\ Len(w) = Len(rec.chan) + 1 /\ Len(rec.chan) \in Nat
  BY <1>2
<1>4. Len(w) <= Capacity
  BY <1>1, <1>3, Parts
<1> HIDE DEF w
<1>5. x \in RecType
  BY <1>1, <1>3 DEF RecType
<1>6. /\ x.chan = w /\ x.pending = rec.pending /\ x.meta = rec.meta /\ x.pc = rec.pc
      /\ x.handle = rec.handle /\ x.cmd = rec.cmd
  BY <1>1 DEF RecType
<1> HIDE DEF x
<1>7. Shape(x)
  BY <1>1, <1>4, <1>5, <1>6 DEF Shape
<1>8. QED
  BY <1>1, <1>6, <1>7 DEF w

\* The sender is dropped.
LEMMA DiscardRec ==
    ASSUME Shape(rec), Discard
    PROVE  Shape(rec') /\ Keeps(rec, rec')
<1> DEFINE x == [rec EXCEPT !.open = FALSE]
<1>1. rec \in RecType /\ rec' = x
  BY DEF Shape, Discard
<1>2. x \in RecType
  BY <1>1 DEF RecType
<1>3. Keeps(rec, x) /\ x.open = FALSE
  BY <1>1 DEF RecType, Keeps, KeepsMemory
<1> HIDE DEF x
<1>4. Shape(x)
  BY <1>2, <1>3 DEF Shape, Keeps, KeepsMemory
<1>5. QED
  BY <1>1, <1>3, <1>4

\* A thread is resumed: a recorder without anything in memory.
LEMMA ResumeRec ==
    ASSUME Shape(rec), Resume
    PROVE  /\ Shape(rec') /\ KeepsMemory(rec, rec') /\ rec.pc = "none" /\ rec'.pc = "materialize"
           /\ rec'.handle = "none" /\ rec'.cmd.op = "resume" /\ rec'.meta = FALSE
<1> DEFINE k == Cmd("resume", 0)
           x == [NoRecorder EXCEPT !.pc = "materialize", !.cmd = k]
<1>1. rec.pc = "none" /\ rec' = x
  BY DEF Resume
<1>2. k \in AnyCmd /\ k.op = "resume"
  BY Parts DEF Cmd, AnyCmd
<1> HIDE DEF k
<1>3. Shape(NoRecorder) /\ NoRecorder \in RecType /\ NoRecorder.pc = "none"
  BY Parts DEF Shape, NoRecorder, NewRecorder
<1>4. x \in RecType
  BY <1>2, <1>3 DEF RecType
<1>5. /\ KeepsMemory(NoRecorder, x) /\ x.pc = "materialize" /\ x.cmd = k
      /\ x.open = NoRecorder.open /\ x.handle = NoRecorder.handle
  BY <1>3 DEF RecType, KeepsMemory
<1> HIDE DEF x
<1>6. NoRecorder.chan = << >> /\ NoRecorder.pending = << >> /\ NoRecorder.meta = FALSE
      /\ NoRecorder.open = FALSE /\ NoRecorder.handle = "none" /\ Len(NoRecorder.chan) <= Capacity
  BY <1>3 DEF Shape
<1>7. Shape(x)
  BY <1>2, <1>4, <1>5, <1>6 DEF Shape, KeepsMemory
<1>8. rec.chan = << >> /\ rec.pending = << >> /\ rec.meta = FALSE
  BY <1>1 DEF Shape
<1>9. QED
  BY <1>1, <1>2, <1>5, <1>6, <1>7, <1>8 DEF KeepsMemory

\* The recorder while the writer opens the file.
LEMMA MaterializeRec ==
    ASSUME Shape(rec), Materialize \/ Unzipped
    PROVE  /\ Shape(rec') /\ KeepsMemory(rec, rec') /\ rec'.handle = rec.handle
           /\ rec'.cmd = rec.cmd /\ rec'.pc \in {"unzip", "open"} /\ rec.pc \in {"materialize", "unzip"}
<1>1. rec \in RecType /\ rec.pc \in {"materialize", "unzip"}
  BY DEF Shape, Materialize, Unzipped
<1>2. PICK c \in {"unzip", "open"} : rec' = [rec EXCEPT !.pc = c]
  BY DEF Materialize, Unzipped
<1>3. rec' \in RecType
  BY <1>1, <1>2 DEF RecType
<1>4. /\ KeepsMemory(rec, rec') /\ rec'.handle = rec.handle /\ rec'.cmd = rec.cmd
      /\ rec'.open = rec.open /\ rec'.pc = c
  BY <1>1, <1>2 DEF RecType, KeepsMemory
<1>5. Shape(rec')
  BY <1>1, <1>3, <1>4 DEF Shape, KeepsMemory
<1>6. QED
  BY <1>1, <1>4, <1>5

\* The file is open, or a recorder that was to be resumed did not find it.
LEMMA OpenRec ==
    ASSUME Shape(rec), Open
    PROVE  /\ Shape(rec') /\ KeepsMemory(rec, rec') /\ rec'.pc \in {"none", "idle", "write"}
           /\ rec'.cmd \in {rec.cmd, NoCmd} /\ rec'.handle \in {"none", "plain"}
           /\ rec'.handle = "plain" => plain'.here
           /\ rec'.pc = "write" => rec.cmd.op # "resume"
<1>1. rec \in RecType /\ rec.pc = "open" /\ NoCmd.op = "none"
  BY DEF Shape, Open, NoCmd, Cmd
<1>2. CASE rec.cmd.op = "resume" /\ plain.here
  <2> DEFINE x == [rec EXCEPT !.pc = "idle", !.open = TRUE, !.handle = "plain", !.cmd = NoCmd]
  <2>1. rec' = x /\ plain' = plain
    BY <1>2 DEF Open
  <2>2. x \in RecType
    BY <1>1, Parts DEF RecType
  <2>3. KeepsMemory(rec, x) /\ x.pc = "idle" /\ x.handle = "plain" /\ x.cmd = NoCmd
    BY <1>1 DEF RecType, KeepsMemory
  <2> HIDE DEF x
  <2>4. Shape(x)
    BY <1>1, <2>2, <2>3 DEF Shape, KeepsMemory
  <2>5. QED
    BY <1>2, <2>1, <2>3, <2>4
<1>3. CASE rec.cmd.op = "resume" /\ ~plain.here
  <2>1. rec' = NoRecorder
    BY <1>3, Parts DEF Open
  <2>2. Shape(NoRecorder) /\ NoRecorder.pc = "none" /\ NoRecorder.cmd = NoCmd
    BY Parts DEF NoRecorder, NewRecorder
  <2>3. NoRecorder.chan = << >> /\ NoRecorder.pending = << >> /\ NoRecorder.meta = FALSE
        /\ NoRecorder.handle = "none"
    BY <2>2 DEF Shape
  <2>4. rec.chan = << >> /\ rec.pending = << >> /\ rec.meta = FALSE
    BY <1>3 DEF Shape
  <2>5. QED
    BY <2>1, <2>2, <2>3, <2>4 DEF KeepsMemory
<1>4. CASE rec.cmd.op # "resume"
  <2> DEFINE x == [rec EXCEPT !.pc = "write", !.handle = "plain", !.deferred = FALSE]
  <2>1. rec' = x /\ plain' = IF plain.here THEN plain ELSE [NoFile EXCEPT !.here = TRUE]
    BY <1>4 DEF Open
  <2>2. x \in RecType
    BY <1>1 DEF RecType
  <2>3. KeepsMemory(rec, x) /\ x.pc = "write" /\ x.handle = "plain" /\ x.cmd = rec.cmd
    BY <1>1 DEF RecType, KeepsMemory
  <2> HIDE DEF x
  <2>4. Shape(x)
    BY <1>1, <1>4, <2>2, <2>3 DEF Shape, KeepsMemory
  <2>5. plain'.here
    BY <2>1 DEF NoFile
  <2>6. QED
    BY <1>4, <2>1, <2>3, <2>4, <2>5
<1>5. QED
  BY <1>2, <1>3, <1>4

\* The recorder after a line was written.
LEMMA WriteLineRec ==
    ASSUME Shape(rec), WriteLine
    PROVE  /\ Shape(rec') /\ rec'.chan = rec.chan /\ rec'.pc = "write" /\ rec.pc = "write"
           /\ rec'.handle = rec.handle /\ rec'.cmd = rec.cmd /\ rec.handle # "none"
           /\ \/ /\ rec.meta = TRUE /\ rec'.meta = FALSE /\ rec'.pending = rec.pending
                 /\ NextLine = Meta
              \/ /\ rec.meta = FALSE /\ rec'.meta = FALSE /\ rec.pending # << >>
                 /\ rec'.pending = Tail(rec.pending) /\ NextLine = Head(rec.pending)
<1>1. rec \in RecType /\ rec.pc = "write" /\ rec' = Drained /\ (rec.meta \/ rec.pending # << >>)
  BY DEF Shape, WriteLine
<1>2. CASE rec.meta = TRUE
  <2> DEFINE x == [rec EXCEPT !.meta = FALSE]
  <2>1. rec' = x /\ NextLine = Meta
    BY <1>1, <1>2 DEF Drained, NextLine
  <2>2. x \in RecType
    BY <1>1 DEF RecType
  <2>3. /\ x.chan = rec.chan /\ x.pending = rec.pending /\ x.meta = FALSE /\ x.pc = rec.pc
        /\ x.handle = rec.handle /\ x.cmd = rec.cmd /\ x.open = rec.open
    BY <1>1 DEF RecType
  <2> HIDE DEF x
  <2>4. Shape(x) /\ rec.handle # "none"
    BY <1>1, <2>2, <2>3 DEF Shape
  <2>5. QED
    BY <1>1, <1>2, <2>1, <2>3, <2>4
<1>3. CASE rec.meta = FALSE
  <2> DEFINE t == Tail(rec.pending)
             x == [rec EXCEPT !.pending = t]
  <2>1. rec' = x /\ NextLine = Head(rec.pending) /\ rec.pending # << >>
    BY <1>1, <1>3 DEF Drained, NextLine
  <2>2. rec.pending \in Seq(Items)
    BY <1>1 DEF RecType
  <2>3. t \in Seq(Items)
    BY <2>1, <2>2, TailPlaces
  <2>t. t = Tail(rec.pending)
    OBVIOUS
  <2> HIDE DEF t
  <2>4. x \in RecType
    BY <1>1, <2>3 DEF RecType
  <2>5. /\ x.chan = rec.chan /\ x.pending = t /\ x.meta = rec.meta /\ x.pc = rec.pc
        /\ x.handle = rec.handle /\ x.cmd = rec.cmd /\ x.open = rec.open
    BY <1>1 DEF RecType
  <2> HIDE DEF x
  <2>6. Shape(x) /\ rec.handle # "none"
    BY <1>1, <2>1, <2>4, <2>5 DEF Shape
  <2>7. QED
    BY <1>1, <1>3, <2>1, <2>5, <2>6, <2>t
<1>4. rec.meta \in BOOLEAN
  BY <1>1 DEF RecType
<1>5. QED
  BY <1>2, <1>3, <1>4

\* The recorder after an error.
LEMMA FailsRec ==
    ASSUME Shape(rec), OpenFails \/ WriteFails
    PROVE  /\ Shape(rec') /\ KeepsMemory(rec, rec') /\ rec'.handle = "none"
           /\ rec'.cmd \in {rec.cmd, NoCmd} /\ rec'.pc \in {"materialize", "idle"}
           /\ UNCHANGED <<acked, lost>> /\ rec.pc \in {"open", "write"}
<1>1. Failed(rec) /\ rec.cmd.op # "resume" /\ rec.pc \in {"open", "write"}
  BY DEF OpenFails, WriteFails, Shape
<1>2. QED
  BY <1>1, FailedShape DEF KeepsMemory

\* The recorder after the worker removed the file.
LEMMA RemoveRec ==
    ASSUME Shape(rec), RemovePlain
    PROVE  /\ Shape(rec') /\ KeepsMemory(rec, rec') /\ rec'.pc = rec.pc /\ rec'.cmd = rec.cmd
           /\ rec'.handle = IF rec.handle = "plain" THEN "orphan" ELSE rec.handle
<1> DEFINE h == IF rec.handle = "plain" THEN "orphan" ELSE rec.handle
           x == [rec EXCEPT !.handle = h]
<1>1. rec \in RecType /\ rec' = x
  BY DEF Shape, RemovePlain
<1>2. h \in {"none", "plain", "orphan"} /\ (h = "none" <=> rec.handle = "none")
  BY <1>1 DEF RecType
<1> HIDE DEF h
<1>3. x \in RecType
  BY <1>1, <1>2 DEF RecType
<1>4. /\ KeepsMemory(rec, x) /\ x.pc = rec.pc /\ x.cmd = rec.cmd /\ x.handle = h
      /\ x.open = rec.open
  BY <1>1 DEF RecType, KeepsMemory
<1> HIDE DEF x
<1>5. Shape(x)
  BY <1>2, <1>3, <1>4 DEF Shape, KeepsMemory
<1>6. QED
  BY <1>1, <1>4, <1>5 DEF h

-----------------------------------------------------------------------------
(***************************************************************************)
(* Memory: p, q, c are the pending items, the channel and the command of a *)
(* recorder, n, w, l, a the numbers of items recorded, and the items       *)
(* written, lost and acknowledged.                                         *)
(***************************************************************************)
Conserved(p, q, n, w, l) ==
    /\ \A x : x \in 1 .. n <=> In(p, x) \/ HasItem(q, x) \/ x \in w \/ x \in l
    /\ \A x : In(p, x) \/ HasItem(q, x) => x \notin w /\ x \notin l
    /\ \A x : x \in w => x \notin l

Mem(p, q, c, n, w, l, a) ==
    /\ InOrder(p, q, n) /\ Covers(c, q, n)
    /\ Conserved(p, q, n, w, l)
    /\ a \subseteq w

MemOf(r) == Mem(r.pending, r.chan, r.cmd, sent, written, lost, acked)
MemoryInv == MemOf(rec)

\* The recorder that has received the first command of its channel.
Taken(r) ==
    /\ r = [rec EXCEPT !.chan = Tail(@), !.cmd = Head(rec.chan),
                       !.pending = IF Head(rec.chan).op = "items" THEN Append(@, Head(rec.chan).n) ELSE @]
    /\ rec.pc = "idle" /\ rec.chan # << >>

\* It has what it had.
LEMMA TakenRec ==
    ASSUME Shape(rec), MemoryInv, NEW r, Taken(r), sent \in 0 .. MaxItems
    PROVE  /\ Shape(r) /\ MemOf(r) /\ r.meta = rec.meta /\ r.handle = rec.handle
           /\ r.cmd.op \in Barriers \cup {"items"}
           /\ \A x : x \in InMemory(r) <=> x \in InMemory(rec)
<1> DEFINE q == rec.chan
           p == rec.pending
           c == Head(q)
           t == Tail(q)
           w == IF c.op = "items" THEN Append(p, c.n) ELSE p
<1>0. rec \in RecType /\ rec.pc = "idle" /\ q # << >>
  BY DEF Shape, Taken
<1>1. q \in Seq(CmdType) /\ p \in Seq(Items) /\ InOrder(p, q, sent) /\ Conserved(p, q, sent, written, lost)
      /\ acked \subseteq written
  BY <1>0 DEF RecType, MemoryInv, MemOf, Mem
<1>2. /\ w \in Seq(Items) /\ InOrder(w, t, sent) /\ Covers(c, t, sent)
      /\ \A x : In(w, x) \/ HasItem(t, x) <=> In(p, x) \/ HasItem(q, x)
  <2> HIDE DEF q, p
  <2>1. QED
    BY <1>0, <1>1, TakeOrder DEF c, t, w
<1>3. t \in Seq(CmdType) /\ c \in CmdType /\ Len(t) = Len(q) - 1 /\ Len(q) \in Nat
  <2> HIDE DEF q
  <2>1. QED
    BY <1>0, <1>1, TailPlaces
<1>4. r = [rec EXCEPT !.chan = t, !.cmd = c, !.pending = w]
  BY <1>0 DEF Taken, RecType
<1>5. c \in AnyCmd /\ c.op \in Barriers \cup {"items"} /\ c.op # "resume"
  BY <1>3, Parts DEF CmdType, Barriers
<1>6. Len(t) <= Capacity
  <2>1. Len(q) <= Capacity
    BY DEF Shape
  <2>2. QED
    BY <1>3, <2>1, Parts
<1> HIDE DEF t, w, c
<1>7. r \in RecType
  BY <1>0, <1>2, <1>3, <1>4, <1>5 DEF RecType
<1>8. /\ r.chan = t /\ r.pending = w /\ r.cmd = c /\ r.meta = rec.meta /\ r.handle = rec.handle
      /\ r.pc = rec.pc
  BY <1>0, <1>4 DEF RecType
<1>9. Shape(r)
  BY <1>0, <1>5, <1>6, <1>7, <1>8 DEF Shape
<1>10. Conserved(w, t, sent, written, lost)
  BY <1>1, <1>2 DEF Conserved
<1>11. MemOf(r)
  BY <1>1, <1>2, <1>8, <1>10 DEF MemOf, Mem
<1>12. \A x : x \in InMemory(r) <=> x \in InMemory(rec)
  BY <1>0, <1>2, <1>7, <1>8, MemoryIs
<1>13. QED
  BY <1>5, <1>8, <1>9, <1>11, <1>12

\* Receive in these terms.
LEMMA ReceiveIs ==
    ASSUME Shape(rec), MemoryInv, Receive, sent \in 0 .. MaxItems
    PROVE  \E r : /\ Taken(r)
                  /\ \/ Answer(r, TRUE) /\ (r.cmd.op \in Barriers => r.pending = << >>)
                     \/ rec' = Attempt(r, 1) /\ UNCHANGED <<acked, lost>>
<1> DEFINE r == [rec EXCEPT !.chan = Tail(@), !.cmd = Head(rec.chan),
                            !.pending = IF Head(rec.chan).op = "items" THEN Append(@, Head(rec.chan).n) ELSE @]
<1>1. Taken(r)
  BY DEF Receive, Taken
<1>2. IF NothingToWrite(r) THEN Answer(r, TRUE) ELSE rec' = Attempt(r, 1) /\ UNCHANGED <<acked, lost>>
  BY DEF Receive
<1> HIDE DEF r
<1>3. NothingToWrite(r) => (r.cmd.op \in Barriers => r.pending = << >>)
  BY DEF NothingToWrite, Barriers
<1>4. QED
  BY <1>1, <1>2, <1>3

\* A recorder that is gone has nothing in memory.
LEMMA GoneMem ==
    ASSUME NEW r, Shape(r), MemOf(r), NEW a, a \subseteq written
    PROVE  /\ Mem(Gone.pending, Gone.chan, Gone.cmd, sent, written, lost \cup InMemory(r), a)
           /\ \A x : x \notin InMemory(Gone)
<1>1. /\ Gone.pending = << >> /\ Gone.chan = << >> /\ Gone.cmd = NoCmd /\ Gone \in RecType
      /\ NoCmd.op \notin Barriers /\ Len(<< >>) = 0
  BY Parts DEF Shape, NoRecorder, NewRecorder, Gone, NoCmd, Cmd, Barriers
<1>2. \A x : ~In(<< >>, x) /\ ~HasItem(<< >>, x)
  BY <1>1 DEF In, HasItem
<1>3. \A x : x \in InMemory(r) <=> In(r.pending, x) \/ HasItem(r.chan, x)
  BY MemoryIs DEF Shape
<1>4. Conserved(<< >>, << >>, sent, written, lost \cup InMemory(r))
  BY <1>2, <1>3 DEF MemOf, Mem, Conserved
<1>5. InOrder(<< >>, << >>, sent)
  BY <1>1 DEF InOrder
<1>6. Covers(NoCmd, << >>, sent)
  BY <1>1 DEF Covers
<1>7. \A x : x \notin InMemory(Gone)
  BY <1>1, <1>2, MemoryIs
<1>8. QED
  BY <1>1, <1>4, <1>5, <1>6, <1>7 DEF Mem

\* A command that ends well: what it covers was written.
LEMMA AnswerMem ==
    ASSUME NEW r, Shape(r), MemOf(r), Answer(r, TRUE), r.cmd.op \in Barriers => r.pending = << >>,
           r.cmd.op # "resume", sent \in 0 .. MaxItems, UNCHANGED <<sent, written>>
    PROVE  /\ Shape(rec') /\ MemoryInv'
           /\ \A x : x \in InMemory(rec') => x \in InMemory(r)
           /\ rec'.meta => r.meta
           /\ rec'.handle \in {r.handle, "none"}
           /\ rec'.pc \in {"none", "idle"}
           /\ rec'.pc = "none" \/ rec'.meta = r.meta
<1> DEFINE c == r.cmd
<1>1. Shape(rec') /\ (rec' = Gone \/ (rec'.chan = r.chan /\ rec'.pending = r.pending /\ rec'.meta = r.meta
                        /\ rec'.handle = r.handle /\ rec'.pc = "idle" /\ rec'.cmd = NoCmd))
  BY AnswerShape
<1>2. r \in RecType /\ c \in AnyCmd
  BY DEF Shape, RecType
<1>3. c.n \in Nat /\ sent \in Nat
  BY <1>2, Parts DEF AnyCmd
<1>4. ASSUME c.op \in Barriers PROVE (1 .. c.n) \ lost \subseteq written
  <2>1. SUFFICES ASSUME NEW x \in 1 .. c.n, x \notin lost PROVE x \in written
    OBVIOUS
  <2>2. r.pending = << >> /\ Len(<< >>) = 0
    BY <1>4
  <2>3. c.n <= sent /\ \A j \in 1 .. Len(r.chan) : r.chan[j].op = "items" => c.n < r.chan[j].n
    BY <1>4 DEF MemOf, Mem, Covers
  <2>4. x \in 1 .. sent
    BY <1>3, <2>1, <2>3
  <2>5. ~In(r.pending, x)
    BY <2>2 DEF In
  <2>6. ASSUME HasItem(r.chan, x) PROVE FALSE
    <3>1. PICK j \in 1 .. Len(r.chan) : r.chan[j].op = "items" /\ r.chan[j].n = x
      BY <2>6 DEF HasItem
    <3>2. c.n < x
      BY <2>3, <3>1
    <3>3. QED
      BY <1>3, <2>1, <3>2
  <2>7. QED
    BY <2>1, <2>4, <2>5, <2>6 DEF MemOf, Mem, Conserved
<1>5. acked' \subseteq written
  BY <1>4 DEF Answer, MemOf, Mem
<1>6. CASE c.op = "shutdown"
  <2>1. rec' = Gone /\ lost' = lost \cup InMemory(r)
    BY <1>6 DEF Answer
  <2>2. Mem(Gone.pending, Gone.chan, Gone.cmd, sent, written, lost', acked') /\ \A x : x \notin InMemory(Gone)
    BY <1>5, <2>1, GoneMem
  <2>3. MemoryInv'
    BY <2>1, <2>2 DEF MemoryInv, MemOf
  <2>4. Gone.meta = FALSE /\ Gone.pc = "none" /\ Gone.handle = "none"
    BY DEF Gone, NoRecorder, NewRecorder
  <2>5. QED
    BY <1>1, <2>1, <2>2, <2>3, <2>4
<1>7. CASE c.op # "shutdown"
  <2> DEFINE x == [r EXCEPT !.pc = "idle", !.try = 0, !.cmd = NoCmd]
  <2>1. rec' = x /\ lost' = lost
    BY <1>7 DEF Answer
  <2>2. /\ x.chan = r.chan /\ x.pending = r.pending /\ x.meta = r.meta /\ x.handle = r.handle
        /\ x.pc = "idle" /\ x.cmd = NoCmd
    BY <1>2 DEF RecType
  <2> HIDE DEF x
  <2>3. Covers(NoCmd, r.chan, sent)
    BY DEF Covers, NoCmd, Cmd, Barriers
  <2>4. MemoryInv'
    BY <1>5, <2>1, <2>2, <2>3 DEF MemoryInv, MemOf, Mem
  <2>5. rec' \in RecType
    BY <1>1 DEF Shape
  <2>6. \A y : y \in InMemory(rec') => y \in InMemory(r)
    BY <1>2, <2>1, <2>2, <2>5, MemoryIs
  <2>7. QED
    BY <1>1, <2>1, <2>2, <2>4, <2>6
<1>8. QED
  BY <1>6, <1>7

\* What a step does to the memory, as the files see it.
Forward ==
    /\ \A x : x \in InMemory(rec') => x \in InMemory(rec) \/ x > sent
    /\ rec'.meta => rec.meta
    /\ sent \in Nat /\ sent' \in 0 .. MaxItems /\ sent <= sent'

MemNext ==
    /\ Shape(rec') /\ MemoryInv' /\ Forward
    /\ \/ rec'.pc = "none"
       \/ rec'.meta = rec.meta /\ rec.pc # "none"
       \/ Resume
       \/ WriteLine

\* A step that leaves the memory as it is.
LEMMA KeepMem ==
    ASSUME Shape(rec), Shape(rec'), MemoryInv, KeepsMemory(rec, rec'), sent \in 0 .. MaxItems,
           rec'.cmd = rec.cmd \/ rec'.cmd.op \notin Barriers, UNCHANGED <<sent, written, lost, acked>>
    PROVE  MemoryInv' /\ Forward
<1>1. Covers(rec'.cmd, rec.chan, sent)
  BY DEF MemoryInv, MemOf, Mem, Covers
<1>2. MemoryInv'
  BY <1>1 DEF MemoryInv, MemOf, Mem, KeepsMemory
<1>3. \A x : x \in InMemory(rec') => x \in InMemory(rec)
  BY MemoryIs DEF Shape, KeepsMemory
<1>4. sent \in Nat /\ sent <= sent
  BY Parts
<1>5. QED
  BY <1>2, <1>3, <1>4 DEF Forward, KeepsMemory

\* An item is recorded.
LEMMA RecordMem ==
    ASSUME Shape(rec), MemoryInv, sent \in 0 .. MaxItems, Record
    PROVE  MemNext
<1> DEFINE c == Cmd("items", sent + 1)
<1>1. sent \in Nat /\ sent + 1 \in 0 .. MaxItems /\ sent' = sent + 1 /\ Send(c)
      /\ UNCHANGED <<written, lost, acked>>
  BY Parts DEF Record, ghostVars
<1>2. c \in CmdType
  BY <1>1 DEF Cmd, CmdType
<1>3. /\ Shape(rec') /\ rec'.chan = Append(rec.chan, c) /\ rec'.pending = rec.pending
      /\ rec'.meta = rec.meta /\ rec'.pc = rec.pc /\ rec'.cmd = rec.cmd
  BY <1>1, <1>2, SendRec
<1>4. rec \in RecType /\ rec' \in RecType /\ rec.pending \in Seq(Items) /\ rec.chan \in Seq(CmdType)
      /\ rec.cmd \in AnyCmd
  BY <1>3 DEF Shape, RecType
<1>5. InOrder(rec.pending, rec.chan, sent) /\ Covers(rec.cmd, rec.chan, sent)
      /\ Conserved(rec.pending, rec.chan, sent, written, lost) /\ acked \subseteq written
  BY DEF MemoryInv, MemOf, Mem
<1>6. /\ InOrder(rec.pending, Append(rec.chan, c), sent + 1)
      /\ \A d \in AnyCmd : Covers(d, rec.chan, sent) => Covers(d, Append(rec.chan, c), sent + 1)
      /\ \A x : HasItem(Append(rec.chan, c), x) <=> HasItem(rec.chan, x) \/ x = sent + 1
  BY <1>1, <1>4, <1>5, RecordOrder
<1> HIDE DEF c
<1>7. \A x : x \in 1 .. (sent + 1) <=> x \in 1 .. sent \/ x = sent + 1
  BY <1>1
<1>8. sent + 1 \notin 1 .. sent
  BY <1>1
<1>9. Conserved(rec.pending, Append(rec.chan, c), sent + 1, written, lost)
  BY <1>5, <1>6, <1>7, <1>8 DEF Conserved
<1>10. MemoryInv'
  BY <1>1, <1>3, <1>4, <1>5, <1>6, <1>9 DEF MemoryInv, MemOf, Mem
<1>11. \A x : x \in InMemory(rec') => x \in InMemory(rec) \/ x = sent + 1
  BY <1>3, <1>4, <1>6, MemoryIs
<1>12. Forward
  BY <1>1, <1>3, <1>11 DEF Forward
<1>13. rec.pc # "none"
  BY <1>1 DEF Send, Shape
<1>14. QED
  BY <1>3, <1>10, <1>12, <1>13 DEF MemNext

\* A barrier is sent.
LEMMA BarrierMem ==
    ASSUME Shape(rec), MemoryInv, sent \in 0 .. MaxItems, NEW op \in Barriers, Barrier(op)
    PROVE  MemNext
<1> DEFINE c == Cmd(op, sent)
<1>1. sent \in Nat /\ sent <= sent /\ Send(c) /\ UNCHANGED <<sent, written, lost, acked>>
  BY Parts DEF Barrier, ghostVars
<1>2. c \in CmdType
  BY <1>1 DEF Cmd, CmdType
<1>3. /\ Shape(rec') /\ rec'.chan = Append(rec.chan, c) /\ rec'.pending = rec.pending
      /\ rec'.meta = rec.meta /\ rec'.pc = rec.pc /\ rec'.cmd = rec.cmd
  BY <1>1, <1>2, SendRec
<1>4. rec \in RecType /\ rec' \in RecType /\ rec.pending \in Seq(Items) /\ rec.chan \in Seq(CmdType)
      /\ rec.cmd \in AnyCmd
  BY <1>3 DEF Shape, RecType
<1>5. InOrder(rec.pending, rec.chan, sent) /\ Covers(rec.cmd, rec.chan, sent)
      /\ Conserved(rec.pending, rec.chan, sent, written, lost) /\ acked \subseteq written
  BY DEF MemoryInv, MemOf, Mem
<1>6. /\ InOrder(rec.pending, Append(rec.chan, c), sent)
      /\ \A d \in AnyCmd : Covers(d, rec.chan, sent) => Covers(d, Append(rec.chan, c), sent)
      /\ \A x : HasItem(Append(rec.chan, c), x) <=> HasItem(rec.chan, x)
  BY <1>1, <1>4, <1>5, BarrierOrder
<1> HIDE DEF c
<1>9. Conserved(rec.pending, Append(rec.chan, c), sent, written, lost)
  BY <1>5, <1>6 DEF Conserved
<1>10. MemoryInv'
  BY <1>1, <1>3, <1>4, <1>5, <1>6, <1>9 DEF MemoryInv, MemOf, Mem
<1>11. \A x : x \in InMemory(rec') => x \in InMemory(rec)
  BY <1>3, <1>4, <1>6, MemoryIs
<1>12. Forward
  BY <1>1, <1>3, <1>11 DEF Forward
<1>13. rec.pc # "none"
  BY <1>1 DEF Send, Shape
<1>14. QED
  BY <1>3, <1>10, <1>12, <1>13 DEF MemNext

\* A command is received.
LEMMA ReceiveMem ==
    ASSUME Shape(rec), MemoryInv, sent \in 0 .. MaxItems, Receive
    PROVE  /\ MemNext /\ rec'.handle \in {rec.handle, "none"}
           /\ rec'.pc \in {"none", "idle", "materialize", "write"}
<1>1. PICK r : /\ Taken(r)
               /\ \/ Answer(r, TRUE) /\ (r.cmd.op \in Barriers => r.pending = << >>)
                  \/ rec' = Attempt(r, 1) /\ UNCHANGED <<acked, lost>>
  BY ReceiveIs
<1>2. /\ Shape(r) /\ MemOf(r) /\ r.meta = rec.meta /\ r.handle = rec.handle
      /\ r.cmd.op \in Barriers \cup {"items"}
      /\ \A x : x \in InMemory(r) <=> x \in InMemory(rec)
  BY <1>1, TakenRec
<1>3. r.cmd.op # "resume" /\ rec.pc = "idle" /\ UNCHANGED <<sent, written>> /\ sent \in Nat /\ sent <= sent
  BY <1>2, Parts DEF Receive, Barriers
<1>4. CASE Answer(r, TRUE) /\ (r.cmd.op \in Barriers => r.pending = << >>)
  <2>1. /\ Shape(rec') /\ MemoryInv'
        /\ \A x : x \in InMemory(rec') => x \in InMemory(r)
        /\ rec'.meta => r.meta
        /\ rec'.handle \in {r.handle, "none"}
        /\ rec'.pc \in {"none", "idle"}
        /\ rec'.pc = "none" \/ rec'.meta = r.meta
    BY <1>2, <1>3, <1>4, AnswerMem
  <2>2. Forward
    BY <1>2, <1>3, <2>1 DEF Forward
  <2>3. QED
    BY <1>2, <1>3, <2>1, <2>2 DEF MemNext
<1>5. CASE rec' = Attempt(r, 1) /\ UNCHANGED <<acked, lost>>
  <2> DEFINE y == Attempt(r, 1)
  <2>1. /\ Shape(y) /\ y.chan = r.chan /\ y.pending = r.pending /\ y.handle = r.handle
        /\ y.meta = r.meta /\ y.cmd = r.cmd /\ y.pc \in {"materialize", "write"}
    BY <1>2, <1>3, AttemptShape DEF Shape
  <2>2. rec' = y
    BY <1>5
  <2> HIDE DEF y
  <2>3. MemoryInv'
    BY <1>2, <1>3, <1>5, <2>1, <2>2 DEF MemoryInv, MemOf
  <2>4. y \in RecType /\ r \in RecType
    BY <1>2, <2>1 DEF Shape
  <2>5. \A x : x \in InMemory(y) => x \in InMemory(r)
    BY <2>1, <2>4, MemoryIs
  <2>6. Forward
    BY <1>2, <1>3, <2>1, <2>2, <2>5 DEF Forward
  <2>7. QED
    BY <1>2, <1>3, <2>1, <2>2, <2>3, <2>6 DEF MemNext
<1>6. QED
  BY <1>1, <1>4, <1>5

\* The recorder ends.
LEMMA EndMem ==
    ASSUME Shape(rec), MemoryInv, sent \in 0 .. MaxItems, Ended \/ Crash
    PROVE  MemNext /\ rec'.handle = "none" /\ rec'.pc = "none"
<1>1. rec' = Gone /\ lost' = lost \cup InMemory(rec) /\ UNCHANGED <<sent, acked, written>>
  BY DEF Ended, Crash
<1>2. acked \subseteq written
  BY DEF MemoryInv, MemOf, Mem
<1>3. Mem(Gone.pending, Gone.chan, Gone.cmd, sent, written, lost \cup InMemory(rec), acked)
      /\ \A x : x \notin InMemory(Gone)
  BY <1>2, GoneMem DEF MemoryInv
<1>4. MemoryInv'
  BY <1>1, <1>3 DEF MemoryInv, MemOf
<1>5. Shape(Gone) /\ Gone.pc = "none" /\ Gone.meta = FALSE /\ Gone.handle = "none"
  BY Parts DEF Gone, NoRecorder, NewRecorder
<1>6. sent \in Nat /\ sent <= sent
  BY Parts
<1>7. Forward
  BY <1>1, <1>3, <1>5, <1>6 DEF Forward
<1>8. QED
  BY <1>1, <1>4, <1>5, <1>7 DEF MemNext

\* A line is written.
LEMMA WriteLineMem ==
    ASSUME Shape(rec), MemoryInv, sent \in 0 .. MaxItems, WriteLine
    PROVE  MemNext
<1>1. /\ Shape(rec') /\ rec'.chan = rec.chan /\ rec'.cmd = rec.cmd
      /\ \/ /\ rec.meta = TRUE /\ rec'.meta = FALSE /\ rec'.pending = rec.pending
            /\ NextLine = Meta
         \/ /\ rec.meta = FALSE /\ rec'.meta = FALSE /\ rec.pending # << >>
            /\ rec'.pending = Tail(rec.pending) /\ NextLine = Head(rec.pending)
  BY WriteLineRec
<1>2. written' = written \cup ({NextLine} \ {Meta}) /\ UNCHANGED <<sent, acked, lost>>
  BY DEF WriteLine
<1>3. sent \in Nat /\ sent <= sent /\ rec \in RecType /\ rec' \in RecType
  BY <1>1, Parts DEF Shape
<1>4. CASE rec.meta = TRUE
  <2>1. written' = written /\ KeepsMemory([rec EXCEPT !.meta = FALSE], rec') /\ rec'.pending = rec.pending
    BY <1>1, <1>2, <1>3, <1>4 DEF KeepsMemory, RecType
  <2>2. MemoryInv'
    BY <1>1, <1>2, <2>1 DEF MemoryInv, MemOf
  <2>3. \A x : x \in InMemory(rec') => x \in InMemory(rec)
    BY <1>1, <1>3, <2>1, MemoryIs
  <2>4. Forward
    BY <1>1, <1>2, <1>3, <1>4, <2>3 DEF Forward
  <2>5. QED
    BY <1>1, <2>2, <2>4 DEF MemNext
<1>5. CASE rec.meta = FALSE
  <2> DEFINE p == rec.pending
             h == Head(p)
  <2>1. p # << >> /\ rec'.pending = Tail(p) /\ NextLine = h /\ p \in Seq(Items) /\ rec.chan \in Seq(CmdType)
    BY <1>1, <1>3, <1>5 DEF RecType
  <2>2. InOrder(p, rec.chan, sent) /\ Conserved(p, rec.chan, sent, written, lost) /\ acked \subseteq written
        /\ Covers(rec.cmd, rec.chan, sent)
    BY DEF MemoryInv, MemOf, Mem
  <2> HIDE DEF p
  <2>3. /\ InOrder(Tail(p), rec.chan, sent) /\ h \in Items /\ h <= sent
        /\ \A x : In(p, x) <=> x = h \/ In(Tail(p), x)
        /\ \A x : In(Tail(p), x) \/ HasItem(rec.chan, x) => h < x
    BY <1>3, <2>1, <2>2, WriteOrder
  <2> HIDE DEF h
  <2>4. h # Meta /\ ~(h < h)
    BY <2>3, Parts DEF Items, Meta
  <2>5. written' = written \cup {h}
    BY <1>2, <2>1, <2>4
  <2>6. Conserved(Tail(p), rec.chan, sent, written', lost)
    BY <2>2, <2>3, <2>4, <2>5 DEF Conserved
  <2>7. MemoryInv'
    BY <1>1, <1>2, <2>1, <2>2, <2>3, <2>5, <2>6 DEF MemoryInv, MemOf, Mem
  <2>8. \A x : x \in InMemory(rec') => x \in InMemory(rec)
    BY <1>1, <1>3, <2>1, <2>3, MemoryIs DEF p
  <2>9. Forward
    BY <1>1, <1>2, <1>3, <1>5, <2>8 DEF Forward
  <2>10. QED
    BY <1>1, <2>7, <2>9 DEF MemNext
<1>6. QED
  BY <1>1, <1>4, <1>5

\* A command whose items are all written is answered.
LEMMA WriteDoneMem ==
    ASSUME Shape(rec), MemoryInv, sent \in 0 .. MaxItems, WriteDone
    PROVE  MemNext /\ rec'.handle \in {rec.handle, "none"} /\ rec'.pc \in {"none", "idle"}
<1>1. Answer(rec, TRUE) /\ rec.pending = << >> /\ rec.pc = "write" /\ UNCHANGED <<sent, written>>
  BY DEF WriteDone
<1>2. rec.cmd.op # "resume" /\ MemOf(rec) /\ sent \in Nat /\ sent <= sent
  BY <1>1, Parts DEF Shape, MemoryInv
<1>3. /\ Shape(rec') /\ MemoryInv'
      /\ \A x : x \in InMemory(rec') => x \in InMemory(rec)
      /\ rec'.meta => rec.meta
      /\ rec'.handle \in {rec.handle, "none"}
      /\ rec'.pc \in {"none", "idle"}
      /\ rec'.pc = "none" \/ rec'.meta = rec.meta
  BY <1>1, <1>2, AnswerMem
<1>4. Forward
  BY <1>1, <1>2, <1>3 DEF Forward
<1>5. QED
  BY <1>1, <1>3, <1>4 DEF MemNext

\* The worker's steps, save the removal, do not touch the recorder.
WorkerStep ==
    GetsCold \/ ConsiderCold \/ Encode \/ Check \/ PersistZst \/ Recheck \/ WorkerDies

\* Every step in these terms.
LEMMA StepMem ==
    ASSUME Shape(rec), MemoryInv, sent \in 0 .. MaxItems, Next
    PROVE  MemNext
<1>0. NoCmd.op \notin Barriers
  BY DEF NoCmd, Cmd, Barriers
<1>1. CASE Record
  BY <1>1, RecordMem
<1>2. CASE Discard
  <2>1. Shape(rec') /\ Keeps(rec, rec') /\ rec.open /\ UNCHANGED <<sent, written, lost, acked>>
    BY <1>2, DiscardRec DEF Discard, ghostVars
  <2>2. rec.pc # "none"
    BY <2>1 DEF Shape
  <2>3. KeepsMemory(rec, rec') /\ rec'.cmd = rec.cmd
    BY <2>1 DEF Keeps
  <2>4. QED
    BY <2>1, <2>2, <2>3, KeepMem DEF MemNext, KeepsMemory
<1>3. CASE Resume
  <2>1. /\ Shape(rec') /\ KeepsMemory(rec, rec') /\ rec'.cmd.op = "resume"
        /\ UNCHANGED <<sent, written, lost, acked>>
    BY <1>3, ResumeRec DEF Resume, ghostVars
  <2>2. rec'.cmd.op \notin Barriers
    BY <2>1 DEF Barriers
  <2>3. QED
    BY <1>3, <2>1, <2>2, KeepMem DEF MemNext
<1>4. CASE \E op \in Barriers : Barrier(op)
  BY <1>4, BarrierMem
<1>5. CASE Receive
  BY <1>5, ReceiveMem
<1>6. CASE Ended \/ Crash
  BY <1>6, EndMem
<1>7. CASE Materialize \/ Unzipped
  <2>1. /\ Shape(rec') /\ KeepsMemory(rec, rec') /\ rec'.cmd = rec.cmd
        /\ rec.pc \in {"materialize", "unzip"}
    BY <1>7, MaterializeRec
  <2>2. UNCHANGED <<sent, written, lost, acked>>
    BY <1>7 DEF Materialize, Unzipped, ghostVars
  <2>3. QED
    BY <2>1, <2>2, KeepMem DEF MemNext, KeepsMemory
<1>8. CASE Open
  <2>1. /\ Shape(rec') /\ KeepsMemory(rec, rec') /\ rec'.cmd \in {rec.cmd, NoCmd}
    BY <1>8, OpenRec
  <2>2. UNCHANGED <<sent, written, lost, acked>> /\ rec.pc = "open"
    BY <1>8 DEF Open, ghostVars
  <2>3. MemoryInv' /\ Forward
    BY <1>0, <2>1, <2>2, KeepMem
  <2>4. QED
    BY <2>1, <2>2, <2>3 DEF MemNext, KeepsMemory
<1>9. CASE OpenFails \/ WriteFails
  <2>1. /\ Shape(rec') /\ KeepsMemory(rec, rec') /\ rec'.cmd \in {rec.cmd, NoCmd}
        /\ UNCHANGED <<acked, lost>> /\ rec.pc \in {"open", "write"}
    BY <1>9, FailsRec
  <2>2. UNCHANGED <<sent, written>>
    BY <1>9 DEF OpenFails, WriteFails
  <2>3. MemoryInv' /\ Forward
    BY <1>0, <2>1, <2>2, KeepMem
  <2>4. QED
    BY <2>1, <2>2, <2>3 DEF MemNext, KeepsMemory
<1>10. CASE WriteLine
  BY <1>10, WriteLineMem
<1>11. CASE WriteDone
  BY <1>11, WriteDoneMem
<1>12. CASE RemovePlain
  <2>1. Shape(rec') /\ KeepsMemory(rec, rec') /\ rec'.pc = rec.pc /\ rec'.cmd = rec.cmd
    BY <1>12, RemoveRec
  <2>2. UNCHANGED <<sent, written, lost, acked>>
    BY <1>12 DEF RemovePlain
  <2>3. MemoryInv' /\ Forward
    BY <2>1, <2>2, KeepMem
  <2>4. QED
    BY <2>1, <2>2, <2>3 DEF MemNext, KeepsMemory
<1>13. CASE WorkerStep
  <2>1. UNCHANGED recVars
    BY <1>13 DEF WorkerStep, GetsCold, ConsiderCold, Encode, Check, PersistZst, Recheck, WorkerDies
  <2>2. rec' = rec /\ UNCHANGED <<sent, written, lost, acked>>
    BY <2>1 DEF recVars
  <2>3. Shape(rec') /\ KeepsMemory(rec, rec')
    BY <2>2 DEF KeepsMemory
  <2>4. MemoryInv' /\ Forward
    BY <2>2, <2>3, KeepMem
  <2>5. QED
    BY <2>2, <2>3, <2>4 DEF MemNext
<1>14. QED
  BY <1>1, <1>2, <1>3, <1>4, <1>5, <1>6, <1>7, <1>8, <1>9, <1>10, <1>11, <1>12, <1>13
     DEF Next, WorkerStep

\* What a step appends to a file is a sequence of tokens.
LEMMA AppendedType ==
    ASSUME plain \in FileType, NEW t \in Seq(Tokens), Appended(t)
    PROVE  /\ plain' \in FileType /\ plain'.here = plain.here
           /\ \/ plain' = plain /\ (rec.handle # "plain" \/ t = << >>)
              \/ /\ rec.handle = "plain" /\ t # << >> /\ plain'.data = plain.data \o t
                 /\ plain'.cold = FALSE
<1>1. CASE rec.handle = "plain" /\ t # << >>
  <2> DEFINE d == plain.data \o t
             x == [plain EXCEPT !.data = d, !.cold = FALSE]
  <2>1. plain' = x
    BY <1>1 DEF Appended
  <2>2. plain.data \in Seq(Tokens)
    BY DEF FileType
  <2>3. d \in Seq(Tokens)
    BY <2>2
  <2> HIDE DEF d
  <2>4. x \in FileType /\ x.here = plain.here /\ x.data = d /\ x.cold = FALSE
    BY <2>3 DEF FileType
  <2> HIDE DEF x
  <2>5. QED
    BY <1>1, <2>1, <2>4 DEF d
<1>2. CASE ~(rec.handle = "plain" /\ t # << >>)
  BY <1>2 DEF Appended
<1>3. QED
  BY <1>1, <1>2

\* The next line is the session meta or an item.
LEMMA NextLineIs ==
    ASSUME Shape(rec), rec.meta \/ rec.pending # << >>
    PROVE  /\ NextLine \in Items \cup {Meta}
           /\ <<NextLine, Eol>> \in Seq(Tokens) /\ Len(<<NextLine, Eol>>) = 2
           /\ {<< >>, <<Torn>>, <<NextLine>>} \subseteq Seq(Tokens)
           /\ <<NextLine, Eol>> # << >>
<1>1. rec.pending \in Seq(Items)
  BY DEF Shape, RecType
<1>2. NextLine \in Items \cup {Meta}
  BY <1>1, TailPlaces DEF NextLine
<1>3. NextLine \in Tokens /\ Eol \in Tokens /\ Torn \in Tokens
  BY <1>2 DEF Tokens
<1>4. QED
  BY <1>2, <1>3

\* The steps keep the types of the files.
LEMMA StepShapes ==
    ASSUME Shapes, MemoryInv, Next
    PROVE  Shapes'
<1>1. /\ Shape(rec) /\ plain \in FileType /\ zst \in FileType /\ worker \in WorkerType
      /\ sent \in 0 .. MaxItems /\ faults \in 0 .. MaxFaults
      /\ torn \in BOOLEAN /\ unlinked \in BOOLEAN
  BY DEF Shapes
<1>2. Shape(rec') /\ sent' \in 0 .. MaxItems
  BY <1>1, StepMem DEF MemNext, Forward
<1> DEFINE Typed == /\ plain' \in FileType /\ zst' \in FileType /\ worker' \in WorkerType
                    /\ faults' \in 0 .. MaxFaults /\ torn' \in BOOLEAN /\ unlinked' \in BOOLEAN
<1>3. SUFFICES Typed
  BY <1>2 DEF Shapes
<1>4. NoFile \in FileType /\ IdleWorker \in WorkerType /\ MaxFaults \in Nat
  BY Parts
<1>5. CASE Record \/ Discard \/ Resume \/ (\E op \in Barriers : Barrier(op)) \/ Receive \/ Ended \/ Crash
           \/ WriteDone
  <2>1. UNCHANGED <<plain, zst, worker, unlinked, faults, torn>>
    BY <1>5 DEF Record, Discard, Resume, Barrier, Receive, Ended, Crash, WriteDone, fileVars, ghostVars
  <2>2. QED
    BY <1>1, <2>1
<1>6. CASE Materialize
  <2>1. UNCHANGED <<zst, worker, unlinked, faults, torn>>
    BY <1>6 DEF Materialize, ghostVars
  <2>2. [zst EXCEPT !.cold = FALSE] \in FileType
    BY <1>1 DEF FileType
  <2>3. plain' \in FileType
    BY <1>1, <1>6, <2>2 DEF Materialize
  <2>4. QED
    BY <1>1, <2>1, <2>3
<1>7. CASE Unzipped
  BY <1>1, <1>4, <1>7 DEF Unzipped, ghostVars
<1>8. CASE Open
  <2>1. UNCHANGED <<zst, worker, unlinked, faults, torn>>
    BY <1>8 DEF Open, ghostVars
  <2>2. [NoFile EXCEPT !.here = TRUE] \in FileType
    BY <1>4 DEF FileType
  <2>3. plain' \in FileType
    BY <1>1, <1>8, <2>2 DEF Open
  <2>4. QED
    BY <1>1, <2>1, <2>3
<1>9. CASE OpenFails
  <2>1. UNCHANGED <<plain, zst, worker, unlinked, torn>> /\ faults < MaxFaults /\ faults' = faults + 1
    BY <1>9 DEF OpenFails, fileVars
  <2>2. faults' \in 0 .. MaxFaults
    BY <1>1, <1>4, <2>1
  <2>3. QED
    BY <1>1, <2>1, <2>2
<1>10. CASE WriteLine
  <2>1. UNCHANGED <<zst, worker, unlinked, faults, torn>> /\ Appended(<<NextLine, Eol>>)
        /\ (rec.meta \/ rec.pending # << >>)
    BY <1>10 DEF WriteLine
  <2>2. plain' \in FileType
    BY <1>1, <2>1, NextLineIs, AppendedType
  <2>3. QED
    BY <1>1, <2>1, <2>2
<1>11. CASE WriteFails
  <2>1. UNCHANGED <<zst, worker, unlinked>> /\ faults < MaxFaults /\ faults' = faults + 1
        /\ (rec.meta \/ rec.pending # << >>)
    BY <1>11 DEF WriteFails
  <2>2. PICK part \in {<< >>, <<Torn>>, <<NextLine>>} : Appended(part) /\ torn' = (torn \/ part # << >>)
    BY <1>11 DEF WriteFails
  <2>3. part \in Seq(Tokens)
    BY <1>1, <2>1, NextLineIs
  <2>4. plain' \in FileType
    BY <1>1, <2>2, <2>3, AppendedType
  <2>5. faults' \in 0 .. MaxFaults
    BY <1>1, <1>4, <2>1
  <2>6. QED
    BY <1>1, <2>1, <2>2, <2>4, <2>5
<1>12. CASE GetsCold
  <2>1. plain' = [plain EXCEPT !.cold = TRUE] /\ UNCHANGED <<zst, worker, unlinked, faults, torn>>
    BY <1>12 DEF GetsCold, recVars
  <2>2. QED
    BY <1>1, <2>1 DEF FileType
<1>13. CASE ConsiderCold
  <2>1. worker' = [IdleWorker EXCEPT !.pc = "encode", !.before = plain.data]
        /\ UNCHANGED <<plain, zst, unlinked, faults, torn>>
    BY <1>13 DEF ConsiderCold, recVars
  <2>2. plain.data \in Seq(Tokens)
    BY <1>1 DEF FileType
  <2>3. worker' \in WorkerType
    BY <1>4, <2>1, <2>2 DEF WorkerType
  <2>4. QED
    BY <1>1, <2>1, <2>3
<1>14. CASE Encode
  <2>1. worker' = [worker EXCEPT !.pc = "check", !.temp = plain.data]
        /\ UNCHANGED <<plain, zst, unlinked, faults, torn>>
    BY <1>14 DEF Encode, recVars
  <2>2. plain.data \in Seq(Tokens)
    BY <1>1 DEF FileType
  <2>3. worker' \in WorkerType
    BY <1>1, <2>1, <2>2 DEF WorkerType
  <2>4. QED
    BY <1>1, <2>1, <2>3
<1>15. \A c \in {"persist", "recheck", "remove"} : [worker EXCEPT !.pc = c] \in WorkerType
  BY <1>1 DEF WorkerType
<1>16. CASE Check
  BY <1>1, <1>4, <1>15, <1>16 DEF Check, Continue, recVars
<1>17. CASE PersistZst
  <2>1. [here |-> TRUE, data |-> worker.temp, cold |-> TRUE] \in FileType
    BY <1>1 DEF FileType, WorkerType
  <2>2. QED
    BY <1>1, <1>4, <1>15, <1>17, <2>1 DEF PersistZst, Continue, recVars
<1>18. CASE Recheck
  BY <1>1, <1>4, <1>15, <1>18 DEF Recheck, Continue, recVars
<1>19. CASE RemovePlain
  <2>1. InUse \in BOOLEAN
    BY DEF InUse
  <2>2. QED
    BY <1>1, <1>4, <1>19, <2>1 DEF RemovePlain
<1>20. CASE WorkerDies
  BY <1>1, <1>4, <1>20 DEF WorkerDies, recVars
<1>21. QED
  BY <1>5, <1>6, <1>7, <1>8, <1>9, <1>10, <1>11, <1>12, <1>13, <1>14, <1>16, <1>17, <1>18,
     <1>19, <1>20 DEF Next

-----------------------------------------------------------------------------
(***************************************************************************)
(* Prefixes.                                                               *)
(***************************************************************************)
Begins(s, t) == Len(s) <= Len(t) /\ \A i \in 1 .. Len(s) : t[i] = s[i]

\* IsPrefix in these terms.
LEMMA PrefixIs ==
    ASSUME NEW S, NEW s \in Seq(S), NEW t \in Seq(S), Begins(s, t)
    PROVE  IsPrefix(s, t)
<1>1. Len(s) \in Nat /\ Len(t) \in Nat /\ Len(s) <= Len(t)
  BY DEF Begins
<1>2. SubSeq(s, 1, Len(s)) \in Seq(S) /\ Len(SubSeq(s, 1, Len(s))) = Len(s)
      /\ \A i \in 1 .. Len(s) : SubSeq(s, 1, Len(s))[i] = s[i]
  BY <1>1
<1>3. SubSeq(t, 1, Len(s)) \in Seq(S) /\ Len(SubSeq(t, 1, Len(s))) = Len(s)
      /\ \A i \in 1 .. Len(s) : SubSeq(t, 1, Len(s))[i] = t[i]
  BY <1>1
<1>4. SubSeq(s, 1, Len(s)) = SubSeq(t, 1, Len(s))
  BY <1>2, <1>3, SeqEqual DEF Begins
<1>5. QED
  BY <1>1, <1>4 DEF IsPrefix

\* It is an order, and a sequence begins what is made of it by appending.
LEMMA BeginsOrder ==
    ASSUME NEW S
    PROVE  /\ \A s \in Seq(S) : Begins(s, s) /\ Begins(<< >>, s)
           /\ \A s, t, u \in Seq(S) : Begins(s, t) /\ Begins(t, u) => Begins(s, u)
           /\ \A s, t \in Seq(S) : Begins(s, t) /\ Begins(t, s) => s = t
           /\ \A s, t \in Seq(S) : Begins(s, s \o t) /\ s \o t \in Seq(S)
<1>1. ASSUME NEW s \in Seq(S) PROVE Begins(s, s) /\ Begins(<< >>, s)
  <2>1. Len(s) \in Nat /\ Len(<< >>) = 0
    OBVIOUS
  <2>2. QED
    BY <2>1 DEF Begins
<1>2. ASSUME NEW s \in Seq(S), NEW t \in Seq(S), NEW u \in Seq(S), Begins(s, t), Begins(t, u)
      PROVE  Begins(s, u)
  <2>1. Len(s) \in Nat /\ Len(t) \in Nat /\ Len(u) \in Nat /\ Len(s) <= Len(t) /\ Len(t) <= Len(u)
    BY <1>2 DEF Begins
  <2>2. Len(s) <= Len(u) /\ \A i \in 1 .. Len(s) : i \in 1 .. Len(t)
    BY <2>1
  <2>3. QED
    BY <1>2, <2>2 DEF Begins
<1>3. ASSUME NEW s \in Seq(S), NEW t \in Seq(S), Begins(s, t), Begins(t, s) PROVE s = t
  <2>1. Len(s) \in Nat /\ Len(t) \in Nat /\ Len(s) <= Len(t) /\ Len(t) <= Len(s)
    BY <1>3 DEF Begins
  <2>2. Len(s) = Len(t)
    BY <2>1
  <2>3. QED
    BY <1>3, <2>2, SeqEqual DEF Begins
<1>4. ASSUME NEW s \in Seq(S), NEW t \in Seq(S) PROVE Begins(s, s \o t) /\ s \o t \in Seq(S)
  <2>1. Len(s) \in Nat /\ Len(t) \in Nat /\ Len(s \o t) = Len(s) + Len(t) /\ s \o t \in Seq(S)
    OBVIOUS
  <2>2. \A i \in 1 .. Len(s) : (s \o t)[i] = s[i]
    OBVIOUS
  <2>3. Len(s) <= Len(s \o t)
    BY <2>1
  <2>4. QED
    BY <2>1, <2>2, <2>3 DEF Begins
<1>5. QED
  BY <1>1, <1>2, <1>3, <1>4

-----------------------------------------------------------------------------
(***************************************************************************)
(* The files.                                                              *)
(***************************************************************************)
Active == worker.pc # "idle"
Encoded == worker.pc \in {"check", "persist", "recheck", "remove"}

\* The files while the recorder and the worker are at work: the worker's copies are
\* beginnings of the plain file, and from Recheck on the compressed file is its copy.
FileInv ==
    /\ ~plain.here => plain.data = << >>
    /\ ~zst.here => zst.data = << >>
    /\ rec.handle = "plain" => plain.here
    /\ rec.handle = "orphan" => unlinked
    /\ Active => plain.here
    /\ rec.pc = "unzip" => plain.here /\ ~Active /\ ~plain.cold
    /\ rec.pc = "open" /\ ~unlinked => plain.here \/ ~zst.here
    /\ Active => Begins(worker.before, plain.data)
    /\ Encoded => Begins(worker.before, worker.temp) /\ Begins(worker.temp, plain.data)
    /\ worker.pc \in {"recheck", "remove"} => zst.here /\ zst.data = worker.temp

\* A step of the recorder that leaves the files alone.
LEMMA FilesAlone ==
    ASSUME FileInv, UNCHANGED fileVars, rec'.handle = "plain" => rec.handle = "plain",
           rec'.handle = "orphan" => rec.handle = "orphan", rec'.pc \in {"unzip", "open"} => rec'.pc = rec.pc
    PROVE  FileInv'
<1>1. UNCHANGED <<plain, zst, worker, unlinked>>
  BY DEF fileVars
<1>2. Active' = Active /\ Encoded' = Encoded
  BY <1>1 DEF Active, Encoded
<1>3. QED
  BY <1>1, <1>2 DEF FileInv

\* A write.
LEMMA FilesWrite ==
    ASSUME Shapes, FileInv, NEW t \in Seq(Tokens), Appended(t), UNCHANGED <<zst, worker, unlinked>>,
           rec'.handle = rec.handle \/ rec'.handle = "none", rec'.pc \notin {"unzip", "open"}
    PROVE  FileInv' /\ Begins(plain.data, plain'.data) /\ plain'.here = plain.here
<1>1. /\ plain' \in FileType /\ plain'.here = plain.here
      /\ \/ plain' = plain
         \/ rec.handle = "plain" /\ plain'.data = plain.data \o t
  BY AppendedType DEF Shapes
<1>2. plain.data \in Seq(Tokens) /\ worker.before \in Seq(Tokens) /\ worker.temp \in Seq(Tokens)
      /\ plain'.data \in Seq(Tokens)
  BY <1>1 DEF Shapes, FileType, WorkerType
<1>3. Begins(plain.data, plain'.data)
  <2>1. Begins(plain.data, plain.data) /\ Begins(plain.data, plain.data \o t)
    BY <1>2, BeginsOrder
  <2>2. QED
    BY <1>1, <2>1
<1>4. Active' = Active /\ Encoded' = Encoded
  BY DEF Active, Encoded
<1>5. Active => Begins(worker.before, plain'.data)
  BY <1>2, <1>3, BeginsOrder DEF FileInv
<1>6. Encoded => Begins(worker.temp, plain'.data)
  BY <1>2, <1>3, BeginsOrder DEF FileInv
<1>7. ~plain'.here => plain'.data = << >>
  BY <1>1 DEF FileInv
<1>8. QED
  BY <1>1, <1>3, <1>4, <1>5, <1>6, <1>7 DEF FileInv

\* What a reader sees grows, unless the worker removes a file in use.
Grows ==
    /\ Visible.here => Visible'.here
    /\ ~unlinked' => Begins(Visible.data, Visible'.data)

\* It does if the files stay as they are, or the plain file is there and grows.
LEMMA VisibleGrows ==
    ASSUME Shapes, UNCHANGED <<plain, zst>>
           \/ (plain.here /\ plain'.here /\ Begins(plain.data, plain'.data))
    PROVE  Grows
<1>1. Visible.data \in Seq(Tokens)
  BY DEF Visible, Shapes, FileType
<1>2. Begins(Visible.data, Visible.data)
  BY <1>1, BeginsOrder
<1>3. CASE UNCHANGED <<plain, zst>>
  <2>1. Visible' = Visible
    BY <1>3 DEF Visible
  <2>2. QED
    BY <1>2, <2>1 DEF Grows
<1>4. CASE plain.here /\ plain'.here /\ Begins(plain.data, plain'.data)
  <2>1. Visible = plain /\ Visible' = plain'
    BY <1>4 DEF Visible
  <2>2. QED
    BY <1>4, <2>1 DEF Grows
<1>5. QED
  BY <1>3, <1>4

\* The steps of the recorder.
LEMMA StepFilesRec ==
    ASSUME Shapes, MemoryInv, FileInv,
           Record \/ Discard \/ Resume \/ (\E op \in Barriers : Barrier(op)) \/ Receive \/ Ended \/ Crash
             \/ OpenFails \/ WriteDone
    PROVE  FileInv' /\ Grows
<1>0. Shape(rec) /\ sent \in 0 .. MaxItems
  BY DEF Shapes
<1>1. UNCHANGED fileVars
  BY DEF Record, Discard, Resume, Barrier, Receive, Ended, Crash, OpenFails, WriteDone
<1>2. CASE Record
  <2>1. Cmd("items", sent + 1) \in CmdType /\ Send(Cmd("items", sent + 1))
    BY <1>0, <1>2, Parts DEF Record, Cmd, CmdType
  <2>2. rec'.handle = rec.handle /\ rec'.pc = rec.pc
    BY <1>0, <2>1, SendRec
  <2>3. QED
    BY <1>1, <2>2, FilesAlone, VisibleGrows DEF fileVars
<1>3. CASE \E op \in Barriers : Barrier(op)
  <2>1. PICK op \in Barriers : Barrier(op)
    BY <1>3
  <2>2. Cmd(op, sent) \in CmdType /\ Send(Cmd(op, sent))
    BY <1>0, <2>1 DEF Barrier, Cmd, CmdType
  <2>3. rec'.handle = rec.handle /\ rec'.pc = rec.pc
    BY <1>0, <2>2, SendRec
  <2>4. QED
    BY <1>1, <2>3, FilesAlone, VisibleGrows DEF fileVars
<1>4. CASE Discard
  <2>1. rec'.handle = rec.handle /\ rec'.pc = rec.pc
    BY <1>0, <1>4, DiscardRec DEF Keeps
  <2>2. QED
    BY <1>1, <2>1, FilesAlone, VisibleGrows DEF fileVars
<1>5. CASE Resume
  <2>1. rec'.handle = "none" /\ rec'.pc = "materialize"
    BY <1>0, <1>5, ResumeRec
  <2>2. QED
    BY <1>1, <2>1, FilesAlone, VisibleGrows DEF fileVars
<1>6. CASE Receive
  <2>1. rec'.handle \in {rec.handle, "none"} /\ rec'.pc \in {"none", "idle", "materialize", "write"}
    BY <1>0, <1>6, ReceiveMem
  <2>2. QED
    BY <1>1, <2>1, FilesAlone, VisibleGrows DEF fileVars
<1>7. CASE Ended \/ Crash
  <2>1. rec'.handle = "none" /\ rec'.pc = "none"
    BY <1>0, <1>7, EndMem
  <2>2. QED
    BY <1>1, <2>1, FilesAlone, VisibleGrows DEF fileVars
<1>8. CASE OpenFails
  <2>1. rec'.handle = "none" /\ rec'.pc \in {"materialize", "idle"}
    BY <1>0, <1>8, FailsRec
  <2>2. QED
    BY <1>1, <2>1, FilesAlone, VisibleGrows DEF fileVars
<1>9. CASE WriteDone
  <2>1. rec'.handle \in {rec.handle, "none"} /\ rec'.pc \in {"none", "idle"}
    BY <1>0, <1>9, WriteDoneMem
  <2>2. QED
    BY <1>1, <2>1, FilesAlone, VisibleGrows DEF fileVars
<1>10. QED
  BY <1>2, <1>3, <1>4, <1>5, <1>6, <1>7, <1>8, <1>9

\* The steps that open, write, unpack or remove a file.
LEMMA StepFilesOpen ==
    ASSUME Shapes, FileInv, Materialize \/ Unzipped \/ Open \/ WriteLine \/ WriteFails
    PROVE  FileInv' /\ Grows
<1>0. Shape(rec) /\ plain \in FileType /\ zst \in FileType /\ worker \in WorkerType
  BY DEF Shapes
<1>1. plain.data \in Seq(Tokens) /\ zst.data \in Seq(Tokens)
  BY <1>0 DEF FileType
<1>2. Begins(plain.data, plain.data) /\ Begins(zst.data, zst.data) /\ \A s \in Seq(Tokens) : Begins(<< >>, s)
  BY <1>1, BeginsOrder
<1>3. CASE Materialize
  <2>1. UNCHANGED <<zst, worker, unlinked>> /\ rec.pc = "materialize"
    BY <1>3 DEF Materialize
  <2>2. Active' = Active /\ Encoded' = Encoded
    BY <2>1 DEF Active, Encoded
  <2>3. rec'.handle = "none"
    BY <1>0, <1>3, <2>1, MaterializeRec DEF Shape
  <2>4. CASE ~plain.here /\ zst.here
    <3> DEFINE x == [zst EXCEPT !.cold = FALSE]
    <3>1. plain' = x /\ rec' = [rec EXCEPT !.pc = "unzip"]
      BY <1>3, <2>4 DEF Materialize
    <3>2. x.here = zst.here /\ x.data = zst.data /\ x.cold = FALSE
      BY <1>0 DEF FileType
    <3> HIDE DEF x
    <3>3. rec'.pc = "unzip"
      BY <1>0, <3>1 DEF Shape, RecType
    <3>4. ~Active /\ ~Encoded /\ worker.pc \notin {"recheck", "remove"}
      BY <2>4 DEF FileInv, Active, Encoded
    <3>5. FileInv'
      BY <2>1, <2>2, <2>3, <2>4, <3>1, <3>2, <3>3, <3>4 DEF FileInv
    <3>6. Visible = zst /\ Visible' = plain' /\ plain'.here
      BY <2>4, <3>1, <3>2 DEF Visible
    <3>7. QED
      BY <1>2, <3>1, <3>2, <3>5, <3>6 DEF Grows
  <2>5. CASE ~(~plain.here /\ zst.here)
    <3>1. plain' = plain /\ rec' = [rec EXCEPT !.pc = "open"]
      BY <1>3, <2>5 DEF Materialize
    <3>2. rec'.pc = "open"
      BY <1>0, <3>1 DEF Shape, RecType
    <3>3. FileInv'
      BY <2>1, <2>2, <2>3, <2>5, <3>1, <3>2 DEF FileInv
    <3>4. QED
      BY <2>1, <3>1, <3>3, VisibleGrows
  <2>6. QED
    BY <2>4, <2>5
<1>4. CASE Unzipped
  <2>1. UNCHANGED <<plain, worker, unlinked>> /\ rec.pc = "unzip" /\ zst' = NoFile
        /\ rec' = [rec EXCEPT !.pc = "open"]
    BY <1>4 DEF Unzipped
  <2>2. Active' = Active /\ Encoded' = Encoded
    BY <2>1 DEF Active, Encoded
  <2>3. rec'.handle = "none" /\ rec'.pc = "open"
    BY <1>0, <2>1 DEF Shape, RecType
  <2>4. plain.here /\ ~Active /\ ~Encoded /\ worker.pc \notin {"recheck", "remove"}
    BY <2>1 DEF FileInv, Active, Encoded
  <2>5. ~zst'.here /\ zst'.data = << >>
    BY <2>1 DEF NoFile
  <2>6. FileInv'
    BY <2>1, <2>2, <2>3, <2>4, <2>5 DEF FileInv
  <2>7. QED
    BY <1>2, <2>1, <2>4, <2>6, VisibleGrows
<1>5. CASE Open
  <2>1. /\ UNCHANGED <<zst, worker, unlinked>> /\ rec.pc = "open"
        /\ \/ plain' = plain
           \/ ~plain.here /\ plain' = [NoFile EXCEPT !.here = TRUE]
    BY <1>5 DEF Open
  <2>2. /\ rec'.pc \in {"none", "idle", "write"} /\ rec'.handle \in {"none", "plain"}
        /\ rec'.handle = "plain" => plain'.here
    BY <1>0, <1>5, OpenRec
  <2>3. Active' = Active /\ Encoded' = Encoded
    BY <2>1 DEF Active, Encoded
  <2>4. CASE plain' = plain
    <3>1. FileInv'
      BY <2>1, <2>2, <2>3, <2>4 DEF FileInv
    <3>2. QED
      BY <2>1, <2>4, <3>1, VisibleGrows
  <2>5. CASE ~plain.here /\ plain' = [NoFile EXCEPT !.here = TRUE]
    <3>1. plain'.here /\ plain'.data = << >>
      BY <2>5 DEF NoFile
    <3>2. ~Active /\ ~Encoded /\ worker.pc \notin {"recheck", "remove"}
      BY <2>5 DEF FileInv, Active, Encoded
    <3>3. FileInv'
      BY <2>1, <2>2, <2>3, <3>1, <3>2 DEF FileInv
    <3>4. Visible = zst /\ Visible' = plain'
      BY <2>5, <3>1 DEF Visible
    <3>5. unlinked \/ zst.data = << >>
      BY <2>1, <2>5 DEF FileInv
    <3>6. Begins(<< >>, << >>)
      BY <1>2, EmptySeq
    <3>7. QED
      BY <2>1, <3>1, <3>3, <3>4, <3>5, <3>6 DEF Grows
  <2>6. QED
    BY <2>1, <2>4, <2>5
<1>6. CASE WriteLine \/ WriteFails
  <2>1. rec.pc = "write" /\ (rec.meta \/ rec.pending # << >>) /\ UNCHANGED <<zst, worker, unlinked>>
    BY <1>6 DEF WriteLine, WriteFails
  <2>2. PICK t \in {<<NextLine, Eol>>, << >>, <<Torn>>, <<NextLine>>} : Appended(t)
    BY <1>6 DEF WriteLine, WriteFails
  <2>3. t \in Seq(Tokens)
    BY <1>0, <2>1, <2>2, NextLineIs
  <2>4. (rec'.handle = rec.handle \/ rec'.handle = "none") /\ rec'.pc \notin {"unzip", "open"}
    BY <1>0, <1>6, WriteLineRec, FailsRec
  <2>5. FileInv' /\ Begins(plain.data, plain'.data) /\ plain'.here = plain.here
    BY <2>1, <2>2, <2>3, <2>4, FilesWrite
  <2>6. plain' = plain \/ rec.handle = "plain"
    BY <2>2 DEF Appended
  <2>7. plain' = plain \/ plain.here
    BY <2>6 DEF FileInv
  <2>8. QED
    BY <2>1, <2>5, <2>7, VisibleGrows
<1>7. QED
  BY <1>3, <1>4, <1>5, <1>6

\* The steps of the worker.
LEMMA StepFilesWorker ==
    ASSUME Shapes, FileInv, WorkerStep \/ RemovePlain
    PROVE  FileInv' /\ Grows
<1>0. Shape(rec) /\ plain \in FileType /\ zst \in FileType /\ worker \in WorkerType
  BY DEF Shapes
<1>1. plain.data \in Seq(Tokens) /\ zst.data \in Seq(Tokens) /\ worker.before \in Seq(Tokens)
      /\ worker.temp \in Seq(Tokens)
  BY <1>0 DEF FileType, WorkerType
<1>2. Begins(plain.data, plain.data)
  BY <1>1, BeginsOrder
<1>3. IdleWorker.pc = "idle" /\ ~NoFile.here /\ NoFile.data = << >>
  BY DEF IdleWorker, NoFile
<1>4. CASE GetsCold
  <2>1. plain' = [plain EXCEPT !.cold = TRUE] /\ rec.pc \in {"none", "idle"} /\ plain.here
        /\ UNCHANGED <<zst, worker, unlinked, rec>>
    BY <1>4 DEF GetsCold, recVars
  <2>2. plain'.here = plain.here /\ plain'.data = plain.data
    BY <1>0, <2>1 DEF FileType
  <2>3. FileInv'
    BY <2>1, <2>2 DEF FileInv, Active, Encoded
  <2>4. QED
    BY <1>2, <2>1, <2>2, <2>3, VisibleGrows
<1>5. CASE ConsiderCold
  <2>1. /\ worker' = [IdleWorker EXCEPT !.pc = "encode", !.before = plain.data] /\ plain.here /\ plain.cold
        /\ UNCHANGED <<plain, zst, unlinked, rec>>
    BY <1>5 DEF ConsiderCold, recVars
  <2>2. worker'.pc = "encode" /\ worker'.before = plain.data
    BY <2>1 DEF IdleWorker
  <2>3. FileInv'
    BY <1>2, <2>1, <2>2 DEF FileInv, Active, Encoded
  <2>4. QED
    BY <2>1, <2>3, VisibleGrows
<1>6. CASE Encode
  <2>1. /\ worker' = [worker EXCEPT !.pc = "check", !.temp = plain.data] /\ worker.pc = "encode"
        /\ UNCHANGED <<plain, zst, unlinked, rec>>
    BY <1>6 DEF Encode, recVars
  <2>2. worker'.pc = "check" /\ worker'.before = worker.before /\ worker'.temp = plain.data
    BY <1>0, <2>1 DEF WorkerType
  <2>3. FileInv'
    BY <1>2, <2>1, <2>2 DEF FileInv, Active, Encoded
  <2>4. QED
    BY <2>1, <2>3, VisibleGrows
<1>7. \A c \in {"persist", "recheck", "remove"} :
          LET w == [worker EXCEPT !.pc = c]
          IN w.pc = c /\ w.before = worker.before /\ w.temp = worker.temp
  BY <1>0 DEF WorkerType
<1>8. CASE Check
  <2>1. UNCHANGED <<plain, zst, unlinked, rec>> /\ worker.pc = "check"
    BY <1>8 DEF Check, recVars
  <2>2. worker' = IdleWorker \/ worker' = [worker EXCEPT !.pc = "persist"]
    BY <1>8 DEF Check, Continue
  <2>3. CASE worker' = IdleWorker
    BY <1>3, <2>1, <2>3, VisibleGrows DEF FileInv, Active, Encoded
  <2>4. CASE worker' = [worker EXCEPT !.pc = "persist"]
    <3>1. worker'.pc = "persist" /\ worker'.before = worker.before /\ worker'.temp = worker.temp
      BY <1>7, <2>4
    <3>2. FileInv'
      BY <2>1, <3>1 DEF FileInv, Active, Encoded
    <3>3. QED
      BY <2>1, <3>2, VisibleGrows
  <2>5. QED
    BY <2>2, <2>3, <2>4
<1>9. CASE PersistZst
  <2>1. UNCHANGED <<plain, unlinked, rec>> /\ worker.pc = "persist" /\ plain.here
    BY <1>9 DEF PersistZst, recVars, FileInv, Active
  <2>2. CASE zst.here
    <3>1. worker' = IdleWorker /\ zst' = zst
      BY <1>9, <2>2 DEF PersistZst
    <3>2. QED
      BY <1>3, <2>1, <3>1, VisibleGrows DEF FileInv, Active, Encoded
  <2>3. CASE ~zst.here
    <3>1. zst' = [here |-> TRUE, data |-> worker.temp, cold |-> TRUE] /\ worker' = [worker EXCEPT !.pc = "recheck"]
      BY <1>9, <2>3 DEF PersistZst, Continue
    <3>2. worker'.pc = "recheck" /\ worker'.before = worker.before /\ worker'.temp = worker.temp
      BY <1>7, <3>1
    <3>3. zst'.here /\ zst'.data = worker.temp
      BY <3>1
    <3>4. FileInv'
      BY <2>1, <3>2, <3>3 DEF FileInv, Active, Encoded
    <3>5. QED
      BY <1>2, <2>1, <3>4, VisibleGrows
  <2>4. QED
    BY <2>2, <2>3
<1>10. CASE Recheck
  <2>1. UNCHANGED <<plain, unlinked, rec>> /\ worker.pc = "recheck" /\ plain.here
    BY <1>10 DEF Recheck, recVars, FileInv, Active
  <2>2. CASE SameState
    <3>1. worker' = [worker EXCEPT !.pc = "remove"] /\ zst' = zst
      BY <1>10, <2>2 DEF Recheck, Continue
    <3>2. worker'.pc = "remove" /\ worker'.before = worker.before /\ worker'.temp = worker.temp
      BY <1>7, <3>1
    <3>3. FileInv'
      BY <2>1, <3>1, <3>2 DEF FileInv, Active, Encoded
    <3>4. QED
      BY <2>1, <3>1, <3>3, VisibleGrows
  <2>3. CASE ~SameState
    <3>1. worker' = IdleWorker /\ zst' = NoFile
      BY <1>10, <2>3 DEF Recheck
    <3>2. FileInv'
      BY <1>3, <2>1, <3>1 DEF FileInv, Active, Encoded
    <3>3. QED
      BY <1>2, <2>1, <3>2, VisibleGrows
  <2>4. QED
    BY <2>2, <2>3
<1>11. CASE RemovePlain
  <2>1. /\ plain' = NoFile /\ unlinked' = (unlinked \/ InUse) /\ worker' = IdleWorker /\ zst' = zst
        /\ worker.pc = "remove"
    BY <1>11 DEF RemovePlain
  <2>2. rec'.pc = rec.pc /\ rec'.handle = IF rec.handle = "plain" THEN "orphan" ELSE rec.handle
    BY <1>0, <1>11, RemoveRec
  <2>3. plain.here /\ zst.here /\ zst.data = worker.temp /\ Begins(worker.before, worker.temp)
        /\ Begins(worker.temp, plain.data)
    BY <2>1 DEF FileInv, Active, Encoded
  <2>4. rec.pc # "unzip"
    BY <2>1 DEF FileInv, Active
  <2>5. FileInv'
    BY <1>3, <2>1, <2>2, <2>3, <2>4 DEF FileInv, Active, Encoded, InUse
  <2>6. ~unlinked' => plain.data = worker.before
    BY <2>1 DEF InUse, SameState
  <2>7. ~unlinked' => worker.temp = plain.data
    BY <1>1, <2>3, <2>6, BeginsOrder
  <2>8. Visible = plain /\ Visible' = zst
    BY <1>3, <2>1, <2>3 DEF Visible
  <2>9. QED
    BY <1>2, <2>3, <2>5, <2>7, <2>8 DEF Grows
<1>12. CASE WorkerDies
  <2>1. UNCHANGED <<plain, zst, unlinked, rec>> /\ worker' = IdleWorker
    BY <1>12 DEF WorkerDies, recVars
  <2>2. QED
    BY <1>3, <2>1, VisibleGrows DEF FileInv, Active, Encoded
<1>13. QED
  BY <1>4, <1>5, <1>6, <1>8, <1>9, <1>10, <1>11, <1>12 DEF WorkerStep

\* Every step.
LEMMA StepFiles ==
    ASSUME Shapes, MemoryInv, FileInv, Next
    PROVE  FileInv' /\ Grows
BY StepFilesRec, StepFilesOpen, StepFilesWorker DEF Next, WorkerStep

-----------------------------------------------------------------------------
(***************************************************************************)
(* The order of the items in the files: d is what a file holds, M the set  *)
(* of items in memory, m says whether the session meta is still to be      *)
(* written, and n is the number of items recorded.                         *)
(***************************************************************************)
\* Items stand in the order of recording; what stands twice stands on one line.
Sorted(d) ==
    \A j, k \in 1 .. Len(d) :
        j < k /\ d[j] \in Items /\ d[k] \in Items =>
            d[j] <= d[k] /\ (d[j] = d[k] => \A i \in j .. k : d[i] # Eol)

\* What is in memory is newer than what the file holds, unless it is on the last,
\* unfinished line.
TailFree(d, M) ==
    \A x \in M, j \in 1 .. Len(d) :
        d[j] \in Items /\ d[j] >= x => d[j] = x /\ \A k \in j .. Len(d) : d[k] # Eol

Old(d, n) == \A j \in 1 .. Len(d) : d[j] <= n
NoItems(d) == \A j \in 1 .. Len(d) : d[j] \notin Items
GoodData(d, M, m, n) == Sorted(d) /\ TailFree(d, M) /\ Old(d, n) /\ (m => NoItems(d))

Datas == {plain.data, zst.data, worker.before, worker.temp}
DataInv == \A d \in Datas : GoodData(d, InMemory(rec), rec.meta, sent)

\* Tokens are numbers, and only items are positive.
LEMMA TokensAre ==
    /\ Tokens \subseteq Int /\ Items \subseteq Nat
    /\ Eol \notin Items /\ Torn \notin Items /\ Meta \notin Items
    /\ Torn # Eol /\ Meta # Eol /\ Eol \in Tokens /\ Torn \in Tokens /\ Meta \in Tokens
    /\ \A n \in Nat : Torn <= n /\ Meta <= n /\ Eol <= n
BY Parts DEF Tokens, Items, Eol, Torn, Meta

\* A sequence as a whole, without reference to what is in it.
LEMMA EmptyData ==
    ASSUME NEW M, NEW m, NEW n
    PROVE  GoodData(<< >>, M, m, n)
<1>1. Len(<< >>) = 0
  OBVIOUS
<1>2. 1 .. 0 = {}
  OBVIOUS
<1>3. QED
  BY <1>1, <1>2 DEF GoodData, Sorted, TailFree, Old, NoItems

\* A file that stays as it is while the memory goes forward.
LEMMA DataKeeps ==
    ASSUME NEW d \in Seq(Tokens), NEW M, NEW m, NEW n \in Nat, GoodData(d, M, m, n),
           NEW L \in SUBSET Nat, \A x \in L : x \in M \/ x > n, NEW l, l => m, NEW k \in Nat, n <= k
    PROVE  GoodData(d, L, l, k)
<1>1. \A j \in 1 .. Len(d) : d[j] \in Tokens
  OBVIOUS
<1>2. \A j \in 1 .. Len(d) : d[j] \in Int /\ d[j] <= n
  BY <1>1, TokensAre DEF GoodData, Old
<1>3. Old(d, k)
  BY <1>2 DEF Old
<1>4. ASSUME NEW x \in L, NEW j \in 1 .. Len(d), d[j] \in Items, d[j] >= x
      PROVE  d[j] = x /\ \A i \in j .. Len(d) : d[i] # Eol
  <2>1. ~(x > n)
    BY <1>2, <1>4
  <2>2. x \in M
    BY <2>1
  <2>3. QED
    BY <1>4, <2>2 DEF GoodData, TailFree
<1>5. TailFree(d, L)
  BY <1>4 DEF TailFree
<1>6. QED
  BY <1>3, <1>5 DEF GoodData

\* A token that ends no line is appended: an item only if it is the oldest in memory.
LEMMA DataToken ==
    ASSUME NEW d \in Seq(Tokens), NEW M \in SUBSET Nat, NEW m, NEW n \in Nat, GoodData(d, M, m, n),
           NEW y \in Tokens, y # Eol, y <= n,
           y \in Items => ~m /\ y \in M /\ \A x \in M : y <= x
    PROVE  GoodData(Append(d, y), M, m, n) /\ Append(d, y) \in Seq(Tokens)
<1> DEFINE e == Append(d, y)
           z == Len(d) + 1
<1>1. /\ e \in Seq(Tokens) /\ Len(e) = z /\ Len(d) \in Nat
      /\ \A i \in 1 .. Len(d) : i \in 1 .. Len(e) /\ e[i] = d[i]
      /\ z \in 1 .. Len(e) /\ e[z] = y
      /\ \A i \in 1 .. Len(e) : i \in 1 .. Len(d) \/ i = z
      /\ \A i \in 1 .. Len(d) : i < z
  BY AppendPlaces
<1> HIDE DEF e
<1>2. \A i \in 1 .. Len(d) : d[i] \in Int
  <2>1. \A i \in 1 .. Len(d) : d[i] \in Tokens
    OBVIOUS
  <2>2. QED
    BY <2>1, TokensAre
<1>3. y \in Int /\ Items \subseteq Nat
  BY TokensAre
<1>4. ASSUME NEW j \in 1 .. Len(e), NEW k \in 1 .. Len(e), j < k, e[j] \in Items, e[k] \in Items
      PROVE  e[j] <= e[k] /\ (e[j] = e[k] => \A i \in j .. k : e[i] # Eol)
  <2>1. j \in 1 .. Len(d)
    BY <1>1, <1>4
  <2>2. CASE k \in 1 .. Len(d)
    <3>1. d[j] <= d[k] /\ (d[j] = d[k] => \A i \in j .. k : d[i] # Eol)
      BY <1>1, <1>4, <2>1, <2>2 DEF GoodData, Sorted
    <3>2. \A i \in j .. k : i \in 1 .. Len(d)
      BY <1>1, <2>1, <2>2
    <3>3. QED
      BY <1>1, <2>1, <2>2, <3>1, <3>2
  <2>3. CASE k = z
    <3>1. e[k] = y /\ y \in Items /\ y \in M /\ e[j] = d[j] /\ d[j] \in Items
      BY <1>1, <1>4, <2>1, <2>3
    <3>2. d[j] >= y => d[j] = y /\ \A i \in j .. Len(d) : d[i] # Eol
      BY <2>1, <3>1 DEF GoodData, TailFree
    <3>3. d[j] <= y
      BY <1>2, <1>3, <2>1, <3>2
    <3>4. ASSUME d[j] = y, NEW i \in j .. k PROVE e[i] # Eol
      <4>1. d[j] >= y
        BY <1>3, <3>4
      <4>2. i = z \/ (i \in j .. Len(d) /\ i \in 1 .. Len(d))
        BY <1>1, <2>1, <2>3
      <4>3. QED
        BY <1>1, <3>2, <4>1, <4>2
    <3>5. QED
      BY <3>1, <3>3, <3>4
  <2>4. QED
    BY <1>1, <2>2, <2>3
<1>5. ASSUME NEW x \in M, NEW j \in 1 .. Len(e), e[j] \in Items, e[j] >= x
      PROVE  e[j] = x /\ \A k \in j .. Len(e) : e[k] # Eol
  <2>1. CASE j \in 1 .. Len(d)
    <3>1. d[j] = x /\ \A k \in j .. Len(d) : d[k] # Eol
      BY <1>1, <1>5, <2>1 DEF GoodData, TailFree
    <3>2. \A k \in j .. Len(e) : k = z \/ (k \in j .. Len(d) /\ k \in 1 .. Len(d))
      BY <1>1, <2>1
    <3>3. QED
      BY <1>1, <2>1, <3>1, <3>2
  <2>2. CASE j = z
    <3>1. e[j] = y /\ y \in Items /\ y >= x /\ y <= x
      BY <1>1, <1>5, <2>2
    <3>2. y = x
      BY <1>3, <3>1
    <3>3. \A k \in j .. Len(e) : k = z
      BY <1>1, <2>2
    <3>4. QED
      BY <1>1, <3>1, <3>2, <3>3
  <2>3. QED
    BY <1>1, <2>1, <2>2
<1>6. Old(e, n)
  BY <1>1 DEF GoodData, Old
<1>7. m => NoItems(e)
  BY <1>1 DEF GoodData, NoItems
<1>8. GoodData(e, M, m, n)
  BY <1>4, <1>5, <1>6, <1>7 DEF GoodData, Sorted, TailFree
<1>9. QED
  BY <1>1, <1>8 DEF e

\* A line is ended, when the item on it is no longer in memory.
LEMMA DataEol ==
    ASSUME NEW d \in Seq(Tokens), NEW M \in SUBSET Nat, NEW m, NEW n \in Nat, GoodData(d, M, m, n),
           NEW L \in SUBSET M, NEW l, l => m,
           NoItems(d) \/ \E h \in M : \A x \in L : h < x
    PROVE  GoodData(Append(d, Eol), L, l, n) /\ Append(d, Eol) \in Seq(Tokens)
<1> DEFINE e == Append(d, Eol)
           z == Len(d) + 1
<1>0. Eol \in Tokens /\ Eol \notin Items /\ Items \subseteq Nat /\ Eol <= n
  BY TokensAre
<1>1. /\ e \in Seq(Tokens) /\ Len(e) = z /\ Len(d) \in Nat
      /\ \A i \in 1 .. Len(d) : i \in 1 .. Len(e) /\ e[i] = d[i]
      /\ z \in 1 .. Len(e) /\ e[z] = Eol
      /\ \A i \in 1 .. Len(e) : i \in 1 .. Len(d) \/ i = z
      /\ \A i \in 1 .. Len(d) : i < z
  BY <1>0, AppendPlaces
<1> HIDE DEF e
<1>2. \A i \in 1 .. Len(d) : d[i] \in Int
  <2>1. \A i \in 1 .. Len(d) : d[i] \in Tokens
    OBVIOUS
  <2>2. QED
    BY <2>1, TokensAre
<1>4. ASSUME NEW j \in 1 .. Len(e), NEW k \in 1 .. Len(e), j < k, e[j] \in Items, e[k] \in Items
      PROVE  e[j] <= e[k] /\ (e[j] = e[k] => \A i \in j .. k : e[i] # Eol)
  <2>1. j \in 1 .. Len(d) /\ k \in 1 .. Len(d)
    BY <1>0, <1>1, <1>4
  <2>2. d[j] <= d[k] /\ (d[j] = d[k] => \A i \in j .. k : d[i] # Eol)
    BY <1>1, <1>4, <2>1 DEF GoodData, Sorted
  <2>3. \A i \in j .. k : i \in 1 .. Len(d)
    BY <1>1, <2>1
  <2>4. QED
    BY <1>1, <2>1, <2>2, <2>3
<1>5. ASSUME NEW x \in L, NEW j \in 1 .. Len(e), e[j] \in Items, e[j] >= x
      PROVE  FALSE
  <2>1. j \in 1 .. Len(d) /\ d[j] \in Items /\ d[j] >= x /\ x \in Nat
    BY <1>0, <1>1, <1>5
  <2>2. PICK h \in M : h < x
    BY <2>1 DEF NoItems
  <2>3. d[j] \in Int /\ h \in Nat /\ d[j] >= h /\ d[j] # h
    BY <1>2, <2>1, <2>2
  <2>4. QED
    BY <2>1, <2>3 DEF GoodData, TailFree
<1>6. Old(e, n)
  BY <1>0, <1>1 DEF GoodData, Old
<1>7. l => NoItems(e)
  BY <1>0, <1>1 DEF GoodData, NoItems
<1>8. GoodData(e, L, l, n)
  BY <1>4, <1>5, <1>6, <1>7 DEF GoodData, Sorted, TailFree
<1>9. QED
  BY <1>1, <1>8 DEF e

\* Two tokens are appended one after the other.
LEMMA TwoTokens ==
    ASSUME NEW S, NEW d \in Seq(S), NEW x \in S, NEW y \in S
    PROVE  d \o <<x>> = Append(d, x) /\ d \o <<x, y>> = Append(Append(d, x), y)
<1>1. d \o <<x>> = Append(d, x)
  <2>1. <<x>> \in Seq(S) /\ Len(<<x>>) = 1 /\ Len(d) \in Nat
    OBVIOUS
  <2>2. d \o <<x>> \in Seq(S) /\ Len(d \o <<x>>) = Len(d) + 1
    BY <2>1
  <2>3. Append(d, x) \in Seq(S) /\ Len(Append(d, x)) = Len(d) + 1
    OBVIOUS
  <2>4. \A i \in 1 .. (Len(d) + 1) : (d \o <<x>>)[i] = Append(d, x)[i]
    BY <2>1
  <2>5. QED
    BY <2>2, <2>3, <2>4, SeqEqual
<1>2. d \o <<x, y>> = Append(Append(d, x), y)
  <2>1. <<x, y>> \in Seq(S) /\ Len(<<x, y>>) = 2 /\ Len(d) \in Nat
    OBVIOUS
  <2>2. d \o <<x, y>> \in Seq(S) /\ Len(d \o <<x, y>>) = Len(d) + 2
    BY <2>1
  <2>3. Append(d, x) \in Seq(S) /\ Len(Append(d, x)) = Len(d) + 1
    OBVIOUS
  <2>4. Append(Append(d, x), y) \in Seq(S) /\ Len(Append(Append(d, x), y)) = Len(d) + 2
    BY <2>1, <2>3
  <2>5. ASSUME NEW i \in 1 .. (Len(d) + 2) PROVE (d \o <<x, y>>)[i] = Append(Append(d, x), y)[i]
    <3>1. CASE i \in 1 .. Len(d)
      BY <2>1, <2>3, <3>1
    <3>2. CASE i = Len(d) + 1
      BY <2>1, <2>3, <3>2
    <3>3. CASE i = Len(d) + 2
      BY <2>1, <2>3, <3>3
    <3>4. QED
      BY <2>1, <3>1, <3>2, <3>3
  <2>6. QED
    BY <2>2, <2>4, <2>5, SeqEqual
<1>3. QED
  BY <1>1, <1>2

\* The items in memory are among those recorded.
LEMMA MemoryRecorded ==
    ASSUME Shape(rec), MemoryInv, sent \in 0 .. MaxItems
    PROVE  InMemory(rec) \in SUBSET Nat /\ \A x \in InMemory(rec) : x \in 1 .. sent
<1>1. \A x : x \in InMemory(rec) <=> In(rec.pending, x) \/ HasItem(rec.chan, x)
  BY MemoryIs DEF Shape
<1>2. \A x : x \in InMemory(rec) => x \in 1 .. sent
  BY <1>1 DEF MemoryInv, MemOf, Mem, Conserved
<1>3. 1 .. sent \subseteq Nat
  BY Parts
<1>4. QED
  BY <1>2, <1>3

\* The next line holds the oldest item in memory.
LEMMA OldestIsNext ==
    ASSUME Shape(rec), MemoryInv, sent \in 0 .. MaxItems, rec.meta \/ rec.pending # << >>
    PROVE  /\ NextLine \in Tokens /\ NextLine # Eol /\ NextLine <= sent
           /\ NextLine \notin Items => NextLine = Meta /\ rec.meta
           /\ NextLine \in Items => /\ ~rec.meta /\ NextLine \in InMemory(rec)
                                    /\ \A x \in InMemory(rec) : NextLine <= x
           /\ WriteLine /\ NextLine \in Items => \A x \in InMemory(rec') : NextLine < x
<1>1. \A x : x \in InMemory(rec) <=> In(rec.pending, x) \/ HasItem(rec.chan, x)
  BY MemoryIs DEF Shape
<1>2. rec.meta \in BOOLEAN /\ rec.pending \in Seq(Items) /\ rec.chan \in Seq(CmdType) /\ sent \in Nat
  BY Parts DEF Shape, RecType
<1>3. CASE rec.meta
  <2>1. NextLine = Meta
    BY <1>3 DEF NextLine
  <2>2. QED
    BY <1>2, <1>3, <2>1, TokensAre
<1>4. CASE ~rec.meta
  <2> DEFINE h == Head(rec.pending)
  <2>1. NextLine = h /\ rec.pending # << >> /\ InOrder(rec.pending, rec.chan, sent)
    BY <1>4 DEF NextLine, MemoryInv, MemOf, Mem
  <2>2. /\ h \in Items /\ h <= sent
        /\ \A x : In(rec.pending, x) <=> x = h \/ In(Tail(rec.pending), x)
        /\ \A x : In(Tail(rec.pending), x) \/ HasItem(rec.chan, x) => h < x
    BY <1>2, <2>1, WriteOrder
  <2> HIDE DEF h
  <2>3. h \in Nat /\ h \in Tokens /\ h # Eol
    BY <2>2, TokensAre DEF Tokens
  <2>4. h \in InMemory(rec) /\ \A x \in InMemory(rec) : x = h \/ h < x
    BY <1>1, <2>2
  <2>5. InMemory(rec) \in SUBSET Nat
    BY MemoryRecorded
  <2>6. \A x \in InMemory(rec) : h <= x
    BY <2>3, <2>4, <2>5
  <2>7. ASSUME WriteLine, NEW x \in InMemory(rec') PROVE h < x
    <3>1. Shape(rec') /\ rec'.chan = rec.chan /\ rec'.pending = Tail(rec.pending)
      BY <1>4, <2>7, WriteLineRec
    <3>2. In(rec'.pending, x) \/ HasItem(rec'.chan, x)
      BY <2>7, <3>1, MemoryIs DEF Shape
    <3>3. QED
      BY <2>2, <3>1, <3>2
  <2>8. QED
    BY <1>4, <2>1, <2>2, <2>3, <2>4, <2>6, <2>7
<1>5. QED
  BY <1>3, <1>4

\* A step that writes nothing copies what is there, or empties a file.
LEMMA StepDatas ==
    ASSUME Shapes, Next
    PROVE  \/ /\ WriteLine \/ WriteFails
              /\ zst'.data = zst.data /\ worker'.before = worker.before /\ worker'.temp = worker.temp
           \/ ~WriteLine /\ ~WriteFails /\ \A d \in Datas' : d \in Datas \/ d = << >>
<1>0. plain \in FileType /\ zst \in FileType /\ worker \in WorkerType
  BY DEF Shapes
<1>1. CASE WriteLine \/ WriteFails
  BY <1>1 DEF WriteLine, WriteFails
<1>2. CASE ~WriteLine /\ ~WriteFails
  <2>1. NoFile.data = << >> /\ IdleWorker.before = << >> /\ IdleWorker.temp = << >>
    BY DEF NoFile, IdleWorker
  <2>2. \A c : [worker EXCEPT !.pc = c].before = worker.before /\ [worker EXCEPT !.pc = c].temp = worker.temp
    BY <1>0 DEF WorkerType
  <2>3. SUFFICES \A d \in Datas' : d \in Datas \/ d = << >>
    BY <1>2
  <2>4. CASE UNCHANGED fileVars
    BY <2>4 DEF fileVars, Datas
  <2>5. CASE Materialize
    <3>1. UNCHANGED <<zst, worker>> /\ (plain' = plain \/ plain' = [zst EXCEPT !.cold = FALSE])
      BY <2>5 DEF Materialize
    <3>2. plain'.data \in {plain.data, zst.data}
      BY <1>0, <3>1 DEF FileType
    <3>3. QED
      BY <3>1, <3>2 DEF Datas
  <2>6. CASE Unzipped
    BY <2>1, <2>6 DEF Unzipped, Datas
  <2>7. CASE Open
    <3>1. UNCHANGED <<zst, worker>> /\ (plain' = plain \/ plain' = [NoFile EXCEPT !.here = TRUE])
      BY <2>7 DEF Open
    <3>2. plain'.data \in {plain.data, << >>}
      BY <3>1 DEF NoFile
    <3>3. QED
      BY <3>1, <3>2 DEF Datas
  <2>8. CASE GetsCold
    <3>1. UNCHANGED <<zst, worker>> /\ plain' = [plain EXCEPT !.cold = TRUE]
      BY <2>8 DEF GetsCold
    <3>2. plain'.data = plain.data
      BY <1>0, <3>1 DEF FileType
    <3>3. QED
      BY <3>1, <3>2 DEF Datas
  <2>9. CASE ConsiderCold
    <3>1. UNCHANGED <<plain, zst>> /\ worker' = [IdleWorker EXCEPT !.pc = "encode", !.before = plain.data]
      BY <2>9 DEF ConsiderCold
    <3>2. worker'.before = plain.data /\ worker'.temp = << >>
      BY <3>1 DEF IdleWorker
    <3>3. QED
      BY <3>1, <3>2 DEF Datas
  <2>10. CASE Encode
    <3>1. UNCHANGED <<plain, zst>> /\ worker' = [worker EXCEPT !.pc = "check", !.temp = plain.data]
      BY <2>10 DEF Encode
    <3>2. worker'.before = worker.before /\ worker'.temp = plain.data
      BY <1>0, <3>1 DEF WorkerType
    <3>3. QED
      BY <3>1, <3>2 DEF Datas
  <2>11. CASE Check
    <3>1. UNCHANGED <<plain, zst>> /\ (worker' = IdleWorker \/ worker' = [worker EXCEPT !.pc = "persist"])
      BY <2>11 DEF Check, Continue
    <3>2. QED
      BY <2>1, <2>2, <3>1 DEF Datas
  <2>12. CASE PersistZst
    <3>1. UNCHANGED plain /\ (\/ worker' = IdleWorker /\ zst' = zst
                              \/ /\ worker' = [worker EXCEPT !.pc = "recheck"]
                                 /\ zst' = [here |-> TRUE, data |-> worker.temp, cold |-> TRUE])
      BY <2>12 DEF PersistZst, Continue
    <3>2. zst'.data \in {zst.data, worker.temp}
      BY <3>1
    <3>3. QED
      BY <2>1, <2>2, <3>1, <3>2 DEF Datas
  <2>13. CASE Recheck
    <3>1. UNCHANGED plain /\ (\/ worker' = IdleWorker /\ zst' = NoFile
                              \/ worker' = [worker EXCEPT !.pc = "remove"] /\ zst' = zst)
      BY <2>13 DEF Recheck, Continue
    <3>2. QED
      BY <2>1, <2>2, <3>1 DEF Datas
  <2>14. CASE RemovePlain
    BY <2>1, <2>14 DEF RemovePlain, Datas
  <2>15. CASE WorkerDies
    BY <2>1, <2>15 DEF WorkerDies, Datas
  <2>16. CASE Record \/ Discard \/ Resume \/ (\E op \in Barriers : Barrier(op)) \/ Receive \/ Ended
              \/ Crash \/ OpenFails \/ WriteDone
    <3>1. UNCHANGED fileVars
      BY <2>16 DEF Record, Discard, Resume, Barrier, Receive, Ended, Crash, OpenFails, WriteDone
    <3>2. QED
      BY <2>4, <3>1
  <2>17. QED
    BY <1>2, <2>5, <2>6, <2>7, <2>8, <2>9, <2>10, <2>11, <2>12, <2>13, <2>14, <2>15, <2>16 DEF Next
<1>3. QED
  BY <1>1, <1>2

\* MemoryRecorded after a step.
LEMMA RecordedNext ==
    ASSUME Shape(rec'), MemoryInv', sent' \in 0 .. MaxItems
    PROVE  InMemory(rec') \in SUBSET Nat /\ \A x \in InMemory(rec') : x \in 1 .. sent'
<1>1. \A x : x \in InMemory(rec') <=> In(rec'.pending, x) \/ HasItem(rec'.chan, x)
  BY MemoryIs DEF Shape
<1>2. \A x : x \in InMemory(rec') => x \in 1 .. sent'
  BY <1>1 DEF MemoryInv, MemOf, Mem, Conserved
<1>3. 1 .. sent' \subseteq Nat
  BY Parts
<1>4. QED
  BY <1>2, <1>3

\* What a write does to the data of the plain file.
LEMMA WrittenData ==
    ASSUME Shapes, WriteLine \/ WriteFails
    PROVE  \/ plain'.data = plain.data /\ (WriteLine => rec.handle # "plain")
           \/ WriteLine /\ plain'.data = Append(Append(plain.data, NextLine), Eol)
           \/ /\ WriteFails /\ torn'
              /\ \E y \in {Torn, NextLine} : plain'.data = Append(plain.data, y)
<1>0. Shape(rec) /\ plain \in FileType /\ (rec.meta \/ rec.pending # << >>)
  BY DEF Shapes, WriteLine, WriteFails
<1>1. plain.data \in Seq(Tokens) /\ NextLine \in Tokens /\ Eol \in Tokens /\ Torn \in Tokens
  BY <1>0, NextLineIs, TokensAre DEF FileType, Tokens
<1>2. CASE WriteLine
  <2>1. Appended(<<NextLine, Eol>>) /\ <<NextLine, Eol>> # << >> /\ <<NextLine, Eol>> \in Seq(Tokens)
    BY <1>0, <1>2, NextLineIs DEF WriteLine
  <2>2. (plain' = plain /\ rec.handle # "plain") \/ plain'.data = plain.data \o <<NextLine, Eol>>
    BY <1>0, <2>1, AppendedType
  <2>3. QED
    BY <1>1, <1>2, <2>2, TwoTokens
<1>3. CASE WriteFails
  <2>1. PICK part \in {<< >>, <<Torn>>, <<NextLine>>} : Appended(part) /\ torn' = (torn \/ part # << >>)
    BY <1>3 DEF WriteFails
  <2>2. part \in Seq(Tokens)
    BY <1>0, NextLineIs
  <2>3. plain' = plain \/ (part # << >> /\ plain'.data = plain.data \o part)
    BY <1>0, <2>1, <2>2, AppendedType
  <2>4. \A y \in {Torn, NextLine} : plain.data \o <<y>> = Append(plain.data, y)
    BY <1>1, TwoTokens
  <2>5. CASE plain' = plain
    BY <2>5, <1>3 DEF WriteLine, WriteFails
  <2>6. CASE part # << >> /\ plain'.data = plain.data \o part
    BY <1>3, <2>1, <2>4, <2>6
  <2>7. QED
    BY <2>3, <2>5, <2>6
<1>4. QED
  BY <1>2, <1>3

\* A write keeps the order.
LEMMA WriteData ==
    ASSUME Shapes, MemoryInv, DataInv, MemNext, WriteLine \/ WriteFails, sent' = sent
    PROVE  GoodData(plain'.data, InMemory(rec'), rec'.meta, sent')
<1> DEFINE d == plain.data
           M == InMemory(rec)
           L == InMemory(rec')
           y == NextLine
<1>0. Shape(rec) /\ sent \in 0 .. MaxItems /\ sent \in Nat /\ sent <= sent /\ d \in Seq(Tokens)
      /\ (rec.meta \/ rec.pending # << >>)
  BY Parts DEF Shapes, FileType, WriteLine, WriteFails
<1>1. M \in SUBSET Nat /\ \A x \in M : x \in 1 .. sent
  BY <1>0, MemoryRecorded
<1>2. L \in SUBSET Nat /\ \A x \in L : x \in 1 .. sent'
  BY <1>0, RecordedNext DEF MemNext
<1>3. (\A x \in L : x \in M \/ x > sent) /\ (rec'.meta => rec.meta)
  BY DEF MemNext, Forward
<1>4. L \in SUBSET M
  BY <1>0, <1>2, <1>3
<1>5. GoodData(d, M, rec.meta, sent)
  BY DEF DataInv, Datas
<1>6. /\ y \in Tokens /\ y # Eol /\ y <= sent
      /\ y \notin Items => y = Meta /\ rec.meta
      /\ y \in Items => ~rec.meta /\ y \in M /\ \A x \in M : y <= x
      /\ WriteLine /\ y \in Items => \A x \in L : y < x
  BY <1>0, OldestIsNext
<1>7. /\ Torn \in Tokens /\ Torn # Eol /\ Torn <= sent /\ Torn \notin Items
  BY <1>0, TokensAre
<1>8. \/ plain'.data = d
      \/ WriteLine /\ plain'.data = Append(Append(d, y), Eol)
      \/ \E z \in {Torn, y} : plain'.data = Append(d, z)
  BY WrittenData
<1> HIDE DEF d, M, L, y
<1>9. CASE plain'.data = d
  <2>1. GoodData(d, L, rec'.meta, sent)
    BY <1>0, <1>2, <1>3, <1>5, DataKeeps
  <2>2. QED
    BY <1>9, <2>1 DEF L
<1>10. CASE WriteLine /\ plain'.data = Append(Append(d, y), Eol)
  <2>1. GoodData(Append(d, y), M, rec.meta, sent) /\ Append(d, y) \in Seq(Tokens)
    BY <1>0, <1>1, <1>5, <1>6, DataToken
  <2>2. CASE y \in Items
    <3>1. \E h \in M : \A x \in L : h < x
      BY <1>6, <1>10, <2>2
    <3>2. GoodData(Append(Append(d, y), Eol), L, rec'.meta, sent)
      BY <1>0, <1>1, <1>3, <1>4, <2>1, <3>1, DataEol
    <3>3. QED
      BY <1>10, <3>2 DEF L
  <2>3. CASE y \notin Items
    <3>1. NoItems(Append(d, y))
      BY <1>6, <2>1, <2>3 DEF GoodData
    <3>2. GoodData(Append(Append(d, y), Eol), L, rec'.meta, sent)
      BY <1>0, <1>1, <1>3, <1>4, <2>1, <3>1, DataEol
    <3>3. QED
      BY <1>10, <3>2 DEF L
  <2>4. QED
    BY <2>2, <2>3
<1>11. CASE \E z \in {Torn, y} : plain'.data = Append(d, z)
  <2>1. PICK z \in {Torn, y} : plain'.data = Append(d, z)
    BY <1>11
  <2>2. z \in Tokens /\ z # Eol /\ z <= sent /\ (z \in Items => ~rec.meta /\ z \in M /\ \A x \in M : z <= x)
    BY <1>6, <1>7
  <2>3. GoodData(Append(d, z), M, rec.meta, sent) /\ Append(d, z) \in Seq(Tokens)
    BY <1>0, <1>1, <1>5, <2>2, DataToken
  <2>4. GoodData(Append(d, z), L, rec'.meta, sent)
    BY <1>0, <1>2, <1>3, <2>3, DataKeeps
  <2>5. QED
    BY <2>1, <2>4 DEF L
<1>12. QED
  BY <1>8, <1>9, <1>10, <1>11

\* Every step keeps the order.
LEMMA StepData ==
    ASSUME Shapes, MemoryInv, DataInv, Next
    PROVE  DataInv'
<1>0. Shape(rec) /\ sent \in 0 .. MaxItems /\ MemNext /\ sent' \in 0 .. MaxItems
  BY StepMem DEF Shapes, MemNext, Forward
<1>1. \A d \in Datas : d \in Seq(Tokens)
  BY DEF Datas, Shapes, FileType, WorkerType
<1>2. sent \in Nat /\ sent' \in Nat /\ sent <= sent' /\ (rec'.meta => rec.meta)
      /\ \A x \in InMemory(rec') : x \in InMemory(rec) \/ x > sent
  BY <1>0, Parts DEF MemNext, Forward
<1>3. InMemory(rec') \in SUBSET Nat
  BY <1>0, RecordedNext DEF MemNext
<1>4. ASSUME NEW d \in Datas PROVE GoodData(d, InMemory(rec'), rec'.meta, sent')
  <2>1. d \in Seq(Tokens) /\ GoodData(d, InMemory(rec), rec.meta, sent)
    BY <1>1, <1>4 DEF DataInv
  <2>2. QED
    BY <1>2, <1>3, <2>1, DataKeeps
<1>5. CASE /\ WriteLine \/ WriteFails
           /\ zst'.data = zst.data /\ worker'.before = worker.before /\ worker'.temp = worker.temp
  <2>1. sent' = sent
    BY <1>5 DEF WriteLine, WriteFails
  <2>2. GoodData(plain'.data, InMemory(rec'), rec'.meta, sent')
    BY <1>0, <1>5, <2>1, WriteData
  <2>3. \A d \in Datas' : d = plain'.data \/ d \in Datas
    BY <1>5 DEF Datas
  <2>4. QED
    BY <1>4, <2>2, <2>3 DEF DataInv
<1>6. CASE \A d \in Datas' : d \in Datas \/ d = << >>
  <2>1. GoodData(<< >>, InMemory(rec'), rec'.meta, sent')
    BY EmptyData
  <2>2. QED
    BY <1>4, <1>6, <2>1 DEF DataInv
<1>7. QED
  BY <1>5, <1>6, StepDatas

\* What is in that order is loaded in that order.
LEMMA SortedLoads ==
    ASSUME NEW d \in Seq(Tokens), Sorted(d), NEW j \in Loaded(d), NEW k \in Loaded(d), j < k,
           Meta \notin {d[j], d[k]}
    PROVE  d[j] < d[k]
<1>1. j \in 1 .. Len(d) /\ k \in 1 .. Len(d) /\ Parses(d, j) /\ Parses(d, k) /\ Len(d) \in Nat
  BY DEF Loaded
<1>2. d[j] \in Tokens /\ d[k] \in Tokens
  BY <1>1
<1>3. d[j] \in Items /\ d[k] \in Items
  BY <1>1, <1>2 DEF Parses, Tokens
<1>4. d[j] \in Nat /\ d[k] \in Nat
  BY <1>3, TokensAre
<1>5. d[j] <= d[k] /\ (d[j] = d[k] => \A i \in j .. k : d[i] # Eol)
  BY <1>1, <1>3 DEF Sorted
<1>6. j # Len(d) /\ j + 1 \in j .. k
  BY <1>1
<1>7. d[j + 1] = Eol
  BY <1>1, <1>6 DEF Parses
<1>8. d[j] # d[k]
  BY <1>5, <1>6, <1>7
<1>9. QED
  BY <1>4, <1>5, <1>8

-----------------------------------------------------------------------------
(***************************************************************************)
(* Files whose every line parses.                                          *)
(***************************************************************************)
Clean(d) ==
    /\ \A k \in 1 .. Len(d) : d[k] # Eol => Parses(d, k)
    /\ d # << >> => d[1] = Meta /\ d[Len(d)] = Eol

CleanInv ==
    ~torn /\ ~unlinked =>
        /\ \A d \in Datas : Clean(d) /\ (rec.meta => d = << >>)
        /\ \A x \in written : In(Visible.data, x)
        /\ rec.pc # "none" /\ ~rec.meta => Visible.data # << >>

\* A whole line is appended; the first one is the session meta.
LEMMA CleanLine ==
    ASSUME NEW d \in Seq(Tokens), Clean(d), NEW y \in Tokens, y \notin {Torn, Eol}, d = << >> => y = Meta
    PROVE  LET e == Append(Append(d, y), Eol)
           IN Clean(e) /\ e # << >> /\ In(e, y)
<1> DEFINE f == Append(d, y)
           e == Append(f, Eol)
           z == Len(d) + 1
<1>1. /\ f \in Seq(Tokens) /\ Len(f) = z /\ Len(d) \in Nat
      /\ \A i \in 1 .. Len(d) : f[i] = d[i]
      /\ f[z] = y
  BY AppendPlaces
<1> HIDE DEF f
<1>2. /\ e \in Seq(Tokens) /\ Len(e) = Len(f) + 1
      /\ \A i \in 1 .. Len(f) : e[i] = f[i]
      /\ e[Len(f) + 1] = Eol
  BY <1>1, TokensAre, AppendPlaces
<1> HIDE DEF e
<1>3. /\ Len(e) = z + 1 /\ e[z + 1] = Eol /\ e[z] = y /\ z \in 1 .. Len(e)
      /\ \A i \in 1 .. Len(d) : e[i] = d[i]
      /\ \A i \in 1 .. Len(e) : i \in 1 .. Len(d) \/ i = z \/ i = z + 1
  BY <1>1, <1>2
<1>4. e # << >> /\ In(e, y)
  BY <1>1, <1>3 DEF In
<1>5. d # << >> => Len(d) \in 1 .. Len(d) /\ 1 \in 1 .. Len(d) /\ d[1] = Meta /\ d[Len(d)] = Eol
  BY <1>1 DEF Clean
<1>6. ASSUME NEW k \in 1 .. Len(d), d[k] # Eol PROVE Parses(e, k)
  <2>1. Parses(d, k) /\ k # Len(d)
    BY <1>1, <1>5, <1>6 DEF Clean
  <2>2. d[k + 1] = Eol /\ d[k] \notin {Torn, Eol} /\ (k = 1 \/ d[k - 1] = Eol)
    BY <2>1 DEF Parses
  <2>3. k + 1 \in 1 .. Len(d) /\ (k = 1 \/ k - 1 \in 1 .. Len(d))
    BY <1>1, <1>6, <2>1
  <2>4. e[k] = d[k] /\ e[k + 1] = Eol /\ (k = 1 \/ e[k - 1] = Eol)
    BY <1>3, <2>2, <2>3
  <2>5. QED
    BY <2>2, <2>4 DEF Parses
<1>7. Parses(e, z)
  <2>1. CASE d = << >>
    <3>1. z = 1
      BY <2>1
    <3>2. QED
      BY <1>3, <3>1 DEF Parses
  <2>2. CASE d # << >>
    <3>1. z - 1 = Len(d) /\ e[z - 1] = Eol
      BY <1>1, <1>3, <1>5, <2>2
    <3>2. QED
      BY <1>3, <3>1 DEF Parses
  <2>3. QED
    BY <2>1, <2>2
<1>8. \A k \in 1 .. Len(e) : e[k] # Eol => Parses(e, k)
  BY <1>3, <1>6, <1>7
<1>9. e[1] = Meta
  <2>1. CASE d = << >>
    <3>1. z = 1
      BY <2>1
    <3>2. QED
      BY <1>3, <2>1, <3>1
  <2>2. CASE d # << >>
    BY <1>3, <1>5, <2>2
  <2>3. QED
    BY <2>1, <2>2
<1>10. Clean(e)
  BY <1>3, <1>8, <1>9 DEF Clean
<1>11. QED
  BY <1>4, <1>10 DEF e, f

\* What was torn or unlinked stays so, and only WriteLine writes an item.
LEMMA OnceTorn ==
    ASSUME Shapes, Next
    PROVE  (torn => torn') /\ (unlinked => unlinked') /\ (WriteLine \/ written' = written)
<1>1. CASE Record \/ Discard \/ Resume \/ (\E op \in Barriers : Barrier(op)) \/ Receive \/ Ended
           \/ Crash \/ OpenFails \/ WriteDone \/ Materialize \/ Unzipped \/ Open \/ WorkerStep
  <2>1. UNCHANGED <<torn, unlinked, written>>
    BY <1>1 DEF Record, Discard, Resume, Barrier, Receive, Ended, Crash, OpenFails, WriteDone, Materialize,
                Unzipped, Open, WorkerStep, GetsCold, ConsiderCold, Encode, Check, PersistZst, Recheck,
                WorkerDies, fileVars, ghostVars, recVars
  <2>2. QED
    BY <2>1
<1>2. CASE WriteLine
  BY <1>2 DEF WriteLine
<1>3. CASE WriteFails
  <2>1. PICK part : torn' = (torn \/ part # << >>)
    BY <1>3 DEF WriteFails
  <2>2. QED
    BY <1>3, <2>1 DEF WriteFails
<1>4. CASE RemovePlain
  BY <1>4 DEF RemovePlain
<1>5. QED
  BY <1>1, <1>2, <1>3, <1>4 DEF Next, WorkerStep

\* Every step keeps the files clean.
LEMMA StepClean ==
    ASSUME Shapes, MemoryInv, FileInv, CleanInv, Next
    PROVE  CleanInv'
<1>1. SUFFICES ASSUME ~torn', ~unlinked'
               PROVE  /\ \A d \in Datas' : Clean(d) /\ (rec'.meta => d = << >>)
                      /\ \A x \in written' : In(Visible'.data, x)
                      /\ rec'.pc # "none" /\ ~rec'.meta => Visible'.data # << >>
  BY DEF CleanInv
<1>2. ~torn /\ ~unlinked
  BY <1>1, OnceTorn
<1>3. /\ \A d \in Datas : Clean(d) /\ (rec.meta => d = << >>)
      /\ \A x \in written : In(Visible.data, x)
      /\ rec.pc # "none" /\ ~rec.meta => Visible.data # << >>
  BY <1>2 DEF CleanInv
<1>4. Shape(rec) /\ MemNext /\ (rec'.meta => rec.meta) /\ FileInv' /\ Begins(Visible.data, Visible'.data)
      /\ sent \in 0 .. MaxItems
  BY <1>1, StepMem, StepFiles DEF Shapes, MemNext, Forward, Grows
<1>5. Visible.data \in Seq(Tokens) /\ Visible'.data \in Seq(Tokens)
  <2>1. Shapes'
    BY StepShapes
  <2>2. QED
    BY <2>1 DEF Shapes, FileType, Visible
<1>6. \A x : In(Visible.data, x) => In(Visible'.data, x)
  <2>1. Len(Visible.data) \in Nat /\ Len(Visible'.data) \in Nat /\ Len(Visible.data) <= Len(Visible'.data)
        /\ \A i \in 1 .. Len(Visible.data) : Visible'.data[i] = Visible.data[i]
    BY <1>4, <1>5 DEF Begins
  <2>2. \A i \in 1 .. Len(Visible.data) : i \in 1 .. Len(Visible'.data)
    BY <2>1
  <2>3. QED
    BY <2>1, <2>2 DEF In
<1>7. Visible.data # << >> => Visible'.data # << >>
  <2>1. Len(Visible.data) <= Len(Visible'.data) /\ Len(Visible.data) \in Nat /\ Len(<< >>) = 0
    BY <1>4, <1>5 DEF Begins
  <2>2. Visible.data # << >> => Len(Visible.data) # 0
    BY <1>5
  <2>3. QED
    BY <2>1, <2>2
<1>8. CASE WriteLine
  <2> DEFINE d == plain.data
             e == Append(Append(d, NextLine), Eol)
  <2>1. /\ rec'.meta = FALSE /\ rec.handle # "none" /\ rec.pc = "write"
        /\ (rec.meta = TRUE /\ NextLine = Meta) \/ rec.meta = FALSE
    BY <1>4, <1>8, WriteLineRec
  <2>2. rec.handle = "plain" /\ plain.here
    BY <1>2, <1>4, <2>1 DEF FileInv, Shape, RecType
  <2>3. plain'.data = e
    <3>1. \/ plain'.data = plain.data /\ rec.handle # "plain"
          \/ plain'.data = e
          \/ torn'
      BY <1>8, WrittenData
    <3>2. QED
      BY <1>1, <2>2, <3>1
  <2>4. d \in Seq(Tokens) /\ Clean(d) /\ (rec.meta => d = << >>) /\ Visible = plain
    BY <1>3, <2>2 DEF Shapes, FileType, Datas, Visible
  <2>5. NextLine \in Tokens /\ NextLine \notin {Torn, Eol}
    <3>1. NextLine \in Items \cup {Meta}
      BY <1>4, <1>8, NextLineIs DEF WriteLine
    <3>2. QED
      BY <3>1, TokensAre DEF Tokens, Torn, Meta
  <2>6. d = << >> => NextLine = Meta
    BY <1>3, <2>1, <2>4
  <2>7. Clean(e) /\ e # << >> /\ In(e, NextLine)
    BY <2>4, <2>5, <2>6, CleanLine
  <2>8. plain'.here
    <3>1. rec'.handle = rec.handle
      BY <1>4, <1>8, WriteLineRec
    <3>2. QED
      BY <1>4, <2>2, <3>1 DEF FileInv
  <2>9. Visible' = plain'
    BY <2>8 DEF Visible
  <2> HIDE DEF e, d
  <2>10. ASSUME NEW c \in Datas' PROVE Clean(c)
    <3>1. c = plain'.data \/ c \in Datas
      BY <1>8 DEF WriteLine, Datas
    <3>2. QED
      BY <1>3, <2>3, <2>7, <3>1
  <2>11. ASSUME NEW x \in written' PROVE In(Visible'.data, x)
    <3>1. x \in written \/ x = NextLine
      BY <1>8 DEF WriteLine
    <3>2. QED
      BY <1>3, <1>6, <2>3, <2>7, <2>9, <3>1
  <2>12. QED
    BY <2>1, <2>3, <2>7, <2>9, <2>10, <2>11
<1>9. CASE ~WriteLine
  <2>1. written' = written
    BY <1>9, OnceTorn
  <2>2. \A x \in written' : In(Visible'.data, x)
    BY <1>3, <1>6, <2>1
  <2>3. \A c \in Datas' : c \in Datas \/ c = << >>
    <3>1. CASE WriteFails
      <4>1. plain'.data = plain.data
        BY <1>1, <1>9, <3>1, WrittenData
      <4>2. QED
        BY <3>1, <4>1 DEF WriteFails, Datas
    <3>2. CASE ~WriteFails
      BY <1>9, <3>2, StepDatas
    <3>3. QED
      BY <3>1, <3>2
  <2>4. Clean(<< >>)
    <3>1. Len(<< >>) = 0 /\ 1 .. 0 = {}
      OBVIOUS
    <3>2. QED
      BY <3>1 DEF Clean
  <2>5. \A c \in Datas' : Clean(c) /\ (rec'.meta => c = << >>)
    BY <1>3, <1>4, <2>3, <2>4
  <2>6. ASSUME rec'.pc # "none", ~rec'.meta PROVE Visible'.data # << >>
    <3>1. (rec'.meta = rec.meta /\ rec.pc # "none") \/ Resume
      BY <1>4, <1>9, <2>6 DEF MemNext
    <3>2. CASE rec'.meta = rec.meta /\ rec.pc # "none"
      BY <1>3, <1>7, <2>6, <3>2
    <3>3. CASE Resume
      <4>1. Meta \in Read(Visible.data)
        BY <3>3 DEF Resume
      <4>2. PICK k \in DOMAIN Visible.data : TRUE
        BY <4>1 DEF Read, Loaded
      <4>3. Visible.data # << >>
        BY <4>2
      <4>4. QED
        BY <1>7, <4>3
    <3>4. QED
      BY <3>1, <3>2, <3>3
  <2>7. QED
    BY <2>2, <2>5, <2>6
<1>10. QED
  BY <1>8, <1>9

-----------------------------------------------------------------------------
(***************************************************************************)
(* The theorems.                                                           *)
(***************************************************************************)
RolloutInv == Shapes /\ MemoryInv /\ FileInv /\ DataInv /\ CleanInv

\* The recorder starts with nothing in memory and nothing on disk.
LEMMA InitRollout ==
    ASSUME Init
    PROVE  RolloutInv
<1>1. /\ plain = NoFile /\ zst = NoFile /\ rec = NewRecorder /\ worker = IdleWorker
      /\ sent = 0 /\ acked = {} /\ written = {} /\ lost = {} /\ faults = 0 /\ torn = FALSE
      /\ unlinked = FALSE
  BY DEF Init
<1>2. 0 \in 0 .. MaxItems /\ 0 \in 0 .. MaxFaults
  BY Parts
<1>3. Shapes
  BY <1>1, <1>2, Parts DEF Shapes
<1>4. /\ rec.chan = << >> /\ rec.pending = << >> /\ rec.cmd = NoCmd /\ rec.handle = "none"
      /\ rec.pc = "idle" /\ rec.meta = TRUE
  BY <1>1 DEF NewRecorder
<1>5. NoCmd.op \notin Barriers /\ Len(<< >>) = 0 /\ 1 .. 0 = {}
  BY DEF NoCmd, Cmd, Barriers
<1>6. \A x : ~In(<< >>, x) /\ ~HasItem(<< >>, x)
  BY <1>5 DEF In, HasItem
<1>7. MemoryInv
  <2>1. InOrder(<< >>, << >>, 0) /\ Covers(NoCmd, << >>, 0)
    BY <1>5 DEF InOrder, Covers
  <2>2. Conserved(<< >>, << >>, 0, {}, {})
    BY <1>5, <1>6 DEF Conserved
  <2>3. QED
    BY <1>1, <1>4, <2>1, <2>2 DEF MemoryInv, MemOf, Mem
<1>8. plain.data = << >> /\ zst.data = << >> /\ worker.before = << >> /\ worker.temp = << >>
      /\ worker.pc = "idle"
  BY <1>1 DEF NoFile, IdleWorker
<1>9. FileInv
  BY <1>4, <1>8 DEF FileInv, Active, Encoded
<1>10. \A d \in Datas : d = << >>
  BY <1>8 DEF Datas
<1>11. DataInv
  BY <1>10, EmptyData DEF DataInv
<1>12. Clean(<< >>)
  BY <1>5 DEF Clean
<1>13. CleanInv
  BY <1>1, <1>4, <1>10, <1>12 DEF CleanInv
<1>14. QED
  BY <1>3, <1>7, <1>9, <1>11, <1>13 DEF RolloutInv

\* The invariant is inductive.
LEMMA StepRollout ==
    ASSUME RolloutInv, [Next]_vars
    PROVE  RolloutInv'
<1>1. CASE Next
  BY <1>1, StepShapes, StepMem, StepFiles, StepData, StepClean DEF RolloutInv, MemNext, Shapes
<1>2. CASE UNCHANGED vars
  <2>1. UNCHANGED <<plain, zst, rec, worker, sent, acked, written, lost, faults, torn, unlinked>>
    BY <1>2 DEF vars
  <2>2. Shapes'
    BY <2>1 DEF RolloutInv, Shapes
  <2>3. MemoryInv'
    BY <2>1 DEF RolloutInv, MemoryInv, MemOf
  <2>4. FileInv'
    BY <2>1 DEF RolloutInv, FileInv, Active, Encoded
  <2>5. Datas' = Datas /\ Visible' = Visible
    BY <2>1 DEF Datas, Visible
  <2>6. DataInv'
    BY <2>1, <2>5 DEF RolloutInv, DataInv
  <2>7. CleanInv'
    BY <2>1, <2>5 DEF RolloutInv, CleanInv
  <2>8. QED
    BY <2>2, <2>3, <2>4, <2>6, <2>7 DEF RolloutInv
<1>3. QED
  BY <1>1, <1>2

\* The invariant holds throughout.
THEOREM Safety == Spec => []RolloutInv
<1>1. Init => RolloutInv
  BY InitRollout
<1>2. RolloutInv /\ [Next]_vars => RolloutInv'
  BY StepRollout
<1>3. QED
  BY <1>1, <1>2, PTL DEF Spec

\* The recorder's state, the files and the channel keep their types, and the channel
\* its capacity; the writer writes only to a file that is open.
THEOREM WellTyped == Spec => []TypeOK
<1>1. ASSUME RolloutInv PROVE TypeOK
  <2>1. Shapes /\ MemoryInv
    BY <1>1 DEF RolloutInv
  <2>2. \A f \in {plain, zst} : f.data \in Seq(Tokens) /\ {f.here, f.cold} \subseteq BOOLEAN
    BY <2>1 DEF Shapes, FileType
  <2>3. Shape(rec) /\ rec \in RecType
    BY <2>1 DEF Shapes, Shape
  <2>4. /\ rec.pc \in {"none", "idle", "materialize", "unzip", "open", "write"}
        /\ rec.chan \in Seq([op : Barriers \cup {"items"}, n : 0 .. MaxItems])
        /\ rec.pending \in Seq(Items) /\ rec.handle \in {"none", "plain", "orphan"}
        /\ {rec.open, rec.meta, rec.deferred} \subseteq BOOLEAN
    BY <2>3 DEF RecType, CmdType
  <2>5. Len(rec.chan) <= Capacity /\ (rec.pc = "write" => rec.handle # "none")
    BY <2>3 DEF Shape
  <2>6. /\ worker.pc \in {"idle", "encode", "check", "persist", "recheck", "remove"}
        /\ sent \in 0 .. MaxItems /\ faults \in 0 .. MaxFaults /\ {torn, unlinked} \subseteq BOOLEAN
    BY <2>1 DEF Shapes, WorkerType
  <2>7. acked \subseteq written /\ written \subseteq 1 .. sent /\ lost \subseteq 1 .. sent
    BY <2>1 DEF MemoryInv, MemOf, Mem, Conserved
  <2>8. UNION {acked, written, lost} \subseteq 1 .. sent
    BY <2>7
  <2>9. {rec.open, rec.meta, rec.deferred, torn, unlinked} \subseteq BOOLEAN
    BY <2>4, <2>6
  <2>10. QED
    BY <2>2, <2>4, <2>5, <2>6, <2>8, <2>9 DEF TypeOK
<1>2. QED
  BY <1>1, Safety, PTL

\* Failed writes, retries, crashes, resumption and compression neither skip an item nor
\* take a written one for unwritten (RolloutWriterState::write_pending_with_recovery).
THEOREM NothingSkipped == Spec => []ItemsConserved
<1>1. ASSUME RolloutInv PROVE ItemsConserved
  <2>1. Shape(rec) /\ Conserved(rec.pending, rec.chan, sent, written, lost)
    BY <1>1 DEF RolloutInv, Shapes, MemoryInv, MemOf, Mem
  <2>2. \A x : x \in InMemory(rec) <=> In(rec.pending, x) \/ HasItem(rec.chan, x)
    BY <2>1, MemoryIs DEF Shape
  <2>3. \A x : x \in 1 .. sent <=> x \in InMemory(rec) \/ x \in written \/ x \in lost
    BY <2>1, <2>2 DEF Conserved
  <2>4. /\ \A x : x \in InMemory(rec) => x \notin written /\ x \notin lost
        /\ \A x : x \in written => x \notin lost
    BY <2>1, <2>2 DEF Conserved
  <2>5. 1 .. sent = UNION {InMemory(rec), written, lost}
    BY <2>3
  <2>6. QED
    BY <2>4, <2>5 DEF ItemsConserved
<1>2. QED
  BY <1>1, Safety, PTL

\* load_rollout_items gives the items in the order of recording and none twice, whatever
\* failed, crashed, was resumed, compressed or removed.
THEOREM InOrderLoaded == Spec => []LoadedInOrder
<1>1. ASSUME RolloutInv PROVE LoadedInOrder
  <2> DEFINE d == Visible.data
  <2>1. d \in Seq(Tokens) /\ d \in Datas
    BY <1>1 DEF RolloutInv, Shapes, FileType, Visible, Datas
  <2>2. Sorted(d)
    BY <1>1, <2>1 DEF RolloutInv, DataInv, GoodData
  <2> HIDE DEF d
  <2>3. \A j, k \in Loaded(d) : j < k /\ Meta \notin {d[j], d[k]} => d[j] < d[k]
    BY <2>1, <2>2, SortedLoads
  <2>4. QED
    BY <2>3 DEF LoadedInOrder, d
<1>2. QED
  BY <1>1, Safety, PTL

\* An answer Ok to persist, flush or shutdown: the items recorded before it were written,
\* and are read back as long as no write was torn and no file in use removed.
THEOREM Kept == Spec => []AckedAreKept
<1>1. ASSUME RolloutInv PROVE AckedAreKept
  <2>1. acked \subseteq written /\ written \subseteq 1 .. sent
    BY <1>1 DEF RolloutInv, MemoryInv, MemOf, Mem, Conserved
  <2>2. ASSUME ~torn, ~unlinked, acked # {}
        PROVE  LET d == Visible.data
               IN /\ acked \subseteq Read(d)
                  /\ \E k \in Loaded(d) : d[k] = Meta /\ \A j \in Loaded(d) : k <= j
    <3> DEFINE d == Visible.data
    <3>1. d \in Seq(Tokens) /\ d \in Datas
      BY <1>1 DEF RolloutInv, Shapes, FileType, Visible, Datas
    <3>2. Clean(d) /\ \A x \in written : In(d, x)
      BY <1>1, <2>2, <3>1 DEF RolloutInv, CleanInv
    <3>3. sent \in Nat
      BY <1>1, Parts DEF RolloutInv, Shapes
    <3> HIDE DEF d
    <3>4. DOMAIN d = 1 .. Len(d) /\ Len(d) \in Nat
      BY <3>1
    <3>5. ASSUME NEW x \in acked PROVE x \in Read(d)
      <4>1. x \in 1 .. sent /\ In(d, x)
        BY <2>1, <3>2, <3>5
      <4>2. PICK k \in 1 .. Len(d) : d[k] = x
        BY <4>1 DEF In
      <4>3. x # Eol
        BY <3>3, <4>1 DEF Eol
      <4>4. k \in Loaded(d)
        BY <3>2, <3>4, <4>2, <4>3 DEF Clean, Loaded
      <4>5. QED
        BY <4>2, <4>4 DEF Read
    <3>6. d # << >> /\ 1 \in 1 .. Len(d)
      <4>1. PICK x \in acked : TRUE
        BY <2>2
      <4>2. In(d, x)
        BY <2>1, <3>2, <4>1
      <4>3. PICK k \in 1 .. Len(d) : d[k] = x
        BY <4>2 DEF In
      <4>4. 1 \in 1 .. Len(d) /\ Len(d) # 0
        BY <3>4, <4>3
      <4>5. QED
        BY <4>4
    <3>7. d[1] = Meta
      BY <3>2, <3>6 DEF Clean
    <3>8. d[1] # Eol
      BY <3>7, TokensAre
    <3>9. 1 \in Loaded(d)
      BY <3>2, <3>4, <3>6, <3>8 DEF Clean, Loaded
    <3>10. \A j \in Loaded(d) : 1 <= j
      BY <3>4 DEF Loaded
    <3>11. QED
      BY <3>5, <3>7, <3>9, <3>10 DEF d
  <2>3. QED
    BY <2>1, <2>2 DEF AckedAreKept
<1>2. QED
  BY <1>1, Safety, PTL

\* A rollout on disk does not vanish under the recorder and the compression worker, and
\* what a reader sees only grows, unless the worker removes a file in use.
THEOREM Growing == Spec => HistoryOnlyGrows
<1>1. ASSUME RolloutInv, RolloutInv', [Next]_vars
      PROVE  [/\ Visible.here => Visible'.here
              /\ ~unlinked' => IsPrefix(Visible.data, Visible'.data)]_vars
  <2>1. CASE Next
    <3>1. Grows
      BY <1>1, <2>1, StepFiles DEF RolloutInv
    <3>2. Visible.data \in Seq(Tokens) /\ Visible'.data \in Seq(Tokens)
      BY <1>1 DEF RolloutInv, Shapes, FileType, Visible
    <3>3. ~unlinked' => IsPrefix(Visible.data, Visible'.data)
      BY <3>1, <3>2, PrefixIs DEF Grows
    <3>4. QED
      BY <3>1, <3>3 DEF Grows
  <2>2. CASE UNCHANGED vars
    BY <2>2
  <2>3. QED
    BY <1>1, <2>1, <2>2
<1>2. QED
  BY <1>1, Safety, PTL DEF HistoryOnlyGrows, Spec

=============================================================================
