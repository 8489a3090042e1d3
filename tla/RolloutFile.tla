----------------------------- MODULE RolloutFile -----------------------------
(***************************************************************************)
(* The rollout file of one thread: the recorder that appends to it         *)
(* (codex-rs/rollout/src/recorder.rs, reached through the live writers of  *)
(* codex-rs/thread-store/src/local/live_writer.rs) and the worker of any   *)
(* codex process that compresses rollouts that have not changed for a week *)
(* (codex-rs/rollout/src/compression.rs).                                  *)
(*                                                                         *)
(* A file is the sequence of what was appended to it: items, line ends and *)
(* pieces of items that a failed write left behind.  The recorder holds    *)
(* the file through a handle, which still works, to no avail, when the     *)
(* worker has removed the name.                                            *)
(***************************************************************************)
EXTENDS Integers, Sequences, SequencesExt

CONSTANTS
    Compression,  \* Feature::LocalThreadStoreCompression
    Capacity,     \* of the recorder's channel
    MaxItems,     \* bound on the items recorded
    MaxFaults     \* bound on the I/O errors

ASSUME BoundsAssumption ==
    /\ Compression \in BOOLEAN
    /\ Capacity \in Nat \ {0} /\ MaxItems \in Nat /\ MaxFaults \in Nat

VARIABLES
    plain,     \* the .jsonl file
    zst,       \* the .jsonl.zst file
    rec,       \* the live recorder and its writer task
    worker,    \* the job of the compression worker
    sent,      \* items recorded so far; item n is the n-th
    acked,     \* items recorded before a persist, flush or shutdown that returned Ok
    written,   \* items the writer took to be written
    lost,      \* items still in memory when their recorder died
    faults,    \* I/O errors so far
    torn,      \* a failed write left a part of a line behind
    unlinked   \* the worker removed a file that was in use

vars == <<plain, zst, rec, worker, sent, acked, written, lost, faults, torn, unlinked>>

Items == 1..MaxItems
Meta == 0     \* the SessionMeta line
Torn == -1    \* a proper prefix of an item's JSON
Eol == -2
Tokens == Items \cup {Meta, Torn, Eol}

NoFile == [here |-> FALSE, data |-> <<>>, cold |-> FALSE]

\* The commands of the channel: items, or a barrier that waits for its answer.
Barriers == {"persist", "flush", "shutdown"}
Cmd(op, n) == [op |-> op, n |-> n]
NoCmd == Cmd("none", 0)

\* RolloutRecorderParams::Create: nothing is on disk until the first barrier.
NewRecorder == [pc |-> "idle", chan |-> <<>>, open |-> TRUE, pending |-> <<>>, meta |-> TRUE,
                deferred |-> TRUE, handle |-> "none", try |-> 0, cmd |-> NoCmd]
NoRecorder == [NewRecorder EXCEPT !.pc = "none", !.open = FALSE, !.meta = FALSE, !.deferred = FALSE]
IdleWorker == [pc |-> "idle", before |-> <<>>, temp |-> <<>>]

TypeOK ==
    /\ \A f \in {plain, zst} : f.data \in Seq(Tokens) /\ {f.here, f.cold} \subseteq BOOLEAN
    /\ rec.pc \in {"none", "idle", "materialize", "unzip", "open", "write"}
    /\ rec.chan \in Seq([op : Barriers \cup {"items"}, n : 0..MaxItems])
    /\ Len(rec.chan) <= Capacity
    /\ rec.pending \in Seq(Items)
    /\ rec.handle \in {"none", "plain", "orphan"}
    /\ rec.pc = "write" => rec.handle # "none"
    /\ {rec.open, rec.meta, rec.deferred, torn, unlinked} \subseteq BOOLEAN
    /\ worker.pc \in {"idle", "encode", "check", "persist", "recheck", "remove"}
    /\ sent \in 0..MaxItems /\ faults \in 0..MaxFaults
    /\ UNION {acked, written, lost} \subseteq 1..sent

Init ==
    /\ plain = NoFile
    /\ zst = NoFile
    /\ rec = NewRecorder
    /\ worker = IdleWorker
    /\ sent = 0 /\ acked = {} /\ written = {} /\ lost = {}
    /\ faults = 0 /\ torn = FALSE /\ unlinked = FALSE

-----------------------------------------------------------------------------
(* Reading.                                                                 *)

\* Mutant: a compressed file hides the plain one.
VisibleCompressed == IF zst.here THEN zst ELSE plain

\* existing_rollout_path: the plain file hides a compressed one.
Visible == IF plain.here THEN plain ELSE zst

\* load_rollout_items: the lines that parse.  A line that holds anything beside one
\* item does not; the last line needs no end.  A line is known by the place of its
\* item, and they are loaded in the order of the file.
Parses(d, k) ==
    /\ d[k] \notin {Torn, Eol}
    /\ k = 1 \/ d[k - 1] = Eol
    /\ k = Len(d) \/ d[k + 1] = Eol

Loaded(d) == {k \in DOMAIN d : Parses(d, k)}

\* What they hold.
Read(d) == {d[k] : k \in Loaded(d)}

-----------------------------------------------------------------------------
(* Callers of the recorder.                                                 *)

fileVars == <<plain, zst, worker, unlinked>>
ghostVars == <<acked, written, lost, faults, torn>>

Send(cmd) ==
    /\ rec.open
    /\ Len(rec.chan) < Capacity
    /\ rec' = [rec EXCEPT !.chan = Append(@, cmd)]

\* record_canonical_items
Record ==
    /\ sent < MaxItems
    /\ Send(Cmd("items", sent + 1))
    /\ sent' = sent + 1
    /\ UNCHANGED <<fileVars, ghostVars>>

\* persist, flush and shutdown; the answer covers what was recorded before.
Barrier(op) ==
    /\ Send(Cmd(op, sent))
    /\ UNCHANGED <<fileVars, ghostVars, sent>>

\* discard_thread drops the sender; the writer task ends when the channel is drained.
Discard ==
    /\ rec.open
    /\ rec' = [rec EXCEPT !.open = FALSE]
    /\ UNCHANGED <<fileVars, ghostVars, sent>>

\* resume_thread reads the thread, which takes a SessionMeta, and opens the file.
Resume ==
    /\ rec.pc = "none"
    /\ Meta \in Read(Visible.data)
    /\ rec' = [NoRecorder EXCEPT !.pc = "materialize", !.cmd = Cmd("resume", 0)]
    /\ UNCHANGED <<fileVars, ghostVars, sent>>

-----------------------------------------------------------------------------
(* The writer task: RolloutWriterState under rollout_writer.                *)

\* Items only the recorder knows of.
InMemory(r) ==
    ToSet(r.pending) \cup {r.chan[k].n : k \in {j \in DOMAIN r.chan : r.chan[j].op = "items"}}

Gone == NoRecorder

\* The end of a command.  Only a shutdown that succeeded ends the task.
Answer(r, ok) ==
    /\ rec' = IF ok /\ r.cmd.op = "shutdown" THEN Gone
              ELSE [r EXCEPT !.pc = "idle", !.try = 0, !.cmd = NoCmd]
    /\ acked' = IF ok /\ r.cmd.op \in Barriers THEN acked \cup ((1..r.cmd.n) \ lost) ELSE acked
    /\ lost' = IF ok /\ r.cmd.op = "shutdown" THEN lost \cup InMemory(r) ELSE lost

\* Mutant: the file is taken to be open.
AttemptUnopened(r, try) == [r EXCEPT !.try = try, !.pc = "write"]

\* write_pending_once: open the file unless it is open, then write.
Attempt(r, try) ==
    [r EXCEPT !.try = try, !.pc = IF r.handle = "none" THEN "materialize" ELSE "write"]

Deferred(r) == r.deferred /\ r.handle = "none"

\* Mutant: a deferred recorder has nothing to flush.
NothingYet(r) == Deferred(r) /\ r.cmd.op # "persist"

\* Items stay in memory until a barrier creates the file; a recorder that has written
\* nothing and has nothing to write answers flush and shutdown at once.
NothingToWrite(r) ==
    /\ Deferred(r)
    /\ \/ r.cmd.op = "items"
       \/ r.cmd.op \in {"flush", "shutdown"} /\ r.pending = <<>>

\* A command is received.
Receive ==
    LET cmd == Head(rec.chan)
        r == [rec EXCEPT !.chan = Tail(@), !.cmd = cmd,
                         !.pending = IF cmd.op = "items" THEN Append(@, cmd.n) ELSE @]
    IN /\ rec.pc = "idle" /\ rec.chan # <<>>
       /\ IF NothingToWrite(r) THEN Answer(r, TRUE)
          ELSE rec' = Attempt(r, 1) /\ UNCHANGED <<acked, lost>>
       /\ UNCHANGED <<fileVars, sent, written, faults, torn>>

\* The channel is closed and empty: the task ends with what is pending.
Ended ==
    /\ rec.pc = "idle" /\ rec.chan = <<>> /\ ~rec.open
    /\ rec' = Gone
    /\ lost' = lost \cup InMemory(rec)
    /\ UNCHANGED <<fileVars, sent, acked, written, faults, torn>>

\* materialize_rollout_for_append_blocking: without a plain file, the compressed one
\* is decoded into a new file that is linked under the plain name ...
Materialize ==
    /\ rec.pc = "materialize"
    /\ IF ~plain.here /\ zst.here
       THEN /\ plain' = [zst EXCEPT !.cold = FALSE]
            /\ rec' = [rec EXCEPT !.pc = "unzip"]
       ELSE /\ rec' = [rec EXCEPT !.pc = "open"]
            /\ UNCHANGED plain
    /\ UNCHANGED <<zst, worker, unlinked, ghostVars, sent>>

\* ... and then removed.
Unzipped ==
    /\ rec.pc = "unzip"
    /\ zst' = NoFile
    /\ rec' = [rec EXCEPT !.pc = "open"]
    /\ UNCHANGED <<plain, worker, unlinked, ghostVars, sent>>

\* write_pending_with_recovery: drop the handle and try once more, then report.
Failed(r) ==
    LET closed == [r EXCEPT !.handle = "none"]
    IN IF r.try = 1
       THEN rec' = Attempt(closed, 2) /\ UNCHANGED <<acked, lost>>
       ELSE Answer(closed, FALSE)

\* Mutant: the file is opened anew, not for appending.
OpenTruncating ==
    /\ rec.pc = "open"
    /\ plain' = [NoFile EXCEPT !.here = TRUE]
    /\ rec' = IF rec.cmd.op = "resume"
              THEN [rec EXCEPT !.pc = "idle", !.open = TRUE, !.handle = "plain", !.cmd = NoCmd]
              ELSE [rec EXCEPT !.pc = "write", !.handle = "plain", !.deferred = FALSE]
    /\ UNCHANGED <<zst, worker, unlinked, ghostVars, sent>>

\* A resumed recorder opens the file only if it exists; the writer creates it
\* (open_log_file) and forgets that it was deferred.
Open ==
    /\ rec.pc = "open"
    /\ IF rec.cmd.op = "resume"
       THEN /\ rec' = IF plain.here
                      THEN [rec EXCEPT !.pc = "idle", !.open = TRUE, !.handle = "plain", !.cmd = NoCmd]
                      ELSE Gone
            /\ UNCHANGED plain
       ELSE /\ plain' = IF plain.here THEN plain ELSE [NoFile EXCEPT !.here = TRUE]
            /\ rec' = [rec EXCEPT !.pc = "write", !.handle = "plain", !.deferred = FALSE]
    /\ UNCHANGED <<zst, worker, unlinked, ghostVars, sent>>

OpenFails ==
    /\ rec.pc = "open" /\ rec.cmd.op # "resume"
    /\ faults < MaxFaults
    /\ faults' = faults + 1
    /\ Failed(rec)
    /\ UNCHANGED <<fileVars, sent, written, torn>>

\* The next line: the session meta, then the items.
NextLine == IF rec.meta THEN Meta ELSE Head(rec.pending)

\* Mutant: what is written stays pending.
NotDrained == [rec EXCEPT !.meta = FALSE]

\* An item leaves the queue once it is written.
Drained == IF rec.meta THEN [rec EXCEPT !.meta = FALSE] ELSE [rec EXCEPT !.pending = Tail(@)]

Appended(tokens) ==
    plain' = IF rec.handle = "plain" /\ tokens # <<>>
             THEN [plain EXCEPT !.data = @ \o tokens, !.cold = FALSE]
             ELSE plain

WriteLine ==
    /\ rec.pc = "write"
    /\ rec.meta \/ rec.pending # <<>>
    /\ Appended(<<NextLine, Eol>>)
    /\ rec' = Drained
    /\ written' = written \cup ({NextLine} \ {Meta})
    /\ UNCHANGED <<zst, worker, unlinked, sent, acked, lost, faults, torn>>

\* Mutant: the item whose write failed is drained with the others.
WriteFailsDropping ==
    /\ rec.pc = "write"
    /\ rec.meta \/ rec.pending # <<>>
    /\ faults < MaxFaults
    /\ faults' = faults + 1
    /\ Failed(Drained)
    /\ UNCHANGED <<plain, zst, worker, unlinked, sent, written, torn>>

\* A write that fails may have written any proper part of the line.
WriteFails ==
    /\ rec.pc = "write"
    /\ rec.meta \/ rec.pending # <<>>
    /\ faults < MaxFaults
    /\ faults' = faults + 1
    /\ \E part \in {<<>>, <<Torn>>, <<NextLine>>} :
          Appended(part) /\ torn' = (torn \/ part # <<>>)
    /\ Failed(rec)
    /\ UNCHANGED <<zst, worker, unlinked, sent, written>>

WriteDone ==
    /\ rec.pc = "write"
    /\ ~rec.meta /\ rec.pending = <<>>
    /\ Answer(rec, TRUE)
    /\ UNCHANGED <<fileVars, sent, written, faults, torn>>

\* The process dies, if it must in the middle of a write.
Crash ==
    /\ rec.pc # "none"
    /\ rec' = Gone
    /\ lost' = lost \cup InMemory(rec)
    /\ UNCHANGED <<fileVars, sent, acked, written, faults, torn>>

-----------------------------------------------------------------------------
(* The compression worker, in this or another process.  Its run marker keeps *)
(* a second one away.                                                       *)

recVars == <<rec, sent, acked, written, lost, faults, torn>>

\* A week without a change to the file; no step of a task takes as long.
GetsCold ==
    /\ Compression
    /\ plain.here /\ ~plain.cold
    /\ rec.pc \in {"none", "idle"} /\ worker.pc = "idle"
    /\ plain' = [plain EXCEPT !.cold = TRUE]
    /\ UNCHANGED <<zst, worker, unlinked, recVars>>

Continue(pc) == worker' = [worker EXCEPT !.pc = pc]

\* compress_rollout_if_cold_blocking
ConsiderCold ==
    /\ Compression
    /\ worker.pc = "idle"
    /\ plain.here /\ plain.cold /\ ~zst.here
    /\ worker' = [IdleWorker EXCEPT !.pc = "encode", !.before = plain.data]
    /\ UNCHANGED <<plain, zst, unlinked, recVars>>

Encode ==
    /\ worker.pc = "encode"
    /\ worker' = [worker EXCEPT !.pc = "check", !.temp = plain.data]
    /\ UNCHANGED <<plain, zst, unlinked, recVars>>

\* same_file_state compares length and modification time.
SameState == plain.here /\ plain.data = worker.before

Check ==
    /\ worker.pc = "check"
    /\ IF SameState THEN Continue("persist") ELSE worker' = IdleWorker
    /\ UNCHANGED <<plain, zst, unlinked, recVars>>

PersistZst ==
    /\ worker.pc = "persist"
    /\ IF zst.here THEN worker' = IdleWorker /\ UNCHANGED zst
       ELSE /\ zst' = [here |-> TRUE, data |-> worker.temp, cold |-> TRUE]
            /\ Continue("recheck")
    /\ UNCHANGED <<plain, unlinked, recVars>>

Recheck ==
    /\ worker.pc = "recheck"
    /\ IF SameState THEN Continue("remove") /\ UNCHANGED zst
       ELSE worker' = IdleWorker /\ zst' = NoFile
    /\ UNCHANGED <<plain, unlinked, recVars>>

\* The recorder has the file open, or is on its way to open it, or wrote to it.
InUse == rec.handle = "plain" \/ rec.pc = "open" \/ ~SameState

RemovePlain ==
    /\ worker.pc = "remove"
    /\ plain' = NoFile
    /\ rec' = [rec EXCEPT !.handle = IF @ = "plain" THEN "orphan" ELSE @]
    /\ unlinked' = (unlinked \/ InUse)
    /\ worker' = IdleWorker
    /\ UNCHANGED <<zst, sent, acked, written, lost, faults, torn>>

WorkerDies ==
    /\ worker.pc # "idle"
    /\ worker' = IdleWorker
    /\ UNCHANGED <<plain, zst, unlinked, recVars>>

-----------------------------------------------------------------------------
Next ==
    \/ Record \/ Discard \/ Resume
    \/ \E op \in Barriers : Barrier(op)
    \/ Receive \/ Ended \/ Materialize \/ Unzipped \/ Open \/ OpenFails
    \/ WriteLine \/ WriteFails \/ WriteDone \/ Crash
    \/ GetsCold \/ ConsiderCold \/ Encode \/ Check \/ PersistZst \/ Recheck \/ RemovePlain
    \/ WorkerDies

Spec == Init /\ [][Next]_vars

-----------------------------------------------------------------------------
(* Properties.                                                              *)

\* Every item recorded is in the channel or pending, or written, or went down with
\* its recorder, and it is only one of these: failed writes and retries neither
\* skip an item nor take a written one for unwritten.
ItemsConserved ==
    LET m == InMemory(rec)
    IN /\ 1..sent = UNION {m, written, lost}
       /\ m \cap written = {} /\ m \cap lost = {} /\ written \cap lost = {}

\* What a reader loads is in the order of recording, without duplicates, whatever
\* failed, crashed, was resumed, compressed or decompressed.
LoadedInOrder ==
    LET d == Visible.data
    IN \A j, k \in Loaded(d) : j < k /\ Meta \notin {d[j], d[k]} => d[j] < d[k]

\* An answer Ok covers every item recorded before it: the writer wrote them all, and
\* as long as no write left part of a line behind and the worker removed no file in
\* use, they are read back, after the session meta.
AckedAreKept ==
    /\ acked \subseteq written
    /\ ~torn /\ ~unlinked /\ acked # {} =>
           LET d == Visible.data
           IN /\ acked \subseteq Read(d)
              /\ \E k \in Loaded(d) : d[k] = Meta /\ \A j \in Loaded(d) : k <= j

\* A rollout on disk does not vanish; unless the worker removed a file in use, what
\* a reader sees only grows.
HistoryOnlyGrows ==
    [][/\ Visible.here => Visible'.here
       /\ ~unlinked' => IsPrefix(Visible.data, Visible'.data)]_vars

\* A flush that returned Ok has committed what was recorded before it: a reader
\* finds it.
FlushedIsRead == acked \subseteq Read(Visible.data)

=============================================================================
