---------------------------- MODULE RecoveryWalk ----------------------------
(***************************************************************************)
(* recover_events as it is written: a walk over the recovered chunks that   *)
(* inserts them into the reorder buffer and publishes what is ready after   *)
(* each.  ExecStream states what that walk comes to; here the two are       *)
(* compared in every state in which a reply is applied.                     *)
(***************************************************************************)
EXTENDS ExecStream, SequencesExt

\* The state under the lock of ordered_events, the exit_known flag of the
\* walk, and whether it returned an error.
Start == [last |-> last, pending |-> pending, published |-> published,
          known |-> ExitKnown, err |-> FALSE]

\* insert_pending.
Insert(w, e) ==
  IF e.seq \in Seqs(w.pending) THEN w
  ELSE IF Overflow(e.seq, w.last, w.pending) THEN [w EXCEPT !.err = TRUE]
  ELSE [w EXCEPT !.pending = @ \cup {e}]

\* One turn of the loop of publish_ready.
ReleaseNext(w, i) ==
  LET ready == {e \in w.pending : e.seq = w.last + 1} IN
  IF w.err \/ ready = {} THEN w
  ELSE LET e == CHOOSE e \in ready : TRUE IN
       [w EXCEPT !.last = e.seq, !.pending = @ \ {e},
                 !.published = Append(@, e.kind)]

\* publish_ready, skipped after an error.
ReleaseAll(w) == FoldLeft(ReleaseNext, w, [i \in Positions \ {0} |-> i])

\* One recovered chunk.
WalkChunk(w, c) ==
  IF w.err THEN w
  ELSE LET x == IF reply.exited /\ ~w.known /\ c > w.last + 1
                THEN [ReleaseAll(Insert(w, [seq |-> w.last + 1,
                                            kind |-> "exit"]))
                        EXCEPT !.known = TRUE]
                ELSE w
       IN IF c > x.last THEN ReleaseAll(Insert(x, [seq |-> c, kind |-> "out"]))
                        ELSE x

WalkChunks == FoldLeft(WalkChunk, Start, SetToSortSeq(reply.chunks, <))

\* The close follows the chunks.
WalkClosed ==
  LET w == WalkChunks IN
  IF ~w.err /\ reply.closed /\ ~Has(w.published, "closed")
  THEN Insert(w, [seq |-> Target, kind |-> "closed"])
  ELSE w

\* first_missing_seq.
FirstMissing(w) ==
  CHOOSE m \in (w.last + 1) .. (Target + 1) :
    /\ m \notin Seqs(w.pending)
    /\ (w.last + 1) .. (m - 1) \subseteq Seqs(w.pending)

\* The end of recover_events: an exit still unknown must be the one event
\* that is missing, otherwise none may be.
WalkExit ==
  LET w == WalkClosed
      missing == Cardinality(Missing(w.last, w.pending))
      late == reply.exited /\ ~w.known
  IN IF w.err THEN w
     ELSE IF missing # (IF late THEN 1 ELSE 0) THEN [w EXCEPT !.err = TRUE]
     ELSE ReleaseAll(IF late THEN Insert(w, [seq |-> FirstMissing(w),
                                             kind |-> "exit"])
                             ELSE w)

\* Applying a recovery reply publishes, buffers and fails exactly as the loop
\* over its chunks does, evicted output and a full buffer included
\* (recover_events).
RecoveryFollowsTheWalk ==
  [][rec = "answered" /\ rec' \in {"install", "terminate"}
       /\ ~(Terminal \/ Target <= last)
       => LET w == WalkExit IN
          /\ last' = w.last
          /\ pending' = w.pending
          /\ published' = w.published
          /\ rec' = IF w.err THEN "terminate" ELSE "install"]_vars
=============================================================================
