------------------------------ MODULE UsageSync ------------------------------
(***************************************************************************)
(* Usage telemetry, envelope version 2: a collection pass reads the rows   *)
(* of every source above the source's cursor, adds what it knows of its    *)
(* own running time and writes batches to a spool                          *)
(* (usage_v2_collector_service.rs, usage_source_service.rs,                *)
(* harness_usage_service.rs); uploads post the spool's batches and settle  *)
(* them by the server's receipts (sync_service.rs).  The periodic sync and *)
(* the last sync of the program's exit may upload at the same time.        *)
(*                                                                         *)
(* OMP's cursor moves when a batch is collected.  The native and the       *)
(* harness cursors move when the server has taken the batch: the new value *)
(* is banked under the batch's idempotency key, which is a digest of its   *)
(* rows.  The server is external.  Consent is given throughout, quota      *)
(* samples, the retention horizon and envelope version 1 are left out.     *)
(***************************************************************************)
EXTENDS Integers, Sequences, FiniteSets

CONSTANTS Logs,      \* what the sources may come to write, see stamp
          Page,      \* Page[s]: the rows of s one batch takes
          BatchRows, \* MAX_ROWS_PER_BATCH, coverage rows included
          Intervals, \* coverage rows of one heartbeat: 2 when OMP's store lags behind
          SpoolCap,  \* MAX_PENDING_BATCHES
          MaxBeats,  \* MaxBeats[stamp]: bound on collection passes and stops
          MaxTrouble,\* MaxTrouble[stamp]: bound on lost or postponed envelopes
                     \* and failed passes
          MaxDeaths  \* bound on the deaths of the process

Sources == {"native", "omp", "harness"}
Uploaders == {"sync", "exit"}

ASSUME BoundAssumption == /\ Page \in [Sources -> Nat \ {0}]
                          /\ {MaxBeats, MaxTrouble} \subseteq [Logs -> Nat]
                          /\ {BatchRows, Intervals, SpoolCap, MaxDeaths} \subseteq Nat
\* A page fits a batch.
ASSUME PageAssumption == \A s \in Sources : Page[s] <= BatchRows
\* Rows are appended in the order of their stamps.
ASSUME LogAssumption ==
    \A log \in Logs :
        /\ log \in [Sources -> Seq(Nat \ {0})]
        /\ \A s \in Sources : \A m, n \in DOMAIN log[s] : m < n => log[s][m] <= log[s][n]
        /\ \A n \in DOMAIN log["omp"] : log["omp"][n] = n

VARIABLES
    \* Stores.
    stamp,      \* stamp[s]: the rows s will have written in the end; stamp[s][n]
                \* is what its cursor compares of row n, for OMP its rowid, for
                \* the others the second of the request
    written,    \* written[s]: the rows the source has written so far
    cursor,     \* cursor[s]
    bank,       \* [batch, to]: what the cursor becomes when the batch is accepted
    spool,      \* usage_v2_pending_batches, oldest first
    quarantine, \* usage_v2_quarantined_batches
    beats,      \* heartbeats so far, the number of the latest: coverage_heartbeat_ms
    counting,   \* coverage_running
    gap,        \* spool_gap: dropped rows that no coverage row declares yet
    \* The collection pass, one at a time.
    pass,       \* where it is
    owner,      \* who has begun it: the background loop or an upload
    held,       \* the batches it has collected
    dropped,    \* the rows it has trimmed from the spool
    \* Uploads.
    up,         \* up[u]: where the upload is
    posted,     \* posted[u]: batches of the envelope left to deal with, and what
                \* became of them
    last,       \* last[u]: something was postponed, no further pass follows
    hand,       \* hand[u]: the batch it deals with, and what was banked for it
    exiting,    \* RunEvent::ExitRequested has come
    \* The server.
    stored,     \* <<source, row>> it has stored
    \* History.
    trimmed,    \* rows dropped at the cap
    lost,       \* rows past OMP's cursor that a broken pass took with it
    trouble, deaths

logs       == <<stamp, written, cursor>>
collecting == <<pass, owner, held, dropped>>
coverage   == <<beats, counting, gap>>
uploading  == <<up, posted, last, hand>>
history    == <<trimmed, lost>>
bounds     == <<trouble, deaths>>
vars == <<logs, bank, spool, quarantine, coverage, collecting, uploading, exiting,
          stored, history, bounds>>

PassPlaces == {"idle", "native", "omp", "harness", "beat", "persist", "mark"}
UploadPlaces == {"idle", "collect", "wait", "read", "settle", "unspool", "advance", "set"}
Verdicts == {"sent", "invalid", "stored", "refused"}

Rows(s) == DOMAIN stamp[s]
AllRows == UNION {{s} \X Rows(s) : s \in Sources}

\* A batch: rows of its source, with the coverage rows of one heartbeat.  Its
\* idempotency key is a digest of all of it.
Batches == [source : Sources, rows : SUBSET Nat,
            beat : Nat, covers : Nat, gap : SUBSET AllRows]
NoBatch == [source |-> "none"]
EmptyHand == [batch |-> NoBatch, to |-> 0]
Batch(s, rows) == [source |-> s, rows |-> rows, beat |-> 0, covers |-> 0, gap |-> {}]

RowsOf(b) == {b.source} \X b.rows
RowsIn(bs) == UNION {RowsOf(b) : b \in bs}
InSeq(q) == {q[i] : i \in DOMAIN q}

\* What q has of S, in its order (SelectSeq by a set of batches, without recursion).
Kept(q, S) ==
    LET I == {i \in DOMAIN q : q[i] \in S}
        nth(k) == CHOOSE i \in I : Cardinality({j \in I : j <= i}) = k
    IN  [k \in 1..Cardinality(I) |-> q[nth(k)]]
Without(q, b) == Kept(q, InSeq(q) \ {b})
OfOmp(bs) == {b \in bs : b.source = "omp"}

TypeOK ==
    /\ stamp \in Logs
    /\ written \in [Sources -> Nat] /\ cursor \in [Sources -> Nat]
    /\ bank \subseteq [batch : Batches, to : Nat]
    /\ {spool, held} \subseteq Seq(Batches) /\ quarantine \subseteq Batches
    /\ beats \in Nat /\ counting \in BOOLEAN
    /\ gap \cup dropped \subseteq AllRows
    /\ pass \in PassPlaces /\ owner \in Uploaders \cup {"loop"}
    /\ up \in [Uploaders -> UploadPlaces]
    /\ posted \in [Uploaders -> SUBSET [batch : Batches, verdict : Verdicts]]
    /\ last \in [Uploaders -> BOOLEAN]
    /\ hand \in [Uploaders -> [batch : Batches \cup {NoBatch}, to : Nat]]
    /\ exiting \in BOOLEAN
    /\ stored \cup trimmed \cup lost \subseteq AllRows
    /\ trouble \in 0..MaxTrouble[stamp] /\ deaths \in 0..MaxDeaths

Init ==
    /\ stamp \in Logs
    /\ written = [s \in Sources |-> 0] /\ cursor = [s \in Sources |-> 0]
    /\ bank = {} /\ spool = <<>> /\ quarantine = {}
    /\ beats = 0 /\ counting = FALSE /\ gap = {}
    /\ pass = "idle" /\ owner = "loop" /\ held = <<>> /\ dropped = {}
    /\ up = [u \in Uploaders |-> "idle"]
    /\ posted = [u \in Uploaders |-> {}]
    /\ last = [u \in Uploaders |-> FALSE] /\ hand = [u \in Uploaders |-> EmptyHand]
    /\ exiting = FALSE
    /\ stored = {} /\ trimmed = {} /\ lost = {}
    /\ trouble = 0 /\ deaths = 0

-------------------------------------------------------------------------------
(* Sources *)

\* Other programs and the agent loop write rows at any time.  Nobody but a pass
\* looks at them, so they may as well appear when it does.
Written(s) == \E n \in written[s]..Len(stamp[s]) : written' = [written EXCEPT ![s] = n]

\* The oldest rows above the cursor, up to a page of them.
Unread(s, have) == {n \in 1..have : stamp[s][n] > cursor[s]}
NextPage(s, have) == {n \in Unread(s, have) :
                        Cardinality({m \in Unread(s, have) : m < n}) < Page[s]}
HighWater(s, rows) == stamp[s][CHOOSE n \in rows : \A m \in rows : m <= n]

-------------------------------------------------------------------------------
(* The collection pass *)

BeginPass(who) ==
    /\ pass = "idle" /\ beats < MaxBeats[stamp]
    /\ pass' = "native" /\ owner' = who
    /\ UNCHANGED <<held, dropped>>

\* The background loop of the collector.
LoopCollects ==
    /\ ~exiting /\ BeginPass("loop")
    /\ UNCHANGED <<logs, bank, spool, quarantine, coverage, uploading, exiting,
                   stored, history, bounds>>

\* collect_v2 of the native and the harness source: the cursor's next value is
\* banked under the key the batch has now.
CollectBanked(s, then) ==
    /\ pass = s
    /\ Written(s)
    /\ LET b == Batch(s, NextPage(s, written'[s]))
       IN  IF b.rows = {} THEN UNCHANGED <<bank, held>>
           ELSE /\ bank' = {k \in bank : k.batch # b}
                             \cup {[batch |-> b, to |-> HighWater(s, b.rows)]}
                /\ held' = Append(held, b)
    /\ pass' = then
    /\ UNCHANGED <<stamp, cursor, spool, quarantine, coverage, owner, dropped, uploading,
                   exiting, stored, history, bounds>>

CollectNative == CollectBanked("native", "omp")
CollectHarness == CollectBanked("harness", "beat")

\* Mutant of DrainOmp: the cursor takes the end of the store, not of the page.
DrainOmpToTheEnd ==
    /\ pass = "omp"
    /\ Written("omp")
    /\ LET b == Batch("omp", NextPage("omp", written'["omp"]))
           to == stamp["omp"][written'["omp"]]
       IN  /\ b.rows # {}
           /\ cursor' = [cursor EXCEPT !["omp"] = to]
           /\ bank' = bank \cup {[batch |-> b, to |-> to]}
           /\ held' = Append(held, b)
    /\ UNCHANGED <<stamp, spool, quarantine, coverage, pass, owner, dropped, uploading,
                   exiting, stored, history, bounds>>

\* One iteration of collect_v2_drain: OMP's cursor moves at once.
DrainOmp ==
    /\ pass = "omp"
    /\ Written("omp")
    /\ LET b == Batch("omp", NextPage("omp", written'["omp"]))
           to == HighWater("omp", b.rows)
       IN  /\ b.rows # {}
           /\ cursor' = [cursor EXCEPT !["omp"] = to]
           /\ bank' = bank \cup {[batch |-> b, to |-> to]}
           /\ held' = Append(held, b)
    /\ UNCHANGED <<stamp, spool, quarantine, coverage, pass, owner, dropped, uploading,
                   exiting, stored, history, bounds>>

OmpDrained ==
    /\ pass = "omp"
    /\ NextPage("omp", written["omp"]) = {}
    /\ pass' = "harness"
    /\ UNCHANGED <<logs, bank, spool, quarantine, coverage, owner, held, dropped,
                   uploading, exiting, stored, history, bounds>>

\* An iteration fails: the batches of the iterations before it are dropped.
OmpFails ==
    /\ pass = "omp" /\ trouble < MaxTrouble[stamp]
    /\ pass' = "harness"
    /\ held' = Kept(held, InSeq(held) \ OfOmp(InSeq(held)))
    /\ lost' = lost \cup RowsIn(OfOmp(InSeq(held)))
    /\ trouble' = trouble + 1
    /\ UNCHANGED <<logs, bank, spool, quarantine, coverage, owner, dropped, uploading,
                   exiting, stored, trimmed, deaths>>

\* Mutant of WithCoverage: coverage rows are sent as a source of their own.
WithCoverageApart(batches, covers, declared) ==
    IF covers = 0 THEN batches
    ELSE Append(batches, [source |-> "collector", rows |-> {}, beat |-> beats + 1,
                          covers |-> covers, gap |-> declared])

\* append_native_rows: coverage rows join the native batch, or are one of their
\* own; the key is computed again.
WithCoverage(batches, covers, declared) ==
    LET native == {b \in InSeq(batches) : b.source = "native"}
    IN  IF covers = 0 THEN batches
        ELSE Append(Kept(batches, InSeq(batches) \ native),
                    [source |-> "native", rows |-> UNION {b.rows : b \in native},
                     beat |-> beats + 1, covers |-> covers, gap |-> declared])

\* heartbeat: coverage rows for the interval since the last one, and a gap for
\* what the cap has dropped.  After a stop it is start: one gap row, unless there
\* was no heartbeat before.
Beat ==
    /\ pass = "beat"
    /\ pass' = "persist"
    /\ beats' = beats + 1 /\ counting' = TRUE
    /\ IF counting
         THEN /\ held' = WithCoverage(held, Intervals + (IF gap = {} THEN 0 ELSE 1), gap)
              /\ gap' = {}
         ELSE /\ held' = WithCoverage(held, IF beats = 0 THEN 0 ELSE 1, {})
              /\ UNCHANGED gap
    /\ UNCHANGED <<logs, bank, spool, quarantine, owner, dropped, uploading, exiting,
                   stored, history, bounds>>

\* INSERT OR IGNORE, in the order of created_at.
Spooled(b) == IF b \in InSeq(spool) THEN spool ELSE Append(spool, b)

Persist ==
    /\ pass = "persist" /\ held # <<>>
    /\ spool' = Spooled(Head(held))
    /\ held' = Tail(held)
    /\ UNCHANGED <<logs, bank, quarantine, coverage, pass, owner, dropped, uploading,
                   exiting, stored, history, bounds>>

\* The pass lets go of its lock; an upload that began it goes on.
PassEnds ==
    /\ pass' = "idle" /\ owner' = "loop" /\ held' = <<>> /\ dropped' = {}
    /\ up' = [u \in Uploaders |-> IF u = owner THEN "read" ELSE up[u]]
    /\ UNCHANGED <<posted, last, hand>>

\* trim_spool drops the oldest batches over the cap, with the gaps they declare.
TrimSpool ==
    LET excess == Len(spool) - SpoolCap
        old == InSeq(SubSeq(spool, 1, excess))
    IN  /\ pass = "persist" /\ held = <<>>
        /\ \/ excess <= 0 /\ PassEnds /\ UNCHANGED <<spool, trimmed>>
           \/ /\ excess > 0
              /\ pass' = "mark"
              /\ spool' = SubSeq(spool, excess + 1, Len(spool))
              /\ dropped' = RowsIn(old) \cup UNION {b.gap : b \in old}
              /\ trimmed' = trimmed \cup RowsIn(old)
              /\ UNCHANGED <<owner, held, uploading>>
        /\ UNCHANGED <<logs, bank, quarantine, coverage, exiting, stored, lost, bounds>>

\* The gap is noted for the next heartbeat; an earlier one is overwritten.
MarkGap ==
    /\ pass = "mark"
    /\ gap' = dropped
    /\ PassEnds
    /\ UNCHANGED <<logs, bank, spool, quarantine, beats, counting, exiting, stored,
                   history, bounds>>

\* The database refuses the heartbeat or a batch: the rest of the pass is dropped.
PassFails ==
    /\ pass \in {"beat", "persist"} /\ trouble < MaxTrouble[stamp]
    /\ PassEnds
    /\ lost' = lost \cup RowsIn(OfOmp(InSeq(held)))
    /\ trouble' = trouble + 1
    /\ UNCHANGED <<logs, bank, spool, quarantine, coverage, exiting, stored, trimmed, deaths>>

-------------------------------------------------------------------------------
(* Uploads *)

\* sync_on_exit: stop_and_spool writes the last interval, then the program
\* uploads once more, whether a sync is in flight or not.
BeginExit ==
    /\ ~exiting /\ deaths < MaxDeaths /\ beats < MaxBeats[stamp]
    /\ exiting' = TRUE
    /\ beats' = beats + 1 /\ counting' = FALSE
    /\ spool' = spool \o WithCoverage(<<>>, Intervals, {})
    /\ up' = [up EXCEPT !["exit"] = "collect"]
    /\ UNCHANGED <<logs, bank, quarantine, gap, collecting, posted, last, hand, stored,
                   history, bounds>>

\* An upload collects first, unless a pass is under way.  trigger_sync starts one
\* when none of its own is in flight (SyncInFlightGuard).
UploadCollects(u) ==
    /\ up[u] = IF u = "sync" THEN "idle" ELSE "collect"
    /\ \/ BeginPass(u) /\ up' = [up EXCEPT ![u] = "wait"]
       \/ /\ pass # "idle" \/ beats >= MaxBeats[stamp]
          /\ up' = [up EXCEPT ![u] = "read"]
          /\ UNCHANGED collecting
    /\ UNCHANGED <<logs, bank, spool, quarantine, coverage, posted, last, hand, exiting,
                   stored, history, bounds>>

\* pending_batches: one batch per source, the oldest with rows, or else the oldest.
Pending ==
    LET of(s) == {b \in InSeq(spool) : b.source = s}
        withRows(s) == {b \in of(s) : b.rows # {}}
    IN  {Head(Kept(spool, IF withRows(s) = {} THEN of(s) ELSE withRows(s))) :
            s \in {b.source : b \in InSeq(spool)}}

Valid(b) == Cardinality(b.rows) + b.covers <= BatchRows
Entries(bs, verdict) == {[batch |-> b, verdict |-> verdict] : b \in bs}

\* assemble_v2_envelope: what the server would not take is rejected here.
ReadPending(u) ==
    /\ up[u] = "read"
    /\ posted' = [posted EXCEPT ![u] = Entries({b \in Pending : Valid(b)}, "sent")
                                         \cup Entries({b \in Pending : ~Valid(b)}, "invalid")]
    /\ up' = [up EXCEPT ![u] = IF spool = <<>> THEN "idle" ELSE "settle"]
    /\ UNCHANGED <<logs, bank, spool, quarantine, coverage, collecting, last, hand, exiting,
                   stored, history, bounds>>

With(u, verdicts) == {e.batch : e \in {f \in posted[u] : f.verdict \in verdicts}}

\* post_mcp.  The server (external) has every batch it accepts or calls a duplicate,
\* which settle alike ("stored"), and nothing of what it refuses or postpones.  The
\* answer arrives, or is lost and the upload ends.
Post(u) ==
    /\ up[u] = "settle"
    /\ With(u, {"invalid"}) = {} /\ With(u, {"sent"}) # {}
    /\ \E taken \in SUBSET With(u, {"sent"}) :
       \E refused \in SUBSET (With(u, {"sent"}) \ taken) :
         LET postponed == With(u, {"sent"}) \ (taken \cup refused)
         IN  /\ stored' = stored \cup RowsIn(taken)
             /\ \/ /\ posted' = [posted EXCEPT ![u] = Entries(taken, "stored")
                                                        \cup Entries(refused, "refused")]
                   /\ last' = [last EXCEPT ![u] = postponed # {}]
                   /\ trouble' = IF postponed # {} THEN trouble + 1 ELSE trouble
                   /\ UNCHANGED up
                \/ /\ refused = {}
                   /\ up' = [up EXCEPT ![u] = "idle"]
                   /\ posted' = [posted EXCEPT ![u] = {}]
                   /\ trouble' = trouble + 1
                   /\ UNCHANGED last
    /\ trouble' <= MaxTrouble[stamp]
    /\ UNCHANGED <<logs, bank, spool, quarantine, coverage, collecting, hand,
                   exiting, history, deaths>>

\* Dealing with one batch of the envelope begins ...
Take(u, b, verdict, place) ==
    /\ up[u] = "settle" /\ [batch |-> b, verdict |-> verdict] \in posted[u]
    /\ posted' = [posted EXCEPT ![u] = @ \ {[batch |-> b, verdict |-> verdict]}]
    /\ hand' = [hand EXCEPT ![u] = [batch |-> b, to |-> 0]]
    /\ up' = [up EXCEPT ![u] = place]

\* ... and ends.
GoOn(u) == /\ up' = [up EXCEPT ![u] = "settle"]
           /\ hand' = [hand EXCEPT ![u] = EmptyHand]

\* discard: the batch leaves the spool, and its source's cursor is next.
Discard(u) ==
    /\ \E verdict \in {"stored", "invalid"} : \E b \in With(u, {verdict}) :
         /\ Take(u, b, verdict, "advance")
         /\ spool' = Without(spool, b)
    /\ UNCHANGED <<logs, bank, quarantine, coverage, collecting, last, exiting, stored,
                   history, bounds>>

\* quarantine_batch keeps the batch aside before it deletes it from the spool.
Quarantine(u) ==
    /\ \E b \in With(u, {"refused"}) : /\ Take(u, b, "refused", "unspool")
                                       /\ quarantine' = quarantine \cup {b}
    /\ UNCHANGED <<logs, bank, spool, coverage, collecting, last, exiting, stored,
                   history, bounds>>

\* Mutant of Unspool: a batch that leaves the spool lets its cursor move.
UnspoolAdvances(u) ==
    /\ up[u] = "unspool"
    /\ spool' = Without(spool, hand[u].batch)
    /\ up' = [up EXCEPT ![u] = "advance"]
    /\ UNCHANGED <<logs, bank, quarantine, coverage, collecting, posted, last, hand, exiting,
                   stored, history, bounds>>

Unspool(u) ==
    /\ up[u] = "unspool"
    /\ spool' = Without(spool, hand[u].batch)
    /\ GoOn(u)
    /\ UNCHANGED <<logs, bank, quarantine, coverage, collecting, posted, last, exiting,
                   stored, history, bounds>>

\* advance_v2_checkpoint takes what is banked for the batch, and compares ...
TakeBanked(u) ==
    LET b == hand[u].batch
        due == {k \in bank : k.batch = b /\ k.to > cursor[b.source]}
    IN  /\ up[u] = "advance"
        /\ bank' = {k \in bank : k.batch # b}
        /\ \/ due = {} /\ GoOn(u)
           \/ \E k \in due : /\ hand' = [hand EXCEPT ![u] = k]
                             /\ up' = [up EXCEPT ![u] = "set"]
        /\ UNCHANGED <<logs, spool, quarantine, coverage, collecting, posted, last, exiting,
                       stored, history, bounds>>

\* ... before it writes.
SetCursor(u) ==
    /\ up[u] = "set"
    /\ cursor' = [cursor EXCEPT ![hand[u].batch.source] = hand[u].to]
    /\ GoOn(u)
    /\ UNCHANGED <<stamp, written, bank, spool, quarantine, coverage, collecting, posted,
                   last, exiting, stored, history, bounds>>

\* Another pass over the spool follows, unless something was postponed or the
\* passes of one upload are used up.
EndRound(u) ==
    /\ up[u] = "settle" /\ posted[u] = {}
    /\ last' = [last EXCEPT ![u] = FALSE]
    /\ \/ up' = [up EXCEPT ![u] = "idle"]
       \/ ~last[u] /\ up' = [up EXCEPT ![u] = "read"]
    /\ UNCHANGED <<logs, bank, spool, quarantine, coverage, collecting, posted, hand, exiting,
                   stored, history, bounds>>

-------------------------------------------------------------------------------
(* The process *)

\* The process dies and is started again: the stores remain.
Die ==
    /\ deaths < MaxDeaths
    /\ deaths' = deaths + 1
    /\ exiting' = FALSE
    /\ pass' = "idle" /\ owner' = "loop" /\ held' = <<>> /\ dropped' = {}
    /\ up' = [u \in Uploaders |-> "idle"]
    /\ posted' = [u \in Uploaders |-> {}]
    /\ last' = [u \in Uploaders |-> FALSE] /\ hand' = [u \in Uploaders |-> EmptyHand]
    /\ lost' = lost \cup RowsIn(OfOmp(InSeq(held)))
    /\ UNCHANGED <<logs, bank, spool, quarantine, coverage, stored, trimmed, trouble>>

\* sync_on_exit is waited for ten seconds at most.
EndExit == exiting /\ Die

PassStep == \/ CollectNative \/ DrainOmp \/ OmpDrained \/ OmpFails \/ CollectHarness
            \/ Beat \/ Persist \/ TrimSpool \/ MarkGap \/ PassFails

UploadStep(u) == \/ UploadCollects(u) \/ ReadPending(u) \/ Post(u)
                 \/ Discard(u) \/ Quarantine(u) \/ Unspool(u) \/ TakeBanked(u)
                 \/ SetCursor(u) \/ EndRound(u)

Next == \/ LoopCollects \/ PassStep
        \/ BeginExit
        \/ \E u \in Uploaders : UploadStep(u)
        \/ EndExit \/ Die

Spec == Init /\ [][Next]_vars

-------------------------------------------------------------------------------
(* Properties *)

\* Rows of one second share a stamp: once one of them is behind the cursor, the
\* source's query finds none of them any more.
SharesItsSecond(s, n) == \E m \in Rows(s) : m # n /\ stamp[s][m] = stamp[s][n]

\* A cursor that moves on acceptance steps over nothing the server has not got,
\* however passes, two uploads, lost answers and deaths interleave; rows of one
\* second are the exception (bank_v2_cursor, advance_v2_checkpoint).
CursorWaitsForAcceptance ==
    \A s \in Sources \ {"omp"} : \A n \in 1..written[s] :
        stamp[s][n] <= cursor[s] => <<s, n>> \in stored \/ SharesItsSecond(s, n)

\* A row behind OMP's cursor, which moves on collection, is in the hands of the
\* pass, spooled, quarantined, at the server, or it was dropped at the cap; only
\* a pass that dies or fails before it has spooled it takes it away.
CollectedRowIsKept ==
    \A n \in 1..written["omp"] :
        n <= cursor["omp"] =>
            <<"omp", n>> \in stored \cup trimmed \cup lost
                                \cup RowsIn(InSeq(held) \cup InSeq(spool) \cup quarantine)
=============================================================================
