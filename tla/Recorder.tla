------------------------------ MODULE Recorder ------------------------------
(***************************************************************************)
(* The performance recorder's worker (record(), reconcile_capture(),       *)
(* retain_history() and history_records() of engine/native_recording.py).  *)
(* It writes one chunk after the other: a durable note of the files it is  *)
(* about to make, the files, the index, and then retention.  A service     *)
(* manager starts it again whenever it ends; it may die between any two    *)
(* steps, its native tools may fail, and the clock may be set back.        *)
(***************************************************************************)
EXTENDS Integers, Sequences, Common

CONSTANTS
    Backends,    \* subset of {"sysstat", "psutil"}
    KeepDays,    \* age beyond which a chunk is removed
    MaxChunks,   \* chunks that fit into max_mb
    MaxCaptures, \* bound: captures begun
    MaxSteps,    \* bound: clock
    MaxBack,     \* bound: times the clock is set back
    MaxDeaths    \* bound: deaths of the worker

(* A note names a chunk or is absent.                                      *)
RecorderAssumption == None \notin Nat /\ KeepDays \in Nat /\ MaxChunks \in Nat \ {0}

VARIABLES
    backend,
    clock,
    files,       \* sample files: <<chunk, part>>
    index,       \* history-index.json: rows [created, chunk]
    pending,     \* capture-pending.json: the chunk it names
    worker,      \* [pc, chunk, created]
    back, deaths

wvars == <<backend, clock, files, index, pending, worker, back, deaths>>

Off == [pc |-> "off", chunk |-> 0, created |-> 0]
At(pc) == worker' = [worker EXCEPT !.pc = pc]

RecorderInit ==
    /\ backend \in Backends
    /\ clock = 1 /\ files = {} /\ index = <<>> /\ pending = None
    /\ worker = Off /\ back = 0 /\ deaths = 0

ChunkParts == IF backend = "sysstat" THEN {"sa", "json"} ELSE {"json"}
Of(chunk) == {f \in files : f[1] = chunk}
Indexed == {index[i].chunk : i \in DOMAIN index}

(* history_records() refuses rows that are not in the order of time.       *)
InOrder == \A i \in DOMAIN index : i > 1 => index[i - 1].created <= index[i].created

Launch ==
    /\ worker.pc = "off"
    /\ worker' = [Off EXCEPT !.pc = "settle", !.chunk = worker.chunk]
    /\ UNCHANGED <<backend, clock, files, index, pending, back, deaths>>

-----------------------------------------------------------------------------
(* reconcile_capture(), at the start of the worker and after each chunk.   *)

(* Variant: whatever the note names goes.                                  *)
UncommittedAny(chunk) == TRUE

Uncommitted(chunk) == chunk \notin Indexed

(* Variant: the note of a chunk that was never committed stays.            *)
SettledCommitted == pending \in Indexed

Settled == pending \in Indexed \/ Of(pending) = {}
AfterSettling(pc) == IF pc = "settle" THEN "capture" ELSE "retain"

NothingToReconcile ==
    /\ worker.pc \in {"settle", "resettle"} /\ pending = None
    /\ At(AfterSettling(worker.pc))
    /\ UNCHANGED <<backend, clock, files, index, pending, back, deaths>>

Reclaim ==
    /\ worker.pc \in {"settle", "resettle"} /\ pending # None /\ InOrder
    /\ Uncommitted(pending) /\ Of(pending) # {}
    /\ files' = files \ Of(pending)
    /\ UNCHANGED <<backend, clock, index, pending, worker, back, deaths>>

ClearNote ==
    /\ worker.pc \in {"settle", "resettle"} /\ pending # None /\ InOrder
    /\ Settled
    /\ pending' = None
    /\ At(AfterSettling(worker.pc))
    /\ UNCHANGED <<backend, clock, files, index, back, deaths>>

(* An index out of order makes every reader of it raise.                   *)
IndexRefused ==
    /\ \/ worker.pc \in {"settle", "resettle"} /\ pending # None
       \/ worker.pc \in {"capture", "retain"}
    /\ ~InOrder
    /\ At("off")
    /\ UNCHANGED <<backend, clock, files, index, pending, back, deaths>>

-----------------------------------------------------------------------------
(* record(): one chunk.  Its name carries the time, to the microsecond.    *)

BeginCapture ==
    /\ worker.pc = "capture" /\ InOrder /\ worker.chunk < MaxCaptures
    /\ \E now \in {clock, clock + 1} :
         /\ now <= MaxSteps /\ clock' = now
         /\ worker' = [pc |-> "record", chunk |-> worker.chunk + 1, created |-> now]
    /\ pending' = worker.chunk + 1
    /\ UNCHANGED <<backend, files, index, back, deaths>>

Native ==
    /\ worker.pc = "record" /\ backend = "sysstat"
    /\ LET c == worker.chunk
       IN  CASE Of(c) = {} -> files' = files \cup {<<c, "sa">>}
             [] Of(c) = {<<c, "sa">>} -> files' = files \cup {<<c, "partial">>}
             [] OTHER -> <<c, "partial">> \in files
                         /\ files' = (files \ {<<c, "partial">>}) \cup {<<c, "json">>}
    /\ UNCHANGED <<backend, clock, index, pending, worker, back, deaths>>

Fallback ==
    /\ worker.pc = "record" /\ backend = "psutil" /\ Of(worker.chunk) = {}
    /\ files' = files \cup {<<worker.chunk, "json">>}
    /\ UNCHANGED <<backend, clock, index, pending, worker, back, deaths>>

(* A tool fails or exceeds its budget: what this attempt made is removed.  *)
CaptureFails ==
    /\ worker.pc = "record"
    /\ files' = files \ Of(worker.chunk) /\ pending' = None
    /\ At("off")
    /\ UNCHANGED <<backend, clock, index, back, deaths>>

CommitChunk ==
    /\ worker.pc = "record" /\ Of(worker.chunk) = {worker.chunk} \X ChunkParts
    /\ index' = Append(index, [created |-> worker.created, chunk |-> worker.chunk])
    /\ At("resettle")
    /\ UNCHANGED <<backend, clock, files, pending, back, deaths>>

-----------------------------------------------------------------------------
(* retain_history(): the oldest rows go while the budget is exceeded, and  *)
(* the rows that are too old, never the newest.                            *)

Whole(i) == Of(index[i].chunk) = {index[i].chunk} \X ChunkParts

Doomed == {i \in DOMAIN index : /\ i < Len(index)
                                /\ \/ index[i].created < clock - KeepDays
                                   \/ Len(index) - i >= MaxChunks}

Unlink ==
    /\ worker.pc = "retain" /\ InOrder /\ index # <<>> /\ Whole(Len(index))
    /\ \E i \in Doomed : \E f \in Of(index[i].chunk) : files' = files \ {f}
    /\ UNCHANGED <<backend, clock, index, pending, worker, back, deaths>>

(* The rows are in the order of time: those that go come first.            *)
Reindex ==
    /\ worker.pc = "retain" /\ InOrder
    /\ \A i \in Doomed : Of(index[i].chunk) = {}
    /\ \E gone \in 0..Len(index) :
         Doomed = 1..gone /\ index' = SubSeq(index, gone + 1, Len(index))
    /\ At("capture")
    /\ UNCHANGED <<backend, clock, files, pending, back, deaths>>

-----------------------------------------------------------------------------
SetBack ==
    /\ back < MaxBack /\ clock > 1
    /\ back' = back + 1 /\ clock' = clock - 1
    /\ UNCHANGED <<backend, files, index, pending, worker, deaths>>

WorkerDies ==
    /\ worker.pc # "off" /\ deaths < MaxDeaths
    /\ deaths' = deaths + 1 /\ At("off")
    /\ UNCHANGED <<backend, clock, files, index, pending, back>>

Capturing == worker.pc = "capture"

WorkerStep ==
    \/ Launch \/ NothingToReconcile \/ Reclaim \/ ClearNote \/ IndexRefused
    \/ BeginCapture \/ Native \/ Fallback \/ CommitChunk \/ Unlink \/ Reindex

RecorderNext == WorkerStep \/ CaptureFails \/ SetBack \/ WorkerDies

RecorderFairness == WF_wvars(WorkerStep)

RecorderSpec == RecorderInit /\ [][RecorderNext]_wvars /\ RecorderFairness

-----------------------------------------------------------------------------
(* docs/release-1.0.0.md:9: "capture journals recover only their own        *)
(* interrupted, unindexed files. Committed chunks and unrelated files       *)
(* survive." Wherever the worker dies, every sample file is in the index or *)
(* named by the note, and the newest committed chunk has all its files.     *)
CapturesAccounted ==
    /\ \A f \in files : f[1] \in Indexed \/ f[1] = pending
    /\ index # <<>> => Whole(Len(index))
=============================================================================
