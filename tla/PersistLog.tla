------------------------------ MODULE PersistLog ------------------------------
(***************************************************************************)
(* One stream of the persist log (commerce/server/persist-log.ts) beside   *)
(* the database it is meant to outlive.  The server commits to SQLite,     *)
(* appends the event to wal.ndjson and, when the file is large enough,     *)
(* seals it into the next segment: rename, compress, unlink, new file.     *)
(* All of it is synchronous in one process, which may be killed between    *)
(* and inside any two of these steps.                                      *)
(*                                                                         *)
(* An event is its position in commit order; a line is an event or Torn.   *)
(* Segments are only ever read one after the other, so they are kept as    *)
(* the concatenation of their lines and a flag for one that cannot be      *)
(* decompressed.  The age test of maybeSealSync never fires: it reads the  *)
(* mtime of the file it has just written.                                  *)
(***************************************************************************)
EXTENDS Naturals, Sequences

CONSTANTS
    RotateAt,       \* lines that make the WAL reach DEFAULT_ROTATE_BYTES
    MaxEvents,      \* bound: commits
    FaultKinds,     \* subset of {"stop", "tear"}
    MaxFaults       \* bound: how many

ASSUME LogAssumption ==
    /\ RotateAt \in Nat \ {0}
    /\ MaxEvents \in Nat
    /\ FaultKinds \subseteq {"stop", "tear"}
    /\ MaxFaults \in Nat

VARIABLES
    committed,  \* number of events SQLite has committed
    acked,      \* events whose append returned without an error
    wal,        \* lines of wal.ndjson (empty also when it is missing)
    torn,       \* its last line lacks the newline
    rotating,   \* lines of wal.rotating (empty when it is missing)
    sealed,     \* lines of the segments, in their order
    broken,     \* a segment cannot be decompressed
    pc,         \* where the server is in commit, append and sealSync
    hurt,       \* history: a fault cut a line or a seal short
    faults      \* faults left

files == <<wal, torn, rotating, sealed, broken>>
vars == <<committed, acked, files, pc, hurt, faults>>

Torn == 0
Pcs == {"idle", "append", "check", "rename", "compress", "unlink", "fresh"}
Sealing == {"compress", "unlink", "fresh"}
Lines == 0..MaxEvents

Init ==
    /\ committed = 0 /\ acked = {}
    /\ wal = <<>> /\ torn = FALSE /\ rotating = <<>>
    /\ sealed = <<>> /\ broken = FALSE
    /\ pc = "idle" /\ hurt = FALSE /\ faults = MaxFaults

-----------------------------------------------------------------------------
(* The server.                                                              *)

Commit_RolledBack ==
    /\ pc = "idle" /\ committed < MaxEvents
    /\ pc' = "append"
    /\ UNCHANGED <<committed, acked, files, hurt, faults>>

\* A transaction commits; its event will be appended.
Commit ==
    /\ pc = "idle" /\ committed < MaxEvents
    /\ committed' = committed + 1
    /\ pc' = "append"
    /\ UNCHANGED <<acked, files, hurt, faults>>

\* The event ends up behind a torn line when there is one: the two make one
\* line that no reader can parse.
WriteLine(e) ==
    wal' = IF torn THEN wal ELSE Append(wal, e)

AppendSync ==
    /\ pc = "append"
    /\ WriteLine(committed)
    /\ torn' = FALSE
    /\ acked' = acked \cup {committed}
    /\ pc' = "check"
    /\ UNCHANGED <<committed, rotating, sealed, broken, hurt, faults>>

MaybeSeal ==
    /\ pc = "check"
    /\ pc' = IF Len(wal) >= RotateAt THEN "rename" ELSE "idle"
    /\ UNCHANGED <<committed, acked, files, hurt, faults>>

Rename_Copy ==
    /\ pc = "rename"
    /\ rotating' = wal
    /\ pc' = "compress"
    /\ UNCHANGED <<committed, acked, wal, torn, sealed, broken, hurt, faults>>

\* Whatever an earlier, interrupted seal left in wal.rotating is replaced.
Rename ==
    /\ pc = "rename"
    /\ rotating' = wal
    /\ wal' = <<>>
    /\ pc' = "compress"
    /\ UNCHANGED <<committed, acked, torn, sealed, broken, hurt, faults>>

Compress_SameSegment ==
    /\ pc = "compress"
    /\ sealed' = rotating
    /\ pc' = "unlink"
    /\ UNCHANGED <<committed, acked, wal, torn, rotating, broken, hurt, faults>>

\* The segment is named after the highest one there is, plus one.
Compress ==
    /\ pc = "compress"
    /\ sealed' = sealed \o rotating
    /\ pc' = "unlink"
    /\ UNCHANGED <<committed, acked, wal, torn, rotating, broken, hurt, faults>>

Unlink ==
    /\ pc = "unlink"
    /\ rotating' = <<>>
    /\ pc' = "fresh"
    /\ UNCHANGED <<committed, acked, wal, torn, sealed, broken, hurt, faults>>

\* An empty wal.ndjson, where rename left none.
Fresh ==
    /\ pc = "fresh"
    /\ wal' = <<>>
    /\ pc' = "idle"
    /\ UNCHANGED <<committed, acked, torn, rotating, sealed, broken, hurt,
                   faults>>

-----------------------------------------------------------------------------
(* Faults.  The process is killed and a new one starts, or a file operation *)
(* fails and append() catches and logs the error: either way the next step  *)
(* is a later commit.                                                       *)

Fault(kind) == kind \in FaultKinds /\ faults > 0 /\ faults' = faults - 1

\* Between two steps: an event that was committed but not yet appended is
\* never appended, a seal that has begun is never finished.
Stop ==
    /\ Fault("stop")
    /\ pc # "idle"
    /\ pc' = "idle"
    /\ hurt' = (hurt \/ pc = "compress")
    /\ UNCHANGED <<committed, acked, files>>

\* Inside a write: part of a line, or part of a compressed segment.
TearLine ==
    /\ Fault("tear")
    /\ pc = "append"
    /\ wal' = IF torn THEN wal ELSE Append(wal, Torn)
    /\ torn' = TRUE
    /\ pc' = "idle"
    /\ hurt' = TRUE
    /\ UNCHANGED <<committed, acked, rotating, sealed, broken>>

TearSegment ==
    /\ Fault("tear")
    /\ pc = "compress"
    /\ broken' = TRUE
    /\ pc' = "idle"
    /\ hurt' = TRUE
    /\ UNCHANGED <<committed, acked, wal, torn, rotating, sealed>>

Next ==
    \/ Commit \/ AppendSync \/ MaybeSeal
    \/ Rename \/ Compress \/ Unlink \/ Fresh
    \/ Stop \/ TearLine \/ TearSegment

Spec == Init /\ [][Next]_vars

-----------------------------------------------------------------------------
(* collectPersistEvents, as persist-replay.ts would find the directory now. *)

FirstTorn(s) == CHOOSE i \in 1..(Len(s) + 1) :
                    /\ i = Len(s) + 1 \/ s[i] = Torn
                    /\ \A j \in 1..(i - 1) : s[j] # Torn

\* The WAL is read up to the first line that is not JSON: the error is
\* swallowed.  In a segment the error ends the whole replay.
WalRead == SubSeq(wal, 1, FirstTorn(wal) - 1)
Replayable == ~broken /\ \A i \in DOMAIN sealed : sealed[i] # Torn

Replayed == sealed \o WalRead

-----------------------------------------------------------------------------
TypeOK ==
    /\ committed \in Nat /\ acked \subseteq 1..committed
    /\ wal \in Seq(Nat) /\ rotating \in Seq(Nat) /\ sealed \in Seq(Nat)
    /\ torn \in BOOLEAN /\ broken \in BOOLEAN /\ hurt \in BOOLEAN
    /\ pc \in Pcs /\ faults \in Nat

\* A replay never restores a history that did not happen: whatever was
\* interrupted, the events come out in commit order and none comes twice
\* (iterPersistEvents reads segments before the WAL, never wal.rotating).
ReplayIsHistory ==
    Replayable =>
        \A i \in DOMAIN Replayed :
            /\ Replayed[i] \in 1..committed
            /\ \A j \in 1..(i - 1) : Replayed[j] < Replayed[i]

\* As long as no write and no seal was cut short, every event that append
\* returned for is replayed, across any number of seals, kills elsewhere and
\* failed appends.
AckedSurvive ==
    pc = "idle" /\ ~hurt =>
        Replayable /\ acked = {Replayed[i] : i \in DOMAIN Replayed}

\* deploy/overlays/PERSIST-LOGS.md:3, "After SQLite is lost, replay this
\* directory into a new database so passkey wallets and unpaid invoices can
\* be found again": a kill between sealSync's rename and its write leaves
\* the events in wal.rotating, which nothing reads.
NothingIsLost ==
    pc = "idle" =>
        Replayable /\ acked \subseteq {Replayed[i] : i \in DOMAIN Replayed}
=============================================================================
