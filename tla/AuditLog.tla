------------------------------ MODULE AuditLog ------------------------------
(***************************************************************************)
(* The hash-chained audit log in a file (aex-audit, file_log.rs) and its   *)
(* anchoring loop (rekor.rs), as the control plane uses them: handlers     *)
(* append concurrently under one async mutex, any of them may be dropped   *)
(* at an await, and the process may die and be started again.              *)
(*                                                                         *)
(* tokio's File hands a write to a blocking thread and returns; only flush *)
(* waits for it.  So write_all, the write on disk and the end of flush are *)
(* three steps, and the second happens even when the handler is gone.      *)
(*                                                                         *)
(* The file is the sequence of what was written to it.  It is opened for   *)
(* appending, so a write that was cut off has no newline and the next one  *)
(* continues its line.                                                     *)
(*                                                                         *)
(* A hash is represented by the append that produced it: it covers the     *)
(* event, its time and the previous hash, and collisions are left out.     *)
(***************************************************************************)
EXTENDS Naturals, Sequences

CONSTANTS
    Appends,    \* the append calls of a behaviour, each for an event of its own
    Genesis,    \* GENESIS_HEAD
    MaxLives,   \* bound on the starts of the process, for model checking
    Null

ASSUME GenesisAssumption == Genesis \notin Appends /\ Null \notin Appends \cup {Genesis}
ASSUME BoundsAssumption == MaxLives \in Nat

VARIABLES
    file,      \* the writes on disk, in order
    up,        \* the process runs with the log open
    head, len, \* Inner, guarded by the mutex
    lock,      \* the append that holds the mutex, or Null
    inflight,  \* the line handed to the blocking thread, or Null
    ioerr,     \* a write error not yet reported
    pc,        \* where each append is
    receipts,  \* EventReceipts handed to callers
    verifier,  \* the state of a verify_chain call
    anchor,    \* the state of the anchoring loop
    anchors,   \* what was submitted
    life,      \* history: starts of the process
    orphans    \* history: appends dropped after their write was handed over

vars == <<file, up, head, len, lock, inflight, ioerr, pc, receipts, verifier,
          anchor, anchors, life, orphans>>

disk == <<file, inflight, ioerr>>
memory == <<up, head, len, lock>>
observers == <<verifier, anchor, anchors>>

-----------------------------------------------------------------------------
(* State *)

Hash == Appends \cup {Genesis}

\* What a failed or interrupted write left out: the newline, or the end of the
\* record too.
Cuts == {"newline", "body"}

\* A StoredEvent with its newline, as far as it got to the disk.
Line == [hash : Appends, prev : Hash, cut : Cuts \cup {"none"}]

ASSUME NullAssumption == Null \notin Line

LastHash(lines) == IF lines = <<>> THEN Genesis ELSE lines[Len(lines)].hash

Whole(line) == line.cut = "none"

\* replay succeeds: every line parses and continues the one before it.  Two
\* records on one line do not parse; the last line needs no newline.
Replays(lines) ==
    \A i \in DOMAIN lines :
        /\ Whole(lines[i]) \/ (lines[i].cut = "newline" /\ i = Len(lines))
        /\ lines[i].prev = (IF i = 1 THEN Genesis ELSE lines[i - 1].hash)

NoVerifier == [pc |-> "idle", head |-> Genesis, len |-> 0]

NoAnchor == [pc |-> "idle", head |-> Genesis]

Init ==
    /\ file = <<>> /\ inflight = Null /\ ioerr = FALSE
    /\ up = FALSE /\ head = Genesis /\ len = 0 /\ lock = Null
    /\ pc = [a \in Appends |-> "new"]
    /\ receipts = {}
    /\ verifier = NoVerifier
    /\ anchor = NoAnchor /\ anchors = {}
    /\ life = 0 /\ orphans = {}

-----------------------------------------------------------------------------
(* Opening the log, and losing the process *)

\* FileAuditLog::open; when replay fails the control plane does not start.
Open ==
    /\ ~up
    /\ life < MaxLives
    /\ Replays(file)
    /\ up' = TRUE
    /\ head' = LastHash(file)
    /\ len' = Len(file)
    /\ life' = life + 1
    /\ UNCHANGED <<disk, lock, pc, receipts, observers, orphans>>

\* What the blocking thread had not written is lost, or partly written.
Crash ==
    /\ up
    /\ up' = FALSE
    /\ lock' = Null
    /\ inflight' = Null
    /\ ioerr' = FALSE
    /\ \/ UNCHANGED file
       \/ /\ inflight # Null
          /\ \E c \in Cuts : file' = Append(file, [inflight EXCEPT !.cut = c])
    /\ pc' = [a \in Appends |-> IF pc[a] = "new" THEN "new" ELSE "done"]
    /\ verifier' = NoVerifier
    /\ anchor' = NoAnchor
    /\ UNCHANGED <<head, len, receipts, anchors, life, orphans>>

-----------------------------------------------------------------------------
(* append *)

Goto(a, from, to) ==
    /\ pc[a] = from
    /\ pc' = [pc EXCEPT ![a] = to]

\* The mutex is fair, but which of the waiting handlers came first is open.
Lock(a) ==
    /\ up
    /\ lock = Null
    /\ lock' = a
    /\ Goto(a, "new", "write")
    /\ UNCHANGED <<disk, up, head, len, receipts, observers, life, orphans>>

\* write_all: waits for an earlier write, reports its error, or hands over the
\* line that continues the head.
Write(a) ==
    /\ inflight = Null
    /\ \/ /\ ioerr
          /\ Goto(a, "write", "done")
          /\ ioerr' = FALSE
          /\ lock' = Null
          /\ UNCHANGED inflight
       \/ /\ ~ioerr
          /\ Goto(a, "write", "flush")
          /\ inflight' = [hash |-> a, prev |-> head, cut |-> "none"]
          /\ UNCHANGED <<ioerr, lock>>
    /\ UNCHANGED <<file, up, head, len, receipts, observers, life, orphans>>

\* The blocking thread appends the line, or fails after some of it; what it
\* wrote stays.
DiskWrite ==
    /\ inflight # Null
    /\ inflight' = Null
    /\ \/ file' = Append(file, inflight) /\ UNCHANGED ioerr
       \/ /\ \E c \in Cuts : file' = Append(file, [inflight EXCEPT !.cut = c])
          /\ ioerr' = TRUE
       \/ ioerr' = TRUE /\ UNCHANGED file
    /\ UNCHANGED <<memory, pc, receipts, observers, life, orphans>>

\* Faulty variant: the receipt is returned without waiting for the write.
FlushEarly(a) ==
    /\ Goto(a, "flush", "done")
    /\ head' = a
    /\ len' = len + 1
    /\ receipts' = receipts \cup {[hash |-> a, position |-> len]}
    /\ lock' = Null
    /\ UNCHANGED <<disk, up, observers, life, orphans>>

\* flush returns: head and length follow the file, or its error is returned.
Flush(a) ==
    /\ inflight = Null
    /\ Goto(a, "flush", "done")
    /\ lock' = Null
    /\ \/ /\ ioerr
          /\ ioerr' = FALSE
          /\ UNCHANGED <<head, len, receipts>>
       \/ /\ ~ioerr
          /\ head' = a
          /\ len' = len + 1
          /\ receipts' = receipts \cup {[hash |-> a, position |-> len]}
          /\ UNCHANGED ioerr
    /\ UNCHANGED <<file, inflight, up, observers, life, orphans>>

\* The handler is dropped while it waits in write_all or flush: the mutex is
\* released and the write, once handed over, goes on.
Drop(a) ==
    /\ pc[a] \in {"write", "flush"}
    /\ pc' = [pc EXCEPT ![a] = "done"]
    /\ lock' = Null
    /\ orphans' = IF pc[a] = "flush" THEN orphans \cup {a} ELSE orphans
    /\ UNCHANGED <<disk, up, head, len, receipts, observers, life>>

-----------------------------------------------------------------------------
(* verify_chain *)

\* The file is replayed without the mutex, so a write under way may be read in
\* part, which does not parse.
VerifyReplay ==
    /\ up
    /\ verifier.pc = "idle"
    /\ \/ /\ Replays(file)
          /\ verifier' = [pc |-> "compare", head |-> LastHash(file), len |-> Len(file)]
       \/ /\ ~Replays(file) \/ inflight # Null
          /\ verifier' = [NoVerifier EXCEPT !.pc = "broken"]
    /\ UNCHANGED <<disk, memory, pc, receipts, anchor, anchors, life, orphans>>

\* Faulty variant: the replayed head is not compared.
VerifyCompareSkipped ==
    /\ lock = Null
    /\ verifier.pc = "compare"
    /\ verifier' = [verifier EXCEPT !.pc = "ok"]
    /\ UNCHANGED <<disk, memory, pc, receipts, anchor, anchors, life, orphans>>

\* Then head and length are compared under it.
VerifyCompare ==
    /\ lock = Null
    /\ verifier.pc = "compare"
    /\ verifier' = [verifier EXCEPT !.pc =
                      IF verifier.head = head /\ verifier.len = len
                      THEN "ok" ELSE "broken"]
    /\ UNCHANGED <<disk, memory, pc, receipts, anchor, anchors, life, orphans>>

VerifyEnd ==
    /\ verifier.pc \in {"ok", "broken"}
    /\ verifier' = NoVerifier
    /\ UNCHANGED <<disk, memory, pc, receipts, anchor, anchors, life, orphans>>

-----------------------------------------------------------------------------
(* The anchoring loop *)

\* current_head and len each take the mutex on their own.
AnchorHead ==
    /\ up /\ lock = Null
    /\ anchor.pc = "idle"
    /\ anchor' = [pc |-> "len", head |-> head]
    /\ UNCHANGED <<disk, memory, pc, receipts, verifier, anchors, life, orphans>>

\* Faulty variant: what is submitted is the number of the last line.
AnchorSubmitLast ==
    /\ lock = Null
    /\ anchor.pc = "len"
    /\ len > 0
    /\ anchors' = anchors \cup {[head |-> anchor.head, position |-> len - 1]}
    /\ anchor' = NoAnchor
    /\ UNCHANGED <<disk, memory, pc, receipts, verifier, life, orphans>>

\* A submission that fails is left to the next tick.
AnchorSubmit ==
    /\ lock = Null
    /\ anchor.pc = "len"
    /\ anchor' = NoAnchor
    /\ \/ anchors' = anchors \cup {[head |-> anchor.head, position |-> len]}
       \/ UNCHANGED anchors
    /\ UNCHANGED <<disk, memory, pc, receipts, verifier, life, orphans>>

-----------------------------------------------------------------------------

Next ==
    \/ Open \/ Crash \/ DiskWrite
    \/ \E a \in Appends : Lock(a) \/ Write(a) \/ Flush(a) \/ Drop(a)
    \/ VerifyReplay \/ VerifyCompare \/ VerifyEnd
    \/ AnchorHead \/ AnchorSubmit

Spec == Init /\ [][Next]_vars

-----------------------------------------------------------------------------
(* Properties *)

Receipt == [hash : Appends, position : Nat]

Anchor == [head : Hash, position : Nat]

\* The log's file, memory and observers have their types; the mutex is held
\* by the append that is inside it.
TypeOK ==
    /\ file \in Seq(Line)
    /\ up \in BOOLEAN
    /\ head \in Hash
    /\ len \in Nat
    /\ lock \in Appends \cup {Null}
    /\ inflight \in Line \cup {Null}
    /\ ioerr \in BOOLEAN
    /\ pc \in [Appends -> {"new", "write", "flush", "done"}]
    /\ receipts \subseteq Receipt
    /\ verifier \in [pc : {"idle", "compare", "ok", "broken"}, head : Hash, len : Nat]
    /\ anchor \in [pc : {"idle", "len"}, head : Hash]
    /\ anchors \subseteq Anchor
    /\ life \in Nat
    /\ orphans \subseteq Appends
    /\ \A a \in Appends : pc[a] \in {"write", "flush"} <=> lock = a

Torn == \E i \in DOMAIN file : ~Whole(file[i])

\* A receipt is returned only for an event that is on disk to its last byte,
\* past the position it names, whatever write failed or was cut before it, and
\* no crash or restart takes it away; and no two appends are acknowledged for
\* one position.  So every receipt is backed whenever the file still replays.
\* It need not: append's doc calls the receipt "proof the event is recorded",
\* but behind a write that was cut off the event is on a line nobody can read.
ReceiptRecorded ==
    \A x \in receipts :
        /\ \E i \in DOMAIN file :
              file[i].hash = x.hash /\ Whole(file[i]) /\ i > x.position
        /\ \A y \in receipts : x.position = y.position => x = y

\* As long as no append was dropped after its write and no write was cut off,
\* the file is a chain, between appends memory agrees with it, and an anchored
\* position counts the anchored head's event: head and length are read in
\* separate critical sections, so it may count later events but never fewer.
ChainIntact ==
    orphans = {} /\ ~Torn =>
        /\ Replays(file)
        /\ up /\ lock = Null => head = LastHash(file) /\ len = Len(file)
        /\ \A x \in anchors :
              x.head # Genesis =>
                  \E i \in DOMAIN file : file[i].hash = x.head /\ i <= x.position

\* When verify_chain answers Ok, the events memory counts are a chain on disk
\* that ends in the head, although the file was read before the mutex was taken
\* and handlers may have appended, failed or been dropped since.  (The last of
\* them may have lost its newline to a crash.)
VerifySound ==
    [][verifier.pc = "compare" /\ verifier'.pc = "ok" =>
          /\ len <= Len(file)
          /\ Replays(SubSeq(file, 1, len))
          /\ head = LastHash(SubSeq(file, 1, len))]_vars
=============================================================================
