--------------------------- MODULE AuditLogProofs ---------------------------
(***************************************************************************)
(* What the file-backed audit log promises, for every set of appends and   *)
(* every number of restarts: an acknowledged event is on disk, the chain   *)
(* is intact as long as no append was cut off, and verify_chain answers Ok *)
(* only for a chain.                                                       *)
(***************************************************************************)
EXTENDS AuditLog, SequenceTheorems, TLAPS

-----------------------------------------------------------------------------
(* The file *)

\* The file keeps the lines it has and may get new ones.
Kept ==
    /\ Len(file) <= Len(file')
    /\ \A i \in 1..Len(file) : file'[i] = file[i]

\* The line before line i of a chain that begins with GENESIS_HEAD.
PrevHash(lines, i) == IF i = 1 THEN Genesis ELSE lines[i - 1].hash

\* The first n lines are a chain that ends in h.
ChainTo(lines, n, h) ==
    /\ n <= Len(lines)
    /\ \A i \in 1..n : /\ Whole(lines[i]) \/ (lines[i].cut = "newline" /\ i = n)
                       /\ lines[i].prev = PrevHash(lines, i)
    /\ h = PrevHash(lines, n + 1)

\* replay over the first n lines of a file is what ChainTo says of them.
LEMMA ReplayedPrefix ==
    ASSUME NEW lines \in Seq(Line), NEW n \in Nat, NEW h, ChainTo(lines, n, h)
    PROVE  /\ n <= Len(lines)
           /\ Replays(SubSeq(lines, 1, n))
           /\ h = LastHash(SubSeq(lines, 1, n))
<1> DEFINE s == SubSeq(lines, 1, n)
<1>1. n <= Len(lines)
  BY DEF ChainTo
<1>2. s \in Seq(Line) /\ Len(s) = n /\ \A i \in 1..n : s[i] = lines[i]
  BY <1>1, SubSeqProperties
<1>3. DOMAIN s = 1..n
  BY <1>2
<1> HIDE DEF s
<1>4. Replays(s)
  BY <1>2, <1>3 DEF Replays, ChainTo, PrevHash
<1>5. h = LastHash(s)
  BY <1>2 DEF LastHash, ChainTo, PrevHash
<1>6. QED
  BY <1>1, <1>4, <1>5 DEF s

\* A file that replays is a chain of all its lines.
LEMMA ReplaysChain ==
    ASSUME NEW lines \in Seq(Line)
    PROVE  Replays(lines) => ChainTo(lines, Len(lines), LastHash(lines))
BY DEF Replays, ChainTo, PrevHash, LastHash

\* What was replayed stays a chain when the file grows.
LEMMA ChainKept ==
    ASSUME NEW n \in Nat, NEW h, file \in Seq(Line), file' \in Seq(Line), Kept,
           ChainTo(file, n, h)
    PROVE  ChainTo(file, n, h)'
<1>1. n <= Len(file) /\ n <= Len(file') /\ \A i \in 1..n : file'[i] = file[i]
  BY DEF Kept, ChainTo
<1>2. \A i \in 1..n+1 : PrevHash(file', i) = PrevHash(file, i)
  BY <1>1 DEF PrevHash
<1>3. QED
  BY <1>1, <1>2 DEF ChainTo

\* A torn line stays in the file.
LEMMA TornStays ==
    ASSUME file \in Seq(Line), file' \in Seq(Line), Kept, Torn
    PROVE  Torn'
BY DEF Torn, Kept

\* A whole line that continues the last hash keeps a file replayable.
LEMMA ReplaysAppend ==
    ASSUME NEW lines \in Seq(Line), NEW x \in Line, Replays(lines),
           \A i \in DOMAIN lines : Whole(lines[i]), Whole(x), x.prev = LastHash(lines)
    PROVE  /\ Replays(Append(lines, x))
           /\ LastHash(Append(lines, x)) = x.hash
<1> DEFINE s == Append(lines, x)
<1>1. /\ s \in Seq(Line) /\ Len(s) = Len(lines) + 1 /\ s[Len(lines) + 1] = x
      /\ \A i \in 1..Len(lines) : s[i] = lines[i]
  BY AppendProperties
<1> HIDE DEF s
<1>2. Replays(s)
  <2> SUFFICES ASSUME NEW i \in DOMAIN s
               PROVE  /\ Whole(s[i]) \/ (s[i].cut = "newline" /\ i = Len(s))
                      /\ s[i].prev = IF i = 1 THEN Genesis ELSE s[i - 1].hash
    BY DEF Replays
  <2>1. CASE i \in 1..Len(lines)
    BY <1>1, <2>1 DEF Replays
  <2>2. CASE i = Len(lines) + 1
    <3>1. lines = <<>> <=> Len(lines) = 0
      OBVIOUS
    <3>2. QED
      BY <1>1, <2>2, <3>1 DEF LastHash
  <2>3. QED
    BY <1>1, <2>1, <2>2
<1>3. LastHash(s) = x.hash
  BY <1>1 DEF LastHash
<1>4. QED
  BY <1>2, <1>3 DEF s

-----------------------------------------------------------------------------
(* Types *)

\* The mutex, the blocking thread with its error and the observers live with
\* the process, and what is handed to the thread is a whole line.
Alive ==
    /\ \/ lock # Null \/ inflight # Null \/ ioerr
       \/ anchor.pc # "idle" \/ verifier.pc # "idle"
       => up
    /\ inflight # Null => Whole(inflight)

Typed == TypeOK /\ Alive

\* A line cut off is still a line.
LEMMA CutLine ==
    ASSUME NEW x \in Line, NEW c \in Cuts
    PROVE  /\ [x EXCEPT !.cut = c] \in Line
           /\ ~Whole([x EXCEPT !.cut = c])
BY DEF Line, Cuts, Whole

\* A line cut off leaves a torn file.
LEMMA CutAppended ==
    ASSUME NEW lines \in Seq(Line), NEW x \in Line, NEW c \in Cuts,
           NEW s, s = Append(lines, [x EXCEPT !.cut = c])
    PROVE  \E i \in DOMAIN s : ~Whole(s[i])
<1> DEFINE y == [x EXCEPT !.cut = c]
<1>1. y \in Line /\ ~Whole(y)
  BY CutLine
<1> HIDE DEF y
<1>2. s \in Seq(Line) /\ Len(s) = Len(lines) + 1 /\ s[Len(lines) + 1] = y
  BY <1>1, AppendProperties DEF y
<1>3. Len(lines) + 1 \in DOMAIN s
  BY <1>2
<1>4. QED
  BY <1>1, <1>2, <1>3

\* The last hash of a file of lines is a hash.
LEMMA LastHashType ==
    ASSUME NEW lines \in Seq(Line)
    PROVE  LastHash(lines) \in Hash
<1>1. CASE lines = <<>>
  BY <1>1 DEF LastHash, Hash
<1>2. CASE lines # <<>>
  <2>1. lines[Len(lines)] \in Line
    BY <1>2
  <2>2. QED
    BY <1>2, <2>1 DEF LastHash, Hash, Line
<1>3. QED
  BY <1>1, <1>2

\* A step does not change the file, or appends a line to it.
LEMMA FileStep ==
    ASSUME Typed, [Next]_vars
    PROVE  file' \in Seq(Line) /\ Kept
<1>0. file \in Seq(Line) /\ inflight \in Line \cup {Null}
  BY DEF Typed, TypeOK
<1>1. CASE UNCHANGED file
  BY <1>0, <1>1 DEF Kept
<1>2. ASSUME NEW x \in Line, file' = Append(file, x)
      PROVE  file' \in Seq(Line) /\ Kept
  BY <1>0, <1>2, AppendProperties DEF Kept
<1>3. ASSUME inflight # Null,
             \/ file' = Append(file, inflight)
             \/ \E c \in Cuts : file' = Append(file, [inflight EXCEPT !.cut = c])
      PROVE  file' \in Seq(Line) /\ Kept
  BY <1>0, <1>2, <1>3, CutLine
<1>4. CASE Crash \/ DiskWrite
  BY <1>1, <1>3, <1>4 DEF Crash, DiskWrite
<1>5. CASE ~(Crash \/ DiskWrite)
  BY <1>1, <1>5 DEF Next, vars, disk, Open, Lock, Write, Flush, Drop, VerifyReplay,
                    VerifyCompare, VerifyEnd, AnchorHead, AnchorSubmit
<1>6. QED
  BY <1>4, <1>5

\* The append that holds the mutex moves on, or gives it back.
LEMMA HolderMoves ==
    ASSUME TypeOK, NEW a \in Appends, lock = a,
           NEW l \in {"write", "flush", "done"}, pc' = [pc EXCEPT ![a] = l],
           lock' = IF l = "done" THEN Null ELSE a
    PROVE  /\ pc' \in [Appends -> {"new", "write", "flush", "done"}]
           /\ lock' \in Appends \cup {Null}
           /\ \A b \in Appends : pc'[b] \in {"write", "flush"} <=> lock' = b
<1>1. /\ pc \in [Appends -> {"new", "write", "flush", "done"}]
      /\ \A b \in Appends : pc[b] \in {"write", "flush"} <=> lock = b
  BY DEF TypeOK
<1>2. \A b \in Appends : pc'[b] = IF b = a THEN l ELSE pc[b]
  BY <1>1
<1>3. Null \notin Appends
  BY GenesisAssumption
<1>4. QED
  BY <1>1, <1>2, <1>3

\* The log's state is typed, and what lives with the process dies with it.
LEMMA Typing == Spec => []Typed
<1>1. Init => Typed
  <2> SUFFICES ASSUME Init PROVE Typed
    OBVIOUS
  <2>1. verifier \in [pc : {"idle", "compare", "ok", "broken"}, head : Hash, len : Nat]
    BY DEF Init, NoVerifier, Hash
  <2>2. anchor \in [pc : {"idle", "len"}, head : Hash]
    BY DEF Init, NoAnchor, Hash
  <2>3. \A a \in Appends : pc[a] \in {"write", "flush"} <=> lock = a
    BY GenesisAssumption DEF Init
  <2>4. TypeOK
    <3>1. file \in Seq(Line) /\ head \in Hash
      BY DEF Init, Hash
    <3>2. QED
      BY <2>1, <2>2, <2>3, <3>1 DEF Init, TypeOK
  <2>5. Alive
    BY DEF Init, Alive, NoVerifier, NoAnchor
  <2>6. QED
    BY <2>4, <2>5 DEF Typed
<1>2. ASSUME Typed, [Next]_vars
      PROVE  Typed'
  <2>0. TypeOK /\ Alive /\ file' \in Seq(Line) /\ Null \notin Appends
    BY <1>2, FileStep, GenesisAssumption DEF Typed
  <2>1. CASE Open
    <3>1. LastHash(file) \in Hash /\ Len(file) \in Nat
      BY <2>0, LastHashType DEF TypeOK
    <3>2. QED
      BY <2>0, <2>1, <3>1 DEF Open, Typed, TypeOK, Alive, disk, observers
  <2>2. CASE Crash
    <3>1. NoVerifier \in [pc : {"idle", "compare", "ok", "broken"}, head : Hash, len : Nat]
      BY DEF NoVerifier, Hash
    <3>2. NoAnchor \in [pc : {"idle", "len"}, head : Hash]
      BY DEF NoAnchor, Hash
    <3>3. /\ pc' \in [Appends -> {"new", "write", "flush", "done"}]
          /\ \A a \in Appends : pc'[a] \notin {"write", "flush"}
      BY <2>2 DEF Crash
    <3>4. TypeOK'
      BY <2>0, <2>2, <3>1, <3>2, <3>3 DEF Crash, TypeOK
    <3>5. Alive'
      BY <2>2 DEF Crash, Alive, NoVerifier, NoAnchor
    <3>6. QED
      BY <3>4, <3>5 DEF Typed
  <2>3. CASE DiskWrite
    BY <2>0, <2>3 DEF DiskWrite, Typed, TypeOK, Alive, memory, observers
  <2>4. ASSUME NEW a \in Appends, Lock(a)
        PROVE  Typed'
    <3>1. /\ pc' \in [Appends -> {"new", "write", "flush", "done"}]
          /\ \A b \in Appends : pc'[b] = IF b = a THEN "write" ELSE pc[b]
          /\ lock = Null /\ lock' = a
      BY <2>0, <2>4 DEF Lock, Goto, TypeOK
    <3>2. \A b \in Appends : pc'[b] \in {"write", "flush"} <=> lock' = b
      BY <2>0, <3>1 DEF TypeOK
    <3>3. QED
      BY <2>0, <2>4, <3>1, <3>2 DEF Lock, Typed, TypeOK, Alive, disk, observers
  <2>5. ASSUME NEW a \in Appends, Write(a)
        PROVE  Typed'
    <3>1. lock = a /\ up
      BY <2>0, <2>5 DEF Write, Goto, TypeOK, Alive
    <3>2. /\ pc' \in [Appends -> {"new", "write", "flush", "done"}]
          /\ lock' \in Appends \cup {Null}
          /\ \A b \in Appends : pc'[b] \in {"write", "flush"} <=> lock' = b
      BY <2>0, <2>5, <3>1, HolderMoves DEF Write, Goto
    <3>3. /\ inflight' \in Line \cup {Null}
          /\ inflight' # Null => Whole(inflight')
      <4>1. head \in Hash
        BY <2>0 DEF TypeOK
      <4>2. CASE UNCHANGED inflight
        BY <2>0, <4>2 DEF TypeOK, Alive
      <4>3. CASE inflight' = [hash |-> a, prev |-> head, cut |-> "none"]
        BY <4>1, <4>3 DEF Line, Whole
      <4>4. QED
        BY <2>5, <4>2, <4>3 DEF Write
    <3>4. QED
      BY <2>0, <2>5, <3>1, <3>2, <3>3 DEF Write, Typed, TypeOK, Alive, observers
  <2>6. ASSUME NEW a \in Appends, Flush(a)
        PROVE  Typed'
    <3>1. lock = a /\ up
      BY <2>0, <2>6 DEF Flush, Goto, TypeOK, Alive
    <3>2. /\ pc' \in [Appends -> {"new", "write", "flush", "done"}]
          /\ lock' \in Appends \cup {Null}
          /\ \A b \in Appends : pc'[b] \in {"write", "flush"} <=> lock' = b
      BY <2>0, <2>6, <3>1, HolderMoves DEF Flush, Goto
    <3>3. receipts' \subseteq Receipt /\ head' \in Hash /\ len' \in Nat
      BY <2>0, <2>6 DEF Flush, TypeOK, Receipt, Hash
    <3>4. QED
      BY <2>0, <2>6, <3>1, <3>2, <3>3 DEF Flush, Typed, TypeOK, Alive, observers
  <2>7. ASSUME NEW a \in Appends, Drop(a)
        PROVE  Typed'
    <3>1. lock = a /\ up
      BY <2>0, <2>7 DEF Drop, TypeOK, Alive
    <3>2. /\ pc' \in [Appends -> {"new", "write", "flush", "done"}]
          /\ lock' \in Appends \cup {Null}
          /\ \A b \in Appends : pc'[b] \in {"write", "flush"} <=> lock' = b
      BY <2>0, <2>7, <3>1, HolderMoves DEF Drop
    <3>3. orphans' \subseteq Appends
      BY <2>0, <2>7 DEF Drop, TypeOK
    <3>4. QED
      BY <2>0, <2>7, <3>1, <3>2, <3>3 DEF Drop, Typed, TypeOK, Alive, disk, observers
  <2>8. CASE VerifyReplay \/ VerifyCompare \/ VerifyEnd
    <3>1. /\ UNCHANGED <<disk, memory, pc, receipts, anchor, anchors, life, orphans>>
          /\ up
      BY <2>0, <2>8 DEF VerifyReplay, VerifyCompare, VerifyEnd, Alive
    <3>2. verifier' \in [pc : {"idle", "compare", "ok", "broken"}, head : Hash, len : Nat]
      <4>1. LastHash(file) \in Hash /\ Len(file) \in Nat /\ Genesis \in Hash
        BY <2>0, LastHashType DEF TypeOK, Hash
      <4>2. CASE VerifyReplay
        BY <4>1, <4>2 DEF VerifyReplay, NoVerifier
      <4>3. CASE VerifyCompare
        BY <2>0, <4>3 DEF VerifyCompare, TypeOK
      <4>4. CASE VerifyEnd
        BY <4>1, <4>4 DEF VerifyEnd, NoVerifier
      <4>5. QED
        BY <2>8, <4>2, <4>3, <4>4
    <3>3. QED
      BY <2>0, <3>1, <3>2 DEF Typed, TypeOK, Alive, disk, memory
  <2>9. CASE AnchorHead \/ AnchorSubmit
    <3>1. UNCHANGED <<disk, memory, pc, receipts, verifier, life, orphans>> /\ up
      BY <2>0, <2>9 DEF AnchorHead, AnchorSubmit, Alive
    <3>2. anchor' \in [pc : {"idle", "len"}, head : Hash]
      BY <2>0, <2>9 DEF AnchorHead, AnchorSubmit, TypeOK, NoAnchor, Hash
    <3>3. anchors' \subseteq Anchor
      <4>1. anchor.head \in Hash /\ len \in Nat /\ anchors \subseteq Anchor
        BY <2>0 DEF TypeOK
      <4>2. QED
        BY <2>9, <4>1 DEF AnchorHead, AnchorSubmit, Anchor
    <3>4. QED
      BY <2>0, <3>1, <3>2, <3>3 DEF Typed, TypeOK, Alive, disk, memory
  <2>10. CASE UNCHANGED vars
    BY <2>0, <2>10 DEF vars, Typed, TypeOK, Alive
  <2>11. QED
    BY <1>2, <2>1, <2>2, <2>3, <2>4, <2>5, <2>6, <2>7, <2>8, <2>9, <2>10 DEF Next
<1>3. QED
  BY <1>1, <1>2, PTL DEF Spec

\* The file, the mutex, the receipts and the observers keep their types, and
\* the mutex is held by exactly the append that is inside it, whatever fails,
\* is dropped or dies.
THEOREM TypeCorrect == Spec => []TypeOK
<1>1. Typed => TypeOK
  BY DEF Typed
<1>2. QED
  BY <1>1, Typing, PTL
-----------------------------------------------------------------------------
(* Receipts *)

Recorded(x) ==
    \E i \in 1..Len(file) : file[i].hash = x.hash /\ Whole(file[i]) /\ i > x.position

\* The line of an append that waits in flush is with the blocking thread, or
\* past the lines memory counts, or its error is about to be reported.
Waiting(a) ==
    \/ inflight # Null /\ inflight.hash = a
    \/ inflight = Null /\ ioerr
    \/ Recorded([hash |-> a, position |-> len])

\* Memory never counts a line that is not in the file, and every receipt names
\* a position it has passed.
Counted == up => len <= Len(file) /\ \A x \in receipts : x.position < len

ReceiptInv ==
    /\ Counted
    /\ \A a \in Appends : pc[a] = "flush" => Waiting(a)
    /\ \A x \in receipts : Recorded(x)
    /\ \A x, y \in receipts : x.position = y.position => x = y

\* A recorded event stays recorded when the file grows.
LEMMA RecordedKept ==
    ASSUME NEW x, file \in Seq(Line), file' \in Seq(Line), Kept, Recorded(x)
    PROVE  \E i \in 1..Len(file') :
              file'[i].hash = x.hash /\ Whole(file'[i]) /\ i > x.position
BY DEF Recorded, Kept

\* A step that leaves the file, the thread and what memory counts alone.
LEMMA ReceiptQuiet ==
    ASSUME ReceiptInv, UNCHANGED <<file, inflight, ioerr, len, receipts, up>>,
           \A a \in Appends : pc'[a] = "flush" => pc[a] = "flush"
    PROVE  ReceiptInv'
<1>1. Counted'
  BY DEF ReceiptInv, Counted
<1>2. \A x : Recorded(x)' <=> Recorded(x)
  BY DEF Recorded
<1>3. \A a \in Appends : Waiting(a)' <=> Waiting(a)
  BY DEF Waiting, Recorded
<1>4. QED
  BY <1>1, <1>2, <1>3 DEF ReceiptInv

\* Every step of an append, of the thread and of the process keeps the
\* receipts backed.
LEMMA ReceiptStep ==
    ASSUME Typed, ReceiptInv, [Next]_vars
    PROVE  ReceiptInv'
<1>0. /\ file \in Seq(Line) /\ file' \in Seq(Line) /\ Kept
      /\ len \in Nat /\ receipts \subseteq Receipt
      /\ \A a \in Appends : pc[a] \in {"write", "flush"} <=> lock = a
      /\ pc \in [Appends -> {"new", "write", "flush", "done"}]
      /\ Alive
      /\ Null \notin Appends
  BY FileStep, GenesisAssumption DEF Typed, TypeOK
<1>1. \A x \in receipts : Recorded(x)'
  <2> SUFFICES ASSUME NEW x \in receipts
               PROVE  \E i \in 1..Len(file') :
                         file'[i].hash = x.hash /\ Whole(file'[i]) /\ i > x.position
    BY DEF Recorded
  <2>1. QED
    BY <1>0, RecordedKept DEF ReceiptInv
<1>2. CASE Open
  <2>1. \A x \in receipts : x.position < Len(file)
    BY <1>0 DEF ReceiptInv, Recorded, Receipt
  <2>2. /\ \A a \in Appends : pc[a] # "flush"
        /\ UNCHANGED <<receipts, pc, file>> /\ len' = Len(file)
    BY <1>0, <1>2 DEF Open, Alive, disk
  <2>3. QED
    BY <1>0, <1>1, <2>1, <2>2 DEF ReceiptInv, Counted
<1>3. CASE Crash
  BY <1>1, <1>3 DEF Crash, ReceiptInv, Counted
<1>4. CASE DiskWrite
  <2>1. /\ UNCHANGED <<up, len, pc, receipts>> /\ inflight # Null /\ inflight' = Null
        /\ ioerr' \/ file' = Append(file, inflight)
        /\ inflight \in Line /\ Whole(inflight)
    BY <1>4 DEF DiskWrite, memory, Typed, TypeOK, Alive
  <2>2. Counted'
    BY <1>0, <2>1 DEF ReceiptInv, Counted, Kept
  <2>3. ASSUME NEW a \in Appends, pc'[a] = "flush"
        PROVE  Waiting(a)'
    <3>1. CASE ioerr'
      BY <2>1, <3>1 DEF Waiting
    <3>2. CASE /\ file' = Append(file, inflight)
               /\ inflight.hash = a
      <4>1. /\ Len(file') = Len(file) + 1 /\ file'[Len(file) + 1] = inflight
            /\ len <= Len(file)
        <5>1. up
          BY <1>0, <2>1 DEF Alive
        <5>2. QED
          BY <1>0, <2>1, <3>2, <5>1, AppendProperties DEF ReceiptInv, Counted
      <4>2. /\ Len(file) + 1 \in 1..Len(file') /\ Len(file) + 1 > len
        BY <1>0, <4>1
      <4>3. Recorded([hash |-> a, position |-> len])'
        BY <2>1, <3>2, <4>1, <4>2 DEF Recorded
      <4>4. QED
        BY <4>3 DEF Waiting
    <3>3. CASE Recorded([hash |-> a, position |-> len])
      <4>1. Recorded([hash |-> a, position |-> len])'
        BY <1>0, <2>1, <3>3, RecordedKept DEF Recorded
      <4>2. QED
        BY <4>1 DEF Waiting
    <3>4. QED
      BY <2>1, <2>3, <3>1, <3>2, <3>3 DEF ReceiptInv, Waiting
  <2>4. QED
    BY <1>1, <2>1, <2>2, <2>3 DEF ReceiptInv
<1>5. ASSUME NEW a \in Appends, Lock(a)
      PROVE  ReceiptInv'
  BY <1>0, <1>5, ReceiptQuiet DEF Lock, Goto, disk
<1>6. ASSUME NEW a \in Appends, Write(a)
      PROVE  ReceiptInv'
  <2>1. /\ UNCHANGED <<file, up, len, receipts>>
        /\ \A b \in Appends : pc'[b] = "flush" =>
              b = a /\ inflight' = [hash |-> a, prev |-> head, cut |-> "none"]
    BY <1>0, <1>6 DEF Write, Goto
  <2>2. Counted'
    BY <2>1 DEF ReceiptInv, Counted
  <2>3. ASSUME NEW b \in Appends, pc'[b] = "flush"
        PROVE  Waiting(b)'
    <3>1. head \in Hash
      BY DEF Typed, TypeOK
    <3>2. inflight' = [hash |-> b, prev |-> head, cut |-> "none"]
      BY <2>1, <2>3
    <3>3. inflight' \in Line /\ inflight'.hash = b
      BY <3>1, <3>2 DEF Line
    <3>4. QED
      BY <3>3, NullAssumption DEF Waiting
  <2>4. QED
    BY <1>1, <2>1, <2>2, <2>3 DEF ReceiptInv
<1>7. ASSUME NEW a \in Appends, Flush(a)
      PROVE  ReceiptInv'
  <2>1. /\ UNCHANGED <<file, up, inflight>> /\ pc[a] = "flush" /\ inflight = Null /\ up
        /\ \A b \in Appends : pc'[b] # "flush"
    BY <1>0, <1>7 DEF Flush, Goto, Alive
  <2>2. CASE ioerr
    <3>1. UNCHANGED <<len, receipts>>
      BY <1>7, <2>2 DEF Flush
    <3>2. QED
      BY <1>1, <2>1, <3>1 DEF ReceiptInv, Counted
  <2>3. CASE ~ioerr
    <3> DEFINE x == [hash |-> a, position |-> len]
    <3>1. len' = len + 1 /\ receipts' = receipts \cup {x}
      BY <1>7, <2>3 DEF Flush
    <3>2. Recorded(x)
      BY <2>1, <2>3 DEF ReceiptInv, Waiting
    <3>3. x.position = len
      OBVIOUS
    <3> HIDE DEF x
    <3>4. Counted'
      BY <1>0, <2>1, <3>1, <3>2, <3>3 DEF ReceiptInv, Counted, Recorded, Receipt
    <3>5. \A y \in receipts' : Recorded(y)'
      BY <1>1, <2>1, <3>1, <3>2 DEF Recorded
    <3>6. \A y \in receipts : y.position < len /\ y.position # len
      BY <1>0, <2>1 DEF ReceiptInv, Counted, Receipt
    <3>7. \A y, z \in receipts' : y.position = z.position => y = z
      BY <3>1, <3>3, <3>6 DEF ReceiptInv
    <3>8. QED
      BY <2>1, <3>4, <3>5, <3>7 DEF ReceiptInv
  <2>4. QED
    BY <2>2, <2>3
<1>8. ASSUME NEW a \in Appends, Drop(a)
      PROVE  ReceiptInv'
  BY <1>0, <1>8, ReceiptQuiet DEF Drop, disk
<1>9. CASE VerifyReplay \/ VerifyCompare \/ VerifyEnd
  BY <1>9, ReceiptQuiet DEF VerifyReplay, VerifyCompare, VerifyEnd, disk, memory
<1>10. CASE AnchorHead \/ AnchorSubmit
  BY <1>10, ReceiptQuiet DEF AnchorHead, AnchorSubmit, disk, memory
<1>11. CASE UNCHANGED vars
  BY <1>11, ReceiptQuiet DEF vars
<1>12. QED
  BY <1>2, <1>3, <1>4, <1>5, <1>6, <1>7, <1>8, <1>9, <1>10, <1>11 DEF Next

\* append returns an EventReceipt only for an event that is on disk to its last
\* byte, past the position it names, and for no two events of one position,
\* however many handlers are dropped, writes fail and processes die.  It says
\* nothing of a cut write the event may be glued to.
THEOREM ReceiptsAreBacked == Spec => []ReceiptRecorded
<1>1. Init => ReceiptInv
  BY DEF Init, ReceiptInv, Counted
<1>2. Typed /\ ReceiptInv /\ [Next]_vars => ReceiptInv'
  BY ReceiptStep
<1>3. Typed /\ ReceiptInv => ReceiptRecorded
  BY DEF Typed, TypeOK, ReceiptInv, Recorded, ReceiptRecorded
<1>4. QED
  BY <1>1, <1>2, <1>3, Typing, PTL DEF Spec

-----------------------------------------------------------------------------
(* The chain *)

\* No append was dropped after its write and no write was cut off.
Intact == orphans = {} /\ ~Torn

Agrees == head = LastHash(file) /\ len = Len(file)

\* Where the line of an append that waits in flush can be: with the thread,
\* lost with an error, or the last of the file.
Following(a) ==
    \/ /\ inflight = [hash |-> a, prev |-> head, cut |-> "none"]
       /\ ~ioerr /\ Agrees
    \/ inflight = Null /\ ioerr /\ Agrees
    \/ inflight = Null /\ ~ioerr /\ LastHash(file) = a /\ Len(file) = len + 1

\* Memory follows the file: it agrees with it outside flush, and is one line
\* behind at most inside it.
Follows ==
    up => \/ /\ \A a \in Appends : pc[a] # "flush"
             /\ inflight = Null /\ ~ioerr /\ Agrees
          \/ \E a \in Appends : pc[a] = "flush" /\ Following(a)

\* The head h was that of a line among the first n.
CountedHead(h, n) ==
    h # Genesis => \E i \in 1..Len(file) : file[i].hash = h /\ i <= n

ChainInv ==
    Intact =>
        /\ Replays(file)
        /\ Follows
        /\ anchor.pc = "len" => CountedHead(anchor.head, len)
        /\ \A x \in anchors : CountedHead(x.head, x.position)

\* What verify_chain replayed is still the beginning of the file.
Replayed == verifier.pc = "compare" => ChainTo(file, verifier.len, verifier.head)

\* A head that was counted stays counted when the file and the count grow.
LEMMA CountedKept ==
    ASSUME NEW h, NEW m \in Nat, NEW n \in Nat, m <= n,
           file \in Seq(Line), file' \in Seq(Line), Kept, CountedHead(h, m)
    PROVE  CountedHead(h, n)'
BY DEF CountedHead, Kept

\* A step that leaves the file, the thread and memory alone, and no append in
\* or out of flush.
LEMMA ChainQuiet ==
    ASSUME Typed, ChainInv, UNCHANGED <<file, inflight, ioerr, up, head, len, orphans>>,
           \A a \in Appends : pc'[a] = "flush" <=> pc[a] = "flush",
           anchor'.pc = "len" => UNCHANGED anchor \/ CountedHead(anchor'.head, len) \/ ~Intact,
           \A x \in anchors' : x \in anchors \/ CountedHead(x.head, x.position) \/ ~Intact
    PROVE  ChainInv'
<1> SUFFICES ASSUME Intact'
             PROVE  /\ Replays(file')
                    /\ Follows'
                    /\ anchor'.pc = "len" => CountedHead(anchor.head, len)'
                    /\ \A x \in anchors' : CountedHead(x.head, x.position)'
  BY DEF ChainInv, Replays
<1>1. Intact
  BY DEF Intact, Torn
<1>2. \A h, n : CountedHead(h, n)' <=> CountedHead(h, n)
  BY DEF CountedHead
<1>3. /\ Replays(file) /\ Follows
      /\ anchor.pc = "len" => CountedHead(anchor.head, len)
      /\ \A x \in anchors : CountedHead(x.head, x.position)
  BY <1>1 DEF ChainInv
<1>4. Follows'
  BY <1>3 DEF Follows, Following, Agrees
<1>5. anchor'.pc = "len" => CountedHead(anchor'.head, len)
  BY <1>1, <1>3
<1>6. \A x \in anchors' : CountedHead(x.head, x.position)
  BY <1>1, <1>3
<1>7. QED
  BY <1>2, <1>3, <1>4, <1>5, <1>6

\* The state of an intact log, spelled out: what ChainInv says when its
\* hypothesis holds.
LEMMA ChainFacts ==
    ASSUME ChainInv, Intact
    PROVE  /\ Replays(file) /\ Follows
           /\ anchor.pc = "len" => CountedHead(anchor.head, len)
           /\ \A x \in anchors : CountedHead(x.head, x.position)
BY DEF ChainInv

\* Every step keeps the chain of an intact log.
LEMMA ChainStep ==
    ASSUME Typed, ChainInv, [Next]_vars
    PROVE  ChainInv'
<1>0. /\ file \in Seq(Line) /\ file' \in Seq(Line) /\ Kept
      /\ len \in Nat /\ len + 1 \in Nat /\ anchors \subseteq Anchor
      /\ \A a \in Appends : pc[a] \in {"write", "flush"} <=> lock = a
      /\ pc \in [Appends -> {"new", "write", "flush", "done"}]
      /\ ioerr \in BOOLEAN
      /\ inflight \in Line \cup {Null}
      /\ Alive
      /\ Null \notin Appends
  BY FileStep, GenesisAssumption DEF Typed, TypeOK
<1>1. Torn => Torn'
  BY <1>0, TornStays
<1>2. UNCHANGED anchors /\ Intact => \A x \in anchors' : CountedHead(x.head, x.position)'
  <2> SUFFICES ASSUME UNCHANGED anchors, Intact, NEW x \in anchors
               PROVE  CountedHead(x.head, x.position)'
    OBVIOUS
  <2>1. x.position \in Nat /\ CountedHead(x.head, x.position)
    BY <1>0, ChainFacts DEF Anchor
  <2>2. QED
    BY <1>0, <2>1, CountedKept
<1>3. UNCHANGED <<anchor, len>> /\ Intact =>
          (anchor'.pc = "len" => CountedHead(anchor.head, len)')
  BY <1>0, CountedKept, ChainFacts
<1>4. CASE Open
  <2> SUFFICES ASSUME Intact' PROVE ChainInv'
    BY DEF ChainInv
  <2>1. /\ UNCHANGED <<file, inflight, ioerr, pc, anchor, anchors, orphans>>
        /\ inflight = Null /\ ~ioerr
        /\ anchor.pc = "idle" /\ \A a \in Appends : pc[a] # "flush"
        /\ head' = LastHash(file) /\ len' = Len(file) /\ Replays(file)
    BY <1>0, <1>4 DEF Open, Alive, disk, observers, Typed, TypeOK
  <2>2. Intact
    BY <1>1, <2>1 DEF Intact
  <2>3. Agrees'
    BY <2>1 DEF Agrees
  <2>4. QED
    BY <1>2, <2>1, <2>2, <2>3 DEF ChainInv, Follows, Replays
<1>5. CASE Crash
  <2> SUFFICES ASSUME Intact' PROVE ChainInv'
    BY DEF ChainInv
  <2>1. ~up' /\ UNCHANGED <<anchors, orphans>> /\ anchor'.pc = "idle"
    BY <1>5 DEF Crash, NoAnchor
  <2>2. Intact
    BY <1>1, <2>1 DEF Intact
  <2>3. UNCHANGED file
    <3>1. ASSUME inflight # Null, NEW c \in Cuts, file' = Append(file, [inflight EXCEPT !.cut = c])
          PROVE  FALSE
      BY <1>0, <3>1, CutAppended DEF Intact, Torn
    <3>2. QED
      BY <1>5, <3>1 DEF Crash
  <2>4. QED
    BY <1>2, <2>1, <2>2, <2>3, ChainFacts DEF ChainInv, Follows, Replays
<1>6. CASE DiskWrite
  <2> SUFFICES ASSUME Intact' PROVE ChainInv'
    BY DEF ChainInv
  <2>1. /\ UNCHANGED <<up, head, len, pc, anchor, anchors, orphans>>
        /\ inflight # Null /\ inflight' = Null /\ up
    BY <1>0, <1>6 DEF DiskWrite, memory, observers, Alive
  <2>2. Intact
    BY <1>1, <2>1 DEF Intact
  <2>3. PICK a \in Appends :
          /\ pc[a] = "flush" /\ ~ioerr /\ Agrees
          /\ inflight = [hash |-> a, prev |-> head, cut |-> "none"]
    BY <2>1, <2>2, ChainFacts DEF Follows, Following
  <2>4. Replays(file)
    BY <2>2, ChainFacts
  <2>5. inflight \in Line /\ inflight.hash = a /\ inflight.prev = head /\ Whole(inflight)
    BY <1>0, <2>1, <2>3 DEF Whole
  <2>6. CASE file' = Append(file, inflight) /\ UNCHANGED ioerr
    <3>1. Replays(file') /\ LastHash(file') = a
      BY <1>0, <2>2, <2>3, <2>4, <2>5, <2>6, ReplaysAppend DEF Agrees, Intact, Torn
    <3>2. Len(file') = len' + 1
      BY <1>0, <2>1, <2>3, <2>6 DEF Agrees
    <3>3. Following(a)'
      BY <2>1, <2>3, <2>6, <3>1, <3>2 DEF Following
    <3>4. QED
      BY <1>2, <1>3, <2>1, <2>2, <2>3, <3>1, <3>3 DEF ChainInv, Follows
  <2>7. CASE ioerr' = TRUE /\ UNCHANGED file
    <3>1. Following(a)'
      BY <2>1, <2>3, <2>7 DEF Following, Agrees
    <3>2. QED
      BY <1>2, <1>3, <2>1, <2>2, <2>3, <2>4, <2>7, <3>1 DEF ChainInv, Follows, Replays
  <2>8. CASE \E c \in Cuts : file' = Append(file, [inflight EXCEPT !.cut = c])
    <3>1. Torn'
      BY <1>0, <2>5, <2>8, CutAppended DEF Torn
    <3>2. QED
      BY <3>1 DEF Intact
  <2>9. QED
    BY <1>6, <2>6, <2>7, <2>8 DEF DiskWrite
<1>7. ASSUME NEW a \in Appends, Lock(a)
      PROVE  ChainInv'
  BY <1>0, <1>7, ChainQuiet DEF Lock, Goto, disk, observers
<1>8. ASSUME NEW a \in Appends, Write(a)
      PROVE  ChainInv'
  <2> SUFFICES ASSUME Intact' PROVE ChainInv'
    BY DEF ChainInv
  <2>1. /\ UNCHANGED <<file, up, head, len, anchor, anchors, orphans>>
        /\ lock = a /\ up /\ \A b \in Appends : pc[b] # "flush"
    BY <1>0, <1>8 DEF Write, Goto, observers, Alive
  <2>2. Intact
    BY <1>1, <2>1 DEF Intact
  <2>3. ~ioerr /\ Agrees /\ Replays(file)
    BY <2>1, <2>2, ChainFacts DEF Follows
  <2>4. /\ pc'[a] = "flush" /\ UNCHANGED ioerr
        /\ inflight' = [hash |-> a, prev |-> head, cut |-> "none"]
    BY <1>0, <1>8, <2>3 DEF Write, Goto
  <2>5. Following(a)'
    BY <2>1, <2>3, <2>4 DEF Following, Agrees
  <2>6. QED
    BY <1>2, <1>3, <2>1, <2>2, <2>3, <2>4, <2>5 DEF ChainInv, Follows, Replays
<1>9. ASSUME NEW a \in Appends, Flush(a)
      PROVE  ChainInv'
  <2> SUFFICES ASSUME Intact' PROVE ChainInv'
    BY DEF ChainInv
  <2>1. /\ UNCHANGED <<file, inflight, up, anchor, anchors, orphans>>
        /\ inflight = Null /\ up
        /\ \A b \in Appends : pc[b] = "flush" <=> b = a
        /\ \A b \in Appends : pc'[b] # "flush"
    BY <1>0, <1>9 DEF Flush, Goto, observers, Alive
  <2>2. Intact
    BY <1>1, <2>1 DEF Intact
  <2>3. Following(a) /\ Replays(file) /\ (anchor.pc = "len" => CountedHead(anchor.head, len))
    BY <2>1, <2>2, ChainFacts DEF Follows
  <2>4. inflight # [hash |-> a, prev |-> head, cut |-> "none"]
    <3>1. head \in Hash
      BY DEF Typed, TypeOK
    <3>2. [hash |-> a, prev |-> head, cut |-> "none"] \in Line
      BY <3>1 DEF Line
    <3>3. QED
      BY <2>1, <3>2, NullAssumption
  <2>5. CASE ioerr
    <3>1. ioerr' = FALSE /\ UNCHANGED <<head, len>>
      BY <1>9, <2>5 DEF Flush
    <3>2. Agrees'
      BY <2>1, <2>3, <2>4, <2>5, <3>1 DEF Following, Agrees
    <3>3. QED
      BY <1>2, <1>3, <2>1, <2>2, <2>3, <3>1, <3>2 DEF ChainInv, Follows, Replays
  <2>6. CASE ~ioerr
    <3>1. UNCHANGED ioerr /\ head' = a /\ len' = len + 1
      BY <1>9, <2>6 DEF Flush
    <3>2. Agrees'
      BY <2>1, <2>3, <2>4, <2>6, <3>1 DEF Following, Agrees
    <3>3. anchor'.pc = "len" => CountedHead(anchor.head, len)'
      BY <1>0, <2>1, <2>3, <3>1, CountedKept
    <3>4. QED
      BY <1>2, <2>1, <2>2, <2>3, <2>6, <3>1, <3>2, <3>3 DEF ChainInv, Follows, Replays
  <2>7. QED
    BY <2>5, <2>6
<1>10. ASSUME NEW a \in Appends, Drop(a)
       PROVE  ChainInv'
  <2>1. CASE pc[a] = "flush"
    BY <1>10, <2>1 DEF Drop, ChainInv, Intact
  <2>2. CASE pc[a] # "flush"
    BY <1>0, <1>10, <2>2, ChainQuiet DEF Drop, disk, observers
  <2>3. QED
    BY <2>1, <2>2
<1>11. CASE VerifyReplay \/ VerifyCompare \/ VerifyEnd
  BY <1>11, ChainQuiet DEF VerifyReplay, VerifyCompare, VerifyEnd, disk, memory
<1>12. CASE AnchorHead
  <2>1. up /\ anchor'.head = head /\ \A a \in Appends : pc[a] # "flush"
    BY <1>0, <1>12 DEF AnchorHead
  <2>2. CASE ~Intact
    BY <1>12, <2>2, ChainQuiet DEF AnchorHead, disk, memory
  <2>3. CASE Intact
    <3>1. Agrees
      BY <2>1, <2>3, ChainFacts DEF Follows
    <3>2. CountedHead(head, len)
      BY <1>0, <3>1 DEF Agrees, LastHash, CountedHead
    <3>3. QED
      BY <1>12, <2>1, <3>2, ChainQuiet DEF AnchorHead, disk, memory
  <2>4. QED
    BY <2>2, <2>3
<1>13. CASE AnchorSubmit
  <2>1. anchor'.pc # "len"
    BY <1>13 DEF AnchorSubmit, NoAnchor
  <2>2. \A x \in anchors' : x \in anchors \/ CountedHead(x.head, x.position) \/ ~Intact
    <3>1. Intact => CountedHead(anchor.head, len)
      BY <1>13, ChainFacts DEF AnchorSubmit
    <3>2. QED
      BY <1>13, <3>1 DEF AnchorSubmit
  <2>3. QED
    BY <1>13, <2>1, <2>2, ChainQuiet DEF AnchorSubmit, disk, memory
<1>14. CASE UNCHANGED vars
  BY <1>14, ChainQuiet DEF vars
<1>15. QED
  BY <1>4, <1>5, <1>6, <1>7, <1>8, <1>9, <1>10, <1>11, <1>12, <1>13, <1>14 DEF Next

\* As long as no append was dropped after its write and no write was cut off,
\* the file is a chain, memory agrees with it between appends, and what was
\* anchored counts the anchored event, across any number of failed writes,
\* crashes and restarts.
THEOREM ChainStaysIntact == Spec => []ChainIntact
<1>1. Init => ChainInv
  BY DEF Init, ChainInv, Follows, Replays, NoAnchor
<1>2. Typed /\ ChainInv /\ [Next]_vars => ChainInv'
  BY ChainStep
<1>3. Typed /\ ChainInv => ChainIntact
  <2> SUFFICES ASSUME Typed, ChainInv, Intact
               PROVE  /\ Replays(file)
                      /\ up /\ lock = Null => head = LastHash(file) /\ len = Len(file)
                      /\ \A x \in anchors :
                            x.head # Genesis =>
                                \E i \in DOMAIN file :
                                    file[i].hash = x.head /\ i <= x.position
    BY DEF ChainIntact, Intact
  <2>1. lock = Null => \A a \in Appends : pc[a] # "flush"
    BY GenesisAssumption DEF Typed, TypeOK
  <2>2. up /\ lock = Null => Agrees
    BY <2>1, ChainFacts DEF Follows
  <2>3. DOMAIN file = 1..Len(file)
    BY DEF Typed, TypeOK
  <2>4. QED
    BY <2>2, <2>3, ChainFacts DEF Agrees, CountedHead
<1>4. QED
  BY <1>1, <1>2, <1>3, Typing, PTL DEF Spec

-----------------------------------------------------------------------------
(* verify_chain *)

\* What verify_chain replayed before it takes the mutex stays a chain that the
\* file begins with.
LEMMA ReplayedStep ==
    ASSUME Typed, Replayed, [Next]_vars
    PROVE  Replayed'
<1>0. file \in Seq(Line) /\ file' \in Seq(Line) /\ Kept /\ verifier.len \in Nat
  BY FileStep DEF Typed, TypeOK
<1>1. CASE VerifyReplay
  <2>1. ASSUME Replays(file),
               verifier' = [pc |-> "compare", head |-> LastHash(file), len |-> Len(file)]
        PROVE  Replayed'
    <3>1. UNCHANGED file
      BY <1>1 DEF VerifyReplay, disk
    <3>2. verifier'.head = LastHash(file) /\ verifier'.len = Len(file)
      BY <2>1
    <3>3. ChainTo(file, Len(file), LastHash(file))
      BY <1>0, <2>1, ReplaysChain
    <3>4. QED
      BY <3>1, <3>2, <3>3 DEF Replayed
  <2>2. CASE verifier' = [NoVerifier EXCEPT !.pc = "broken"]
    BY <2>2 DEF NoVerifier, Replayed
  <2>3. QED
    BY <1>1, <2>1, <2>2 DEF VerifyReplay
<1>2. CASE VerifyCompare \/ VerifyEnd \/ Crash
  <2>1. verifier'.pc # "compare"
    BY <1>2 DEF VerifyCompare, VerifyEnd, Crash, NoVerifier, Typed, TypeOK
  <2>2. QED
    BY <2>1 DEF Replayed
<1>3. CASE UNCHANGED verifier
  BY <1>0, <1>3, ChainKept DEF Replayed
<1>4. QED
  BY <1>1, <1>2, <1>3
     DEF Next, vars, Open, DiskWrite, Lock, Write, Flush, Drop, AnchorHead,
         AnchorSubmit, observers

\* verify_chain answers Ok only when the events memory counts are a chain on
\* disk that ends in the head, although the file was read before the mutex was
\* taken and may have grown, been torn or been orphaned since.
THEOREM VerifyIsSound == Spec => VerifySound
<1>1. Init => Replayed
  BY DEF Init, Replayed, NoVerifier
<1>2. Typed /\ Replayed /\ [Next]_vars => Replayed'
  BY ReplayedStep
<1>3. ASSUME Typed, Replayed, [Next]_vars
      PROVE  verifier.pc = "compare" /\ verifier'.pc = "ok" =>
                /\ len <= Len(file)
                /\ Replays(SubSeq(file, 1, len))
                /\ head = LastHash(SubSeq(file, 1, len))
  <2> SUFFICES ASSUME verifier.pc = "compare", verifier'.pc = "ok"
               PROVE  /\ len <= Len(file)
                      /\ Replays(SubSeq(file, 1, len))
                      /\ head = LastHash(SubSeq(file, 1, len))
    OBVIOUS
  <2>1. VerifyCompare
    BY <1>3 DEF Next, vars, Open, Crash, DiskWrite, Lock, Write, Flush, Drop,
                AnchorHead, AnchorSubmit, observers, VerifyReplay, VerifyEnd, NoVerifier
  <2>2. verifier.head = head /\ verifier.len = len
    BY <1>3, <2>1 DEF VerifyCompare, Typed, TypeOK
  <2>3. ChainTo(file, len, head) /\ file \in Seq(Line) /\ len \in Nat
    BY <1>3, <2>2 DEF Replayed, Typed, TypeOK
  <2>4. QED
    BY <2>3, ReplayedPrefix
<1>4. QED
  BY <1>1, <1>2, <1>3, Typing, PTL DEF Spec, VerifySound
=============================================================================
