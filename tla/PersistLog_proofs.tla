-------------------------- MODULE PersistLog_proofs --------------------------
(***************************************************************************)
(* What a replay of the persist log returns, for any number of events,     *)
(* any segment size and any number of faults.                              *)
(*                                                                         *)
(* ReplayIsHistory is not inductive: it says nothing of wal.rotating,      *)
(* which becomes part of the segments, nor that the event about to be      *)
(* appended is newer than every line.  LogInv adds both: the lines are in  *)
(* commit order across the three files, and while they are moved from one  *)
(* to the next the WAL is empty.                                           *)
(***************************************************************************)
EXTENDS PersistLog, TLAPS, WellFoundedInduction

\* Lines in commit order, those no reader can parse left aside.
Sorted(s) == \A i, j \in DOMAIN s :
                 i < j /\ s[i] # Torn /\ s[j] # Torn => s[i] < s[j]
Before(s, t) == \A i \in DOMAIN s, j \in DOMAIN t :
                    s[i] # Torn /\ t[j] # Torn => s[i] < t[j]
Upto(s, n) == \A i \in DOMAIN s : s[i] <= n
Whole(s) == \A i \in DOMAIN s : s[i] # Torn
Events(s) == {s[i] : i \in DOMAIN s}

\* The newest event a line may hold: the one being appended is in no file.
Newest == IF pc = "append" THEN committed - 1 ELSE committed

OrderInv ==
    /\ Sorted(sealed) /\ Sorted(rotating) /\ Sorted(wal)
    /\ Before(sealed, wal)
    /\ Upto(sealed, Newest) /\ Upto(rotating, Newest) /\ Upto(wal, Newest)
    /\ pc = "append" => committed >= 1
    /\ pc \in Sealing => wal = <<>>
    /\ pc = "compress" => Before(sealed, rotating)

\* Where the acknowledged events are until something is cut short.
KeptInv ==
    ~hurt => /\ ~torn /\ ~broken
             /\ Whole(sealed) /\ Whole(rotating) /\ Whole(wal)
             /\ acked = Events(sealed) \cup Events(wal)
                        \cup (IF pc = "compress" THEN Events(rotating) ELSE {})

LogInv == TypeOK /\ OrderInv /\ KeptInv

-----------------------------------------------------------------------------
(* Lines.                                                                   *)

LEMMA AppendLines ==
    ASSUME NEW s \in Seq(Nat), NEW e \in Nat
    PROVE  /\ Append(s, e) \in Seq(Nat)
           /\ DOMAIN Append(s, e) = 1..(Len(s) + 1)
           /\ DOMAIN s = 1..Len(s)
           /\ \A i \in 1..Len(s) : Append(s, e)[i] = s[i]
           /\ Append(s, e)[Len(s) + 1] = e
OBVIOUS

LEMMA ConcatLines ==
    ASSUME NEW s \in Seq(Nat), NEW t \in Seq(Nat)
    PROVE  /\ s \o t \in Seq(Nat)
           /\ DOMAIN s = 1..Len(s) /\ DOMAIN t = 1..Len(t)
           /\ Len(s) \in Nat /\ Len(t) \in Nat
           /\ DOMAIN (s \o t) = 1..(Len(s) + Len(t))
           /\ \A i \in 1..Len(s) : (s \o t)[i] = s[i]
           /\ \A i \in 1..(Len(s) + Len(t)) :
                  i > Len(s) => (s \o t)[i] = t[i - Len(s)]
           /\ \A i \in 1..Len(t) : (s \o t)[Len(s) + i] = t[i]
OBVIOUS

LEMMA AppendEvents ==
    ASSUME NEW s \in Seq(Nat), NEW e \in Nat
    PROVE  Events(Append(s, e)) = Events(s) \cup {e}
<1> DEFINE t == Append(s, e)
<1>1. /\ DOMAIN t = 1..(Len(s) + 1) /\ DOMAIN s = 1..Len(s) /\ Len(s) \in Nat
      /\ \A i \in DOMAIN s : i \in DOMAIN t /\ t[i] = s[i]
      /\ t[Len(s) + 1] = e
    BY AppendLines
<1> HIDE DEF t
<1>2. \A i \in DOMAIN t : i \in DOMAIN s \/ i = Len(s) + 1
    BY <1>1
<1>3. Len(s) + 1 \in DOMAIN t
    BY <1>1
<1>4. {t[i] : i \in DOMAIN t} = {s[i] : i \in DOMAIN s} \cup {e}
    BY <1>1, <1>2, <1>3
<1> QED BY <1>4 DEF Events, t

LEMMA AppendOrder ==
    ASSUME NEW s \in Seq(Nat), NEW e \in Nat, NEW n \in Nat, NEW r \in Seq(Nat),
           Sorted(s), Upto(s, n), Before(r, s), Upto(r, n),
           e = Torn \/ e > n
    PROVE  /\ Sorted(Append(s, e)) /\ Before(r, Append(s, e))
           /\ \A m \in Nat : n <= m /\ e <= m => Upto(Append(s, e), m)
<1>1. /\ \A i \in 1..Len(s) : s[i] \in Nat
      /\ \A i \in DOMAIN r : r[i] \in Nat
    OBVIOUS
<1>2. Sorted(Append(s, e))
    BY <1>1, AppendLines DEF Sorted, Upto, Torn
<1>3. Before(r, Append(s, e))
    BY <1>1, AppendLines DEF Before, Upto, Torn
<1>4. \A m \in Nat : n <= m /\ e <= m => Upto(Append(s, e), m)
    BY <1>1, AppendLines DEF Upto
<1> QED BY <1>2, <1>3, <1>4

LEMMA ConcatOrder ==
    ASSUME NEW s \in Seq(Nat), NEW t \in Seq(Nat), Sorted(s), Sorted(t),
           Before(s, t)
    PROVE  Sorted(s \o t)
<1>1. SUFFICES ASSUME NEW i \in DOMAIN (s \o t), NEW j \in DOMAIN (s \o t), i < j,
                      (s \o t)[i] # Torn, (s \o t)[j] # Torn
               PROVE  (s \o t)[i] < (s \o t)[j]
    BY DEF Sorted
<1>2. CASE j <= Len(s)
    BY <1>1, <1>2, ConcatLines DEF Sorted
<1>3. CASE i <= Len(s) /\ j > Len(s)
    <2>1. i \in DOMAIN s /\ j - Len(s) \in DOMAIN t
        BY <1>1, <1>3, ConcatLines
    <2>2. (s \o t)[i] = s[i] /\ (s \o t)[j] = t[j - Len(s)]
        BY <1>1, <1>3, ConcatLines
    <2> QED BY <1>1, <2>1, <2>2 DEF Before
<1>4. CASE i > Len(s)
    <2>1. /\ i - Len(s) \in DOMAIN t /\ j - Len(s) \in DOMAIN t
          /\ i - Len(s) < j - Len(s)
        BY <1>1, <1>4, ConcatLines
    <2>2. (s \o t)[i] = t[i - Len(s)] /\ (s \o t)[j] = t[j - Len(s)]
        BY <1>1, <1>4, ConcatLines
    <2> QED BY <1>1, <2>1, <2>2 DEF Sorted
<1> QED BY <1>1, <1>2, <1>3, <1>4, ConcatLines

LEMMA ConcatEvents ==
    ASSUME NEW s \in Seq(Nat), NEW t \in Seq(Nat)
    PROVE  /\ Events(s \o t) = Events(s) \cup Events(t)
           /\ Whole(s) /\ Whole(t) => Whole(s \o t)
           /\ \A n \in Nat : Upto(s, n) /\ Upto(t, n) => Upto(s \o t, n)
<1>1. ASSUME NEW i \in DOMAIN (s \o t)
      PROVE  \/ i \in DOMAIN s /\ (s \o t)[i] = s[i]
             \/ i - Len(s) \in DOMAIN t /\ (s \o t)[i] = t[i - Len(s)]
    BY ConcatLines
<1>2. ASSUME NEW i \in DOMAIN s
      PROVE  i \in DOMAIN (s \o t) /\ (s \o t)[i] = s[i]
    BY ConcatLines
<1>3. ASSUME NEW i \in DOMAIN t
      PROVE  Len(s) + i \in DOMAIN (s \o t) /\ (s \o t)[Len(s) + i] = t[i]
    BY ConcatLines
<1>4. ASSUME NEW e \in Events(s \o t)
      PROVE  e \in Events(s) \cup Events(t)
    BY <1>1 DEF Events
<1>5. ASSUME NEW e \in Events(s) \cup Events(t)
      PROVE  e \in Events(s \o t)
    BY <1>2, <1>3 DEF Events
<1>6. Whole(s) /\ Whole(t) => Whole(s \o t)
    BY <1>1 DEF Whole
<1>7. \A n \in Nat : Upto(s, n) /\ Upto(t, n) => Upto(s \o t, n)
    BY <1>1 DEF Upto
<1> QED BY <1>4, <1>5, <1>6, <1>7

\* There is a first line that cannot be parsed, or none.
LEMMA FirstTornExists ==
    ASSUME NEW s \in Seq(Nat)
    PROVE  /\ FirstTorn(s) \in 1..(Len(s) + 1)
           /\ \A j \in 1..(FirstTorn(s) - 1) : s[j] # Torn
           /\ Whole(s) => FirstTorn(s) = Len(s) + 1
<1> DEFINE T == {i \in 1..(Len(s) + 1) : i = Len(s) + 1 \/ s[i] = Torn}
<1>1. Len(s) \in Nat /\ DOMAIN s = 1..Len(s)
    OBVIOUS
<1>2. T \subseteq Nat /\ T # {}
    BY <1>1
<1>3. PICK x \in T : \A y \in T : ~(<<y, x>> \in OpToRel(<, Nat))
    BY <1>2, NatLessThanWellFounded, WFMin
<1>4. \A y \in T : ~(y < x)
    BY <1>2, <1>3 DEF OpToRel
<1>5. \A j \in 1..(x - 1) : s[j] # Torn
    BY <1>1, <1>4
<1>6. /\ FirstTorn(s) \in 1..(Len(s) + 1)
      /\ FirstTorn(s) = Len(s) + 1 \/ s[FirstTorn(s)] = Torn
      /\ \A j \in 1..(FirstTorn(s) - 1) : s[j] # Torn
    BY <1>5 DEF FirstTorn
<1> QED BY <1>1, <1>6 DEF Whole

-----------------------------------------------------------------------------
(* The invariant.                                                           *)

LEMMA EmptyLines ==
    /\ <<>> \in Seq(Nat) /\ DOMAIN <<>> = {}
    /\ Sorted(<<>>) /\ Whole(<<>>) /\ Events(<<>>) = {}
    /\ \A s, n : Before(s, <<>>) /\ Before(<<>>, s) /\ Upto(<<>>, n)
<1>1. <<>> \in Seq(Nat) /\ DOMAIN <<>> = {}
    OBVIOUS
<1> QED BY <1>1 DEF Sorted, Whole, Events, Before, Upto

LEMMA UptoGrows ==
    ASSUME NEW s \in Seq(Nat), NEW m \in Int, NEW n \in Int, m <= n, Upto(s, m)
    PROVE  Upto(s, n)
<1>1. \A i \in DOMAIN s : s[i] \in Nat
    OBVIOUS
<1> QED BY <1>1 DEF Upto

LEMMA LogInvInit == Init => LogInv
<1> SUFFICES ASSUME Init PROVE LogInv
    OBVIOUS
<1>1. TypeOK
    BY LogAssumption, EmptyLines DEF Init, TypeOK, Pcs
<1>2. OrderInv
    BY EmptyLines DEF Init, OrderInv, Sealing, Newest
<1>3. KeptInv
    BY EmptyLines DEF Init, KeptInv
<1> QED BY <1>1, <1>2, <1>3 DEF LogInv

\* The steps that leave the files alone.
LEMMA CommitStep == LogInv /\ Commit => LogInv'
<1> SUFFICES ASSUME LogInv, Commit PROVE LogInv'
    OBVIOUS
<1> USE DEF LogInv, Commit, files
<1>1. TypeOK'
    BY DEF TypeOK, Pcs
<1>2. Newest' = Newest /\ pc' = "append" /\ pc = "idle"
    BY DEF Newest, TypeOK
<1>3. OrderInv'
    BY <1>2 DEF OrderInv, Sealing, TypeOK
<1>4. KeptInv'
    BY <1>2 DEF KeptInv
<1> QED BY <1>1, <1>3, <1>4

LEMMA MaybeSealStep == LogInv /\ MaybeSeal => LogInv'
<1> SUFFICES ASSUME LogInv, MaybeSeal PROVE LogInv'
    OBVIOUS
<1> USE DEF LogInv, MaybeSeal, files
<1>1. TypeOK'
    BY DEF TypeOK, Pcs
<1>2. Newest' = Newest /\ pc' \in {"rename", "idle"} /\ pc = "check"
    BY DEF Newest
<1>3. OrderInv'
    BY <1>2 DEF OrderInv, Sealing
<1>4. KeptInv'
    BY <1>2 DEF KeptInv
<1> QED BY <1>1, <1>3, <1>4

\* An append adds the newest event, or loses it behind a torn line.
LEMMA AppendSyncStep == LogInv /\ AppendSync => LogInv'
<1> SUFFICES ASSUME LogInv, AppendSync PROVE LogInv'
    OBVIOUS
<1>1. /\ wal \in Seq(Nat) /\ sealed \in Seq(Nat) /\ rotating \in Seq(Nat)
      /\ committed \in Nat /\ committed >= 1 /\ pc = "append"
      /\ Newest = committed - 1 /\ Newest' = committed /\ Newest \in Nat
    BY DEF LogInv, TypeOK, OrderInv, AppendSync, Newest
<1>2. /\ wal' = wal \/ wal' = Append(wal, committed)
      /\ UNCHANGED <<committed, rotating, sealed, broken, hurt, faults>>
      /\ acked' = acked \cup {committed} /\ pc' = "check" /\ torn' = FALSE
    BY DEF AppendSync, WriteLine
<1>3. wal' \in Seq(Nat)
    BY <1>1, <1>2, AppendLines
<1>4. TypeOK'
    <2>1. acked \subseteq 1..committed /\ committed \in 1..committed
        BY <1>1 DEF LogInv, TypeOK
    <2>2. acked' \subseteq 1..committed'
        BY <1>2, <2>1
    <2>3. pc' \in Pcs /\ torn' \in BOOLEAN
        BY <1>2 DEF Pcs
    <2> QED BY <1>2, <1>3, <2>2, <2>3 DEF LogInv, TypeOK
<1>5. Sorted(wal') /\ Before(sealed, wal') /\ Upto(wal', committed)
    <2>1. Sorted(wal) /\ Before(sealed, wal) /\ Upto(wal, Newest) /\ Upto(sealed, Newest)
        BY DEF LogInv, OrderInv
    <2>2. CASE wal' = wal
        BY <1>1, <2>1, <2>2, UptoGrows
    <2>3. CASE wal' = Append(wal, committed)
        BY <1>1, <2>1, <2>3, AppendOrder
    <2> QED BY <1>2, <2>2, <2>3
<1>6. Upto(sealed, committed) /\ Upto(rotating, committed)
    BY <1>1, UptoGrows DEF LogInv, OrderInv
<1>7. OrderInv'
    BY <1>1, <1>2, <1>5, <1>6 DEF LogInv, OrderInv, Sealing
<1>8. KeptInv'
    <2> SUFFICES ASSUME ~hurt' PROVE KeptInv'
        BY DEF KeptInv
    <2>1. ~hurt /\ ~torn /\ wal' = Append(wal, committed)
        BY <1>2 DEF LogInv, KeptInv, AppendSync, WriteLine
    <2>2. Whole(wal')
        BY <1>1, <2>1, AppendLines DEF LogInv, KeptInv, Whole, Torn
    <2>3. Events(wal') = Events(wal) \cup {committed}
        BY <1>1, <2>1, AppendEvents
    <2> QED BY <1>1, <1>2, <2>1, <2>2, <2>3 DEF LogInv, KeptInv
<1> QED BY <1>4, <1>7, <1>8 DEF LogInv

\* Sealing moves the lines without changing their order.
LEMMA RenameStep == LogInv /\ Rename => LogInv'
<1> SUFFICES ASSUME LogInv, Rename PROVE LogInv'
    OBVIOUS
<1> USE DEF LogInv, Rename
<1>1. TypeOK'
    BY EmptyLines DEF TypeOK, Pcs
<1>2. Newest' = Newest /\ pc' = "compress" /\ pc = "rename"
    BY DEF Newest
<1>3. OrderInv'
    BY <1>2, EmptyLines DEF OrderInv
<1>4. KeptInv'
    BY <1>2, EmptyLines DEF KeptInv
<1> QED BY <1>1, <1>3, <1>4

LEMMA CompressStep == LogInv /\ Compress => LogInv'
<1> SUFFICES ASSUME LogInv, Compress PROVE LogInv'
    OBVIOUS
<1>1. /\ sealed \in Seq(Nat) /\ rotating \in Seq(Nat) /\ pc = "compress"
      /\ sealed' = sealed \o rotating /\ wal = <<>> /\ pc' = "unlink"
      /\ UNCHANGED <<committed, acked, wal, torn, rotating, broken, hurt, faults>>
      /\ Newest' = Newest /\ committed \in Nat /\ Newest = committed
    BY DEF LogInv, TypeOK, OrderInv, Compress, Sealing, Newest
<1>2. TypeOK'
    BY <1>1, ConcatLines DEF LogInv, TypeOK, Pcs
<1>3. Sorted(sealed') /\ Upto(sealed', Newest)
    BY <1>1, ConcatOrder, ConcatEvents DEF LogInv, OrderInv
<1>4. OrderInv'
    BY <1>1, <1>3, EmptyLines DEF LogInv, OrderInv
<1>5. KeptInv'
    BY <1>1, EmptyLines, ConcatEvents DEF LogInv, KeptInv
<1> QED BY <1>2, <1>4, <1>5 DEF LogInv

LEMMA UnlinkStep == LogInv /\ (Unlink \/ Fresh) => LogInv'
<1> SUFFICES ASSUME LogInv, Unlink \/ Fresh PROVE LogInv'
    OBVIOUS
<1> USE DEF LogInv, Unlink, Fresh
<1>1. TypeOK'
    BY EmptyLines DEF TypeOK, Pcs
<1>2. /\ Newest' = Newest /\ wal' = <<>> /\ wal = <<>>
      /\ pc' \notin {"append", "compress"} /\ pc # "compress"
      /\ UNCHANGED <<committed, acked, sealed, torn, broken, hurt>>
      /\ rotating' = rotating \/ rotating' = <<>>
    BY DEF Newest, OrderInv, Sealing
<1>3. OrderInv'
    BY <1>2, EmptyLines DEF OrderInv
<1>4. KeptInv'
    BY <1>2, EmptyLines DEF KeptInv
<1> QED BY <1>1, <1>3, <1>4

\* A fault adds at most a line nobody can parse.
LEMMA FaultStep == LogInv /\ (Stop \/ TearLine \/ TearSegment) => LogInv'
<1> SUFFICES ASSUME LogInv, Stop \/ TearLine \/ TearSegment PROVE LogInv'
    OBVIOUS
<1>1. /\ wal \in Seq(Nat) /\ sealed \in Seq(Nat) /\ rotating \in Seq(Nat)
      /\ committed \in Nat /\ Newest \in Nat /\ Newest <= committed
      /\ Newest' = committed /\ Torn \in Nat
    BY DEF LogInv, TypeOK, OrderInv, Stop, TearLine, TearSegment, Newest, Torn
<1>2. /\ wal' = wal \/ wal' = Append(wal, Torn)
      /\ pc' = "idle"
      /\ UNCHANGED <<committed, acked, rotating, sealed>>
    BY DEF Stop, TearLine, TearSegment, files
<1>3. wal' \in Seq(Nat)
    BY <1>1, <1>2, AppendLines
<1>4. TypeOK'
    <2>1. faults' \in Nat
        BY DEF LogInv, TypeOK, Stop, TearLine, TearSegment, Fault
    <2>2. torn' \in BOOLEAN /\ broken' \in BOOLEAN /\ hurt' \in BOOLEAN
        BY DEF LogInv, TypeOK, Stop, TearLine, TearSegment, files
    <2> QED BY <1>2, <1>3, <2>1, <2>2 DEF LogInv, TypeOK, Pcs
<1>5. Sorted(wal') /\ Before(sealed, wal') /\ Upto(wal', committed)
    <2>1. Sorted(wal) /\ Before(sealed, wal) /\ Upto(wal, Newest) /\ Upto(sealed, Newest)
        BY DEF LogInv, OrderInv
    <2>2. CASE wal' = wal
        BY <1>1, <2>1, <2>2, UptoGrows
    <2>3. CASE wal' = Append(wal, Torn)
        <3>1. Torn <= committed
            BY <1>1 DEF Torn
        <3> QED BY <1>1, <2>1, <2>3, <3>1, AppendOrder
    <2> QED BY <1>2, <2>2, <2>3
<1>6. Upto(sealed, committed) /\ Upto(rotating, committed)
    BY <1>1, UptoGrows DEF LogInv, OrderInv
<1>7. OrderInv'
    BY <1>1, <1>2, <1>5, <1>6 DEF LogInv, OrderInv, Sealing
<1>8. KeptInv'
    <2> SUFFICES ASSUME ~hurt' PROVE KeptInv'
        BY DEF KeptInv
    <2>1. Stop /\ ~hurt /\ pc # "compress"
        BY DEF Stop, TearLine, TearSegment
    <2> QED BY <1>2, <2>1 DEF Stop, files, LogInv, KeptInv
<1> QED BY <1>4, <1>7, <1>8 DEF LogInv

LEMMA LogInvStep == LogInv /\ [Next]_vars => LogInv'
<1> SUFFICES ASSUME LogInv, [Next]_vars PROVE LogInv'
    OBVIOUS
<1>1. CASE UNCHANGED vars
    BY <1>1 DEF vars, files, LogInv, TypeOK, OrderInv, KeptInv, Newest
<1>2. CASE Next
    BY <1>2, CommitStep, AppendSyncStep, MaybeSealStep, RenameStep, CompressStep,
       UnlinkStep, FaultStep DEF Next
<1> QED BY <1>1, <1>2

-----------------------------------------------------------------------------
(* Results.                                                                 *)

\* The lines of the log are in commit order across its files, and hold every
\* acknowledged event until a write or a seal is cut short
\* (persist-log.ts:60-120).
THEOREM LogInvariance == Spec => []LogInv
BY LogInvInit, LogInvStep, PTL DEF Spec

\* The state of the log keeps its types, and append never returns for an
\* event that the database has not committed.
THEOREM LogTypeCorrect == Spec => []TypeOK
<1>1. LogInv => TypeOK
    BY DEF LogInv
<1> QED BY <1>1, LogInvariance, PTL

\* A replay of the log, whenever it is made, yields committed events in
\* commit order, none twice (iterPersistEvents, persist-log.ts:123-152).
THEOREM ReplayInOrder == Spec => []ReplayIsHistory
<1>1. LogInv => ReplayIsHistory
    <2> SUFFICES ASSUME LogInv, Replayable PROVE ReplayIsHistory
        BY DEF ReplayIsHistory
    <2> DEFINE w == WalRead
    <2>1. wal \in Seq(Nat) /\ sealed \in Seq(Nat) /\ committed \in Nat
        BY DEF LogInv, TypeOK
    <2>2. /\ FirstTorn(wal) \in 1..(Len(wal) + 1)
          /\ \A j \in 1..(FirstTorn(wal) - 1) : wal[j] # Torn
        BY <2>1, FirstTornExists
    <2>3. /\ w \in Seq(Nat) /\ DOMAIN w = 1..(FirstTorn(wal) - 1)
          /\ \A i \in DOMAIN w : i \in DOMAIN wal /\ w[i] = wal[i]
        BY <2>1, <2>2 DEF WalRead
    <2>4. Whole(w) /\ Whole(sealed)
        BY <2>2, <2>3 DEF Whole, Replayable
    <2>5. Sorted(sealed) /\ Sorted(w) /\ Before(sealed, w)
        BY <2>3 DEF LogInv, OrderInv, Sorted, Before
    <2>6. Upto(sealed, committed) /\ Upto(w, committed)
        <3>1. Newest \in Int /\ Newest <= committed
            BY <2>1 DEF Newest
        <3>2. Upto(sealed, committed) /\ Upto(wal, committed)
            BY <2>1, <3>1, UptoGrows DEF LogInv, OrderInv
        <3> QED BY <2>3, <3>2 DEF Upto
    <2> HIDE DEF w
    <2>7. /\ Sorted(sealed \o w) /\ Whole(sealed \o w)
          /\ Upto(sealed \o w, committed) /\ sealed \o w \in Seq(Nat)
        BY <2>1, <2>3, <2>4, <2>5, <2>6, ConcatOrder, ConcatEvents, ConcatLines
    <2>8. Replayed = sealed \o w
        BY DEF Replayed, w
    <2>9. ASSUME NEW i \in DOMAIN Replayed
          PROVE  /\ Replayed[i] \in 1..committed
                 /\ \A j \in 1..(i - 1) : Replayed[j] < Replayed[i]
        <3>1. /\ Replayed[i] \in Nat /\ Replayed[i] # Torn
              /\ Replayed[i] <= committed /\ i \in Nat
              /\ \A j \in 1..(i - 1) : j \in DOMAIN Replayed /\ j < i
            BY <2>7, <2>8, <2>9 DEF Whole, Upto
        <3>2. \A j \in 1..(i - 1) : Replayed[j] # Torn
            BY <2>7, <2>8, <3>1 DEF Whole
        <3>3. Sorted(Replayed)
            BY <2>7, <2>8
        <3>4. \A j \in 1..(i - 1) : Replayed[j] < Replayed[i]
            BY <3>1, <3>2, <3>3, <2>9 DEF Sorted
        <3>5. Replayed[i] \in 1..committed
            BY <2>1, <3>1 DEF Torn
        <3> QED BY <3>4, <3>5
    <2> QED BY <2>9 DEF ReplayIsHistory
<1> QED BY <1>1, LogInvariance, PTL

\* Across any number of seals, kills between steps and failed appends, every
\* event append returned for is replayed, unless a write or a seal was cut
\* short (sealSync, persist-log.ts:103-120).
THEOREM AckedAreKept == Spec => []AckedSurvive
<1>1. LogInv => AckedSurvive
    <2> SUFFICES ASSUME LogInv, pc = "idle", ~hurt PROVE AckedSurvive
        BY DEF AckedSurvive
    <2>1. wal \in Seq(Nat) /\ sealed \in Seq(Nat)
        BY DEF LogInv, TypeOK
    <2>2. /\ ~broken /\ Whole(sealed) /\ Whole(wal)
          /\ acked = Events(sealed) \cup Events(wal)
        BY DEF LogInv, KeptInv
    <2>3. WalRead = wal
        BY <2>1, <2>2, FirstTornExists DEF WalRead
    <2>4. Events(Replayed) = Events(sealed) \cup Events(wal)
        BY <2>1, <2>3, ConcatEvents DEF Replayed
    <2> QED BY <2>2, <2>4 DEF AckedSurvive, Replayable, Whole, Events
<1> QED BY <1>1, LogInvariance, PTL
=============================================================================
