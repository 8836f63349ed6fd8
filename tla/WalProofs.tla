------------------------------- MODULE WalProofs -------------------------------
(***************************************************************************)
(* Proofs about module Wal, for every set of transactions and keys and any *)
(* number of failed writes and crashes.  The writer of                     *)
(* sabi-storage/src/wal.rs keeps what an acknowledged Commit promised      *)
(* (CommitDurable), and a Commit record that is whole in the file,         *)
(* acknowledged or not, has all of its transaction in front of it          *)
(* (CommitAtomic).                                                         *)
(*                                                                         *)
(* CommitDurable speaks of the synced part of the file and of transactions *)
(* already committed.  It is not inductive: the sync that acknowledges a   *)
(* Commit makes a promise about records that earlier calls of append wrote *)
(* and nobody synced.  WInv says where those records are before the sync.  *)
(* CommitAtomic speaks of whole records.  CInv says the same of a Commit   *)
(* of which one piece is written, when WInv still knows where the records  *)
(* of its transaction are, and that only an Abort comes behind it; a crash *)
(* that cuts the file then cuts the Commit before what it covers.          *)
(***************************************************************************)
EXTENDS Wal, SequenceTheorems, TLAPS

Statuses == {"new", "open", "committed", "aborted", "undone", "unsure", "lost"}
PieceSet == [part : {"length", "payload", "checksum", "torn"}, rec : Records]

\* The transactions about which the log still has to keep its word: the caller
\* has not given up and no error or crash took it away from them.
LiveStatus == {"new", "open", "committed"}
Live(t) == status[t] \in LiveStatus

\* The record append is writing was asked for in a state in which its caller
\* may ask for it, and only a Commit is waiting for the sync.
PendingAllowed ==
    pending # None =>
        /\ pending.rec.type = "begin" => status[pending.rec.tx] = "new"
        /\ pending.rec.type \in {"write", "commit"} => status[pending.rec.tx] = "open"
        /\ pending.rec.type = "abort" => status[pending.rec.tx] \in {"open", "unsure"}
        /\ pending.next = Sync => pending.rec.type = "commit"

\* The file ends with the pieces of that record that are written.
PendingPieces ==
    pending # None =>
        /\ pending.next - 1 =< Len(file)
        /\ \A i \in 1..(pending.next - 1) :
              file[Len(file) - (pending.next - 1) + i] = Piece(Parts[i], pending.rec)

\* A transaction whose Begin was not acknowledged has no acknowledged record.
Begun == \A i \in DOMAIN written : status[written[i].rec.tx] # "new"

\* The acknowledged records of a live transaction are whole where append wrote
\* them, in front of the record being written, and synced if committed.
InFile ==
    \A i \in DOMAIN written : Live(written[i].rec.tx) =>
        /\ written[i].at \in 1..(Len(file) - 2)
        /\ Whole(written[i].at)
        /\ file[written[i].at].rec = written[i].rec
        /\ status[written[i].rec.tx] = "committed" => written[i].at + 2 =< synced
        /\ pending # None => written[i].at + 2 =< Len(file) - (pending.next - 1)

\* They follow each other in the order in which they were acknowledged.
InOrder ==
    \A i, j \in DOMAIN written :
        Live(written[i].rec.tx) /\ Live(written[j].rec.tx) /\ i < j =>
            written[i].at < written[j].at

\* Every other whole record of a live transaction is the one waiting for its sync.
Own(p) ==
    /\ pending # None /\ pending.next = Sync
    /\ p = Len(file) - 2 /\ file[p].rec = pending.rec

Accounted ==
    \A p \in 1..(Len(file) - 2) : Whole(p) /\ Live(file[p].rec.tx) =>
        \/ Own(p)
        \/ \E i \in DOMAIN written : written[i].at = p /\ written[i].rec = file[p].rec

WInv ==
    /\ TypeOK /\ PendingAllowed /\ PendingPieces
    /\ Begun /\ InFile /\ InOrder /\ Accounted

------------------------------------------------------------------------------
(* Facts about pieces and records.                                         *)

\* The names of the three pieces.
LEMMA PartsAre ==
    /\ Parts[1] = "length" /\ Parts[2] = "payload" /\ Parts[3] = "checksum"
    /\ \A i \in 1..3 : Parts[i] \in {"length", "payload", "checksum"}
BY DEF Parts

\* A piece is its part and its record.
LEMMA PieceIs ==
    ASSUME NEW part, NEW r
    PROVE  Piece(part, r).part = part /\ Piece(part, r).rec = r
BY DEF Piece

\* What Whole says, piece by piece.
LEMMA WholeIs ==
    ASSUME NEW p
    PROVE  Whole(p) <=> /\ p + 2 =< Len(file)
                        /\ \A i \in 1..3 : file[p + i - 1] = Piece(Parts[i], file[p].rec)
BY DEF Whole

\* A step that keeps the first n pieces keeps the records that are whole in them.
LEMMA WholeKept ==
    ASSUME NEW n \in Nat, n =< Len(file), n =< Len(file'),
           file \in Seq(PieceSet), file' \in Seq(PieceSet),
           \A q \in 1..n : file'[q] = file[q],
           NEW p \in 1..(n - 2)
    PROVE  /\ file'[p] = file[p]
           /\ Whole(p)' <=> Whole(p)
<1>1. file'[p] = file[p] /\ Len(file) \in Nat /\ Len(file') \in Nat
  BY LenProperties
<1>2. \A i \in 1..3 : p + i - 1 \in 1..n
  OBVIOUS
<1>3. \A i \in 1..3 : file'[p + i - 1] = file[p + i - 1]
  BY <1>2
<1>4. p + 2 =< Len(file) /\ p + 2 =< Len(file')
  BY <1>1
<1> QED BY <1>1, <1>3, <1>4 DEF Whole

\* A record that ends with the piece a step has added is whole only if that
\* piece is a checksum, of that record.
LEMMA WholeLast ==
    ASSUME file' \in Seq(PieceSet),
           NEW p \in 1..(Len(file') - 2), p + 2 = Len(file'), Whole(p)'
    PROVE  /\ file'[Len(file')].part = "checksum"
           /\ file'[Len(file')].rec = file'[p].rec
<1>1. Len(file') \in Nat BY LenProperties
<1>2. file'[p + 3 - 1] = Piece(Parts[3], file'[p].rec)
  BY DEF Whole
<1>3. p + 3 - 1 = Len(file')
  BY <1>1
<1> QED BY <1>2, <1>3, PartsAre, PieceIs

------------------------------------------------------------------------------
(* Type correctness.                                                       *)

\* The first k elements of a sequence.
LEMMA Prefix ==
    ASSUME NEW S, NEW s \in Seq(S), NEW k \in 0..Len(s)
    PROVE  /\ SubSeq(s, 1, k) \in Seq(S)
           /\ Len(SubSeq(s, 1, k)) = k
           /\ \A q \in 1..k : SubSeq(s, 1, k)[q] = s[q]
<1>1. Len(s) \in Nat /\ \A q \in 1..Len(s) : s[q] \in S
  BY LenProperties
<1>2. k \in Int /\ \A q \in 1..k : s[q] \in S
  BY <1>1
<1>3. /\ SubSeq(s, 1, k) \in Seq(S)
      /\ Len(SubSeq(s, 1, k)) = IF 1 =< k THEN k - 1 + 1 ELSE 0
      /\ \A q \in 1..(k - 1 + 1) : SubSeq(s, 1, k)[q] = s[1 + q - 1]
  BY <1>2, SubSeqProperties
<1> QED BY <1>1, <1>3

\* The header in full: eleven bytes.
LEMMA NewHeaderIs == NewHeader \in Seq(Int) /\ Len(NewHeader) = 11
BY DEF NewHeader, Magic, Version

\* A cut of a cut of the header is a cut of the header.
LEMMA HeaderCut ==
    ASSUME header \in {SubSeq(NewHeader, 1, n) : n \in 0..11},
           NEW k \in 0..11, k =< Len(header)
    PROVE  SubSeq(header, 1, k) \in {SubSeq(NewHeader, 1, n) : n \in 0..11}
<1>1. PICK n \in 0..11 : header = SubSeq(NewHeader, 1, n)
  OBVIOUS
<1>2. /\ header \in Seq(Int) /\ Len(header) = n
      /\ \A q \in 1..n : header[q] = NewHeader[q]
  <2>1. n \in 0..Len(NewHeader) BY NewHeaderIs
  <2>2. /\ SubSeq(NewHeader, 1, n) \in Seq(Int) /\ Len(SubSeq(NewHeader, 1, n)) = n
        /\ \A q \in 1..n : SubSeq(NewHeader, 1, n)[q] = NewHeader[q]
    BY <2>1, NewHeaderIs, Prefix
  <2> QED BY <1>1, <2>2
<1>3. k =< n BY <1>2
<1>4. /\ SubSeq(header, 1, k) \in Seq(Int) /\ Len(SubSeq(header, 1, k)) = k
      /\ \A q \in 1..k : SubSeq(header, 1, k)[q] = header[q]
  BY <1>2, <1>3, Prefix
<1>5. /\ SubSeq(NewHeader, 1, k) \in Seq(Int) /\ Len(SubSeq(NewHeader, 1, k)) = k
      /\ \A q \in 1..k : SubSeq(NewHeader, 1, k)[q] = NewHeader[q]
  BY NewHeaderIs, Prefix
<1>6. ASSUME NEW q \in 1..k PROVE SubSeq(header, 1, k)[q] = SubSeq(NewHeader, 1, k)[q]
  <2>1. q \in 1..n BY <1>3
  <2>2. header[q] = NewHeader[q] BY <1>2, <2>1
  <2>3. SubSeq(header, 1, k)[q] = header[q] BY <1>4
  <2>4. SubSeq(NewHeader, 1, k)[q] = NewHeader[q] BY <1>5
  <2> QED BY <2>2, <2>3, <2>4
<1>7. SubSeq(header, 1, k) = SubSeq(NewHeader, 1, k)
  BY <1>4, <1>5, <1>6, SeqEqual
<1> QED BY <1>7

\* A crash leaves a prefix of the file that holds what was synced, and perhaps a
\* torn piece.
LEMMA SurvivorsAre ==
    ASSUME file \in Seq(PieceSet), synced \in 0..Len(file),
           NEW f \in Survivors(file, synced)
    PROVE  /\ f \in Seq(PieceSet)
           /\ \E k \in synced..Len(file) :
                 /\ \A q \in 1..k : f[q] = file[q]
                 /\ \/ Len(f) = k
                    \/ /\ Len(f) = k + 1 /\ k + 1 \in 1..Len(file)
                       /\ f[k + 1].part = "torn" /\ f[k + 1].rec = file[k + 1].rec
<1>0. Len(file) \in Nat /\ synced \in Nat
  BY LenProperties
<1>1. ASSUME NEW k \in synced..Len(file), f = SubSeq(file, 1, k)
      PROVE  /\ f \in Seq(PieceSet)
             /\ \A q \in 1..k : f[q] = file[q]
             /\ Len(f) = k
  <2>1. k \in 0..Len(file) BY <1>0, <1>1
  <2> QED BY <1>1, <2>1, Prefix
<1>2. ASSUME NEW k \in synced..(Len(file) - 1),
             f = Append(SubSeq(file, 1, k), Piece("torn", file[k + 1].rec))
      PROVE  /\ f \in Seq(PieceSet)
             /\ \A q \in 1..k : f[q] = file[q]
             /\ Len(f) = k + 1 /\ k + 1 \in 1..Len(file)
             /\ f[k + 1].part = "torn" /\ f[k + 1].rec = file[k + 1].rec
  <2>1. k \in 0..Len(file) /\ k + 1 \in 1..Len(file) BY <1>0, <1>2
  <2> DEFINE g == SubSeq(file, 1, k)
             x == Piece("torn", file[k + 1].rec)
  <2>2. g \in Seq(PieceSet) /\ Len(g) = k /\ \A q \in 1..k : g[q] = file[q]
    BY <2>1, Prefix
  <2>3. file[k + 1] \in PieceSet BY <2>1, LenProperties
  <2>4. x \in PieceSet /\ x.part = "torn" /\ x.rec = file[k + 1].rec
    BY <2>3 DEF PieceSet, Piece
  <2> HIDE DEF g, x
  <2>5. /\ Append(g, x) \in Seq(PieceSet) /\ Len(Append(g, x)) = k + 1
        /\ \A q \in 1..k : Append(g, x)[q] = g[q]
        /\ Append(g, x)[k + 1] = x
    BY <2>2, <2>4, AppendProperties
  <2>6. f = Append(g, x) BY <1>2 DEF g, x
  <2> QED BY <2>1, <2>2, <2>4, <2>5, <2>6
<1>3. CASE f \in {SubSeq(file, 1, k) : k \in synced..Len(file)}
  BY <1>1, <1>3
<1>4. CASE f \in {Append(SubSeq(file, 1, k), Piece("torn", file[k + 1].rec)) :
                     k \in synced..(Len(file) - 1)}
  <2>1. PICK k \in synced..(Len(file) - 1) :
            f = Append(SubSeq(file, 1, k), Piece("torn", file[k + 1].rec))
    BY <1>4
  <2>2. k \in synced..Len(file) BY <1>0
  <2> QED BY <1>2, <2>1, <2>2
<1> QED BY <1>3, <1>4 DEF Survivors

\* What append adds to the file.
LEMMA AppendFile ==
    ASSUME file \in Seq(PieceSet), NEW x \in PieceSet, file' = Append(file, x)
    PROVE  /\ file' \in Seq(PieceSet)
           /\ Len(file) \in Nat /\ Len(file') = Len(file) + 1
           /\ \A q \in 1..Len(file) : file'[q] = file[q]
           /\ file'[Len(file) + 1] = x
BY AppendProperties, LenProperties

\* The record being written, and the piece that its next write adds.
LEMMA PendingIs ==
    ASSUME TypeOK, pending # None
    PROVE  /\ pending.rec \in Records /\ pending.next \in 1..4
           /\ pending = [rec |-> pending.rec, next |-> pending.next]
           /\ pending.rec.tx \in Tx /\ pending.rec.type \in RecordTypes
           /\ Piece("torn", pending.rec) \in PieceSet
           /\ pending.next < Sync => Piece(Parts[pending.next], pending.rec) \in PieceSet
<1>1. pending \in [rec : Records, next : 1..4]
  BY DEF TypeOK, Sync
<1>2. pending.rec \in Records /\ pending.next \in 1..4
      /\ pending = [rec |-> pending.rec, next |-> pending.next]
  BY <1>1
<1>3. pending.rec.tx \in Tx /\ pending.rec.type \in RecordTypes
  BY <1>2 DEF Records
<1>4. Piece("torn", pending.rec) \in PieceSet
  BY <1>2 DEF PieceSet, Piece
<1>5. ASSUME pending.next < Sync
      PROVE  Piece(Parts[pending.next], pending.rec) \in PieceSet
  <2>1. pending.next \in 1..3 BY <1>2, <1>5 DEF Sync
  <2>2. Parts[pending.next] \in {"length", "payload", "checksum"}
    BY <2>1, PartsAre
  <2> QED BY <1>2, <2>2 DEF PieceSet, Piece
<1> QED BY <1>2, <1>3, <1>4, <1>5

\* What append's caller knows after Ok or an error is one of the statuses.
LEMMA AfterIs ==
    ASSUME NEW r, NEW s \in Statuses
    PROVE  After(r, s) \in Statuses /\ AfterError(r, s) \in Statuses
BY DEF After, AfterError, Statuses

\* TypeOK is inductive.
LEMMA TypeStep == TypeOK /\ [Next]_vars => TypeOK'
<1> SUFFICES ASSUME TypeOK, [Next]_vars PROVE TypeOK'
  OBVIOUS
<1>0. /\ file \in Seq(PieceSet) /\ synced \in 0..Len(file) /\ Len(file) \in Nat
      /\ status \in [Tx -> Statuses]
  <2>1. file \in Seq(PieceSet) BY DEF TypeOK, PieceSet
  <2> QED BY <2>1, LenProperties DEF TypeOK, Statuses
<1>1. CASE Open
  BY <1>1 DEF Open, TypeOK
<1>2. CASE WriteHeader
  <2>1. PICK n \in {7, 9, 11} : header' = SubSeq(NewHeader, 1, n) /\ writer' \in {"open", writer}
    BY <1>2 DEF WriteHeader
  <2>2. n \in 0..11 OBVIOUS
  <2>3. header' \in {SubSeq(NewHeader, 1, m) : m \in 0..11}
    BY <2>1, <2>2
  <2> QED BY <1>2, <2>1, <2>3 DEF WriteHeader, TypeOK
<1>3. ASSUME NEW r \in Records, StartAppend(r) PROVE TypeOK'
  <2>1. pending' \in [rec : Records, next : 1..4]
    BY <1>3 DEF StartAppend
  <2> QED BY <1>3, <2>1 DEF StartAppend, TypeOK, Sync
<1>4. ASSUME NEW t \in Tx, CallerOf(t) PROVE TypeOK'
  <2>1. \A type \in RecordTypes, k \in Key \cup {None} : Record(type, t, k) \in Records
    BY DEF Record, Records
  <2> QED BY <1>3, <1>4, <2>1 DEF CallerOf, RecordTypes
<1>5. CASE WritePiece
  <2> DEFINE r == pending.rec
             x == Piece(Parts[pending.next], r)
  <2>1. pending # None /\ pending.next < Sync /\ file' = Append(file, x)
    BY <1>5 DEF WritePiece
  <2>2. r \in Records /\ r.tx \in Tx /\ x \in PieceSet /\ pending.next \in 1..4
        /\ pending = [rec |-> r, next |-> pending.next]
    BY <2>1, PendingIs
  <2> HIDE DEF x
  <2>3. file' \in Seq(PieceSet) /\ Len(file') = Len(file) + 1
    BY <2>1, <2>2, <1>0, AppendFile
  <2>4. synced' = synced /\ UNCHANGED <<header, writer, faults, crashes>>
    BY <1>5 DEF WritePiece
  <2>5. synced' \in 0..Len(file')
    BY <2>3, <2>4, <1>0
  <2>6. CASE Return(r)
    <3>1. written' \in Seq([rec : Records, at : Int])
      <4>1. [rec |-> r, at |-> Len(file') - 2] \in [rec : Records, at : Int]
        BY <2>2, <2>3, <1>0
      <4>2. written \in Seq([rec : Records, at : Int]) BY DEF TypeOK
      <4> QED BY <2>6, <4>1, <4>2, AppendProperties DEF Return
    <3>2. status' \in [Tx -> Statuses]
      <4>1. After(r, status[r.tx]) \in Statuses BY <1>0, <2>2, AfterIs
      <4>2. status' = [status EXCEPT ![r.tx] = After(r, status[r.tx])]
        BY <2>6 DEF Return
      <4> QED BY <1>0, <2>2, <4>1, <4>2
    <3>3. pending' = None BY <2>6 DEF Return
    <3> QED BY <2>3, <2>4, <2>5, <3>1, <3>2, <3>3 DEF TypeOK, PieceSet, Statuses
  <2>7. CASE /\ pending' = [pending EXCEPT !.next = @ + 1]
             /\ UNCHANGED <<written, status>>
    <3>1. pending' \in [rec : Records, next : 1..4]
      <4>1. pending.next + 1 \in 1..4 BY <2>1, <2>2 DEF Sync
      <4>2. pending' = [rec |-> r, next |-> pending.next + 1] BY <2>2, <2>7
      <4> QED BY <4>1, <4>2, <2>2
    <3> QED BY <2>3, <2>4, <2>5, <2>7, <3>1 DEF TypeOK, PieceSet, Sync
  <2> QED BY <1>5, <2>6, <2>7 DEF WritePiece
<1>6. CASE SyncCommit
  <2> DEFINE r == pending.rec
  <2>1. /\ pending # None /\ Return(r) /\ synced' = Len(file)
        /\ UNCHANGED <<header, writer, file, faults, crashes>>
    BY <1>6 DEF SyncCommit
  <2>2. r \in Records /\ r.tx \in Tx BY <2>1, PendingIs
  <2>3. written' \in Seq([rec : Records, at : Int])
    <3>1. [rec |-> r, at |-> Len(file') - 2] \in [rec : Records, at : Int]
      BY <2>1, <2>2, <1>0
    <3>2. written \in Seq([rec : Records, at : Int]) BY DEF TypeOK
    <3> QED BY <2>1, <3>1, <3>2, AppendProperties DEF Return
  <2>4. status' \in [Tx -> Statuses]
    <3>1. After(r, status[r.tx]) \in Statuses BY <1>0, <2>2, AfterIs
    <3>2. status' = [status EXCEPT ![r.tx] = After(r, status[r.tx])]
      BY <2>1 DEF Return
    <3> QED BY <1>0, <2>2, <3>1, <3>2
  <2>5. pending' = None /\ synced' \in 0..Len(file')
    BY <2>1, <1>0 DEF Return
  <2> QED BY <2>1, <2>3, <2>4, <2>5 DEF TypeOK, Statuses
<1>7. CASE FailAppend
  <2> DEFINE r == pending.rec
  <2>1. /\ pending # None /\ pending' = None
        /\ UNCHANGED <<header, writer, synced, written, crashes>>
        /\ file' = file \/ file' = Append(file, Piece("torn", r))
        /\ status' = [status EXCEPT ![r.tx] = AfterError(r, status[r.tx])]
    BY <1>7 DEF FailAppend
  <2>2. r \in Records /\ r.tx \in Tx /\ Piece("torn", r) \in PieceSet
    BY <2>1, PendingIs
  <2>3. file' \in Seq(PieceSet) /\ synced' \in 0..Len(file')
    <3>1. CASE file' = file BY <3>1, <1>0, <2>1
    <3>2. CASE file' = Append(file, Piece("torn", r))
      BY <3>2, <2>2, <1>0, <2>1, AppendFile
    <3> QED BY <2>1, <3>1, <3>2
  <2>4. status' \in [Tx -> Statuses]
    <3>1. AfterError(r, status[r.tx]) \in Statuses BY <1>0, <2>2, AfterIs
    <3> QED BY <1>0, <2>1, <2>2, <3>1
  <2>5. faults' \in 0..MaxFaults
    <3>1. faults < MaxFaults /\ faults' = faults + 1 BY <1>7 DEF FailAppend
    <3>2. faults \in 0..MaxFaults /\ MaxFaults \in Nat BY WalAssumption DEF TypeOK
    <3> QED BY <3>1, <3>2
  <2> QED BY <2>1, <2>3, <2>4, <2>5 DEF TypeOK, PieceSet, Statuses
<1>8. CASE Crash
  <2>1. /\ writer' = "closed" /\ pending' = None /\ written' = written /\ faults' = faults
        /\ \E f \in Survivors(file, synced) : file' = f /\ synced' = Len(f)
    BY <1>8 DEF Crash
  <2>2. file' \in Seq(PieceSet) /\ synced' = Len(file')
    BY <2>1, <1>0, SurvivorsAre
  <2>3. synced' \in 0..Len(file')
    BY <2>2, LenProperties
  <2>4. header' \in {SubSeq(NewHeader, 1, n) : n \in 0..11}
    <3>1. header \in {SubSeq(NewHeader, 1, n) : n \in 0..11} BY DEF TypeOK
    <3>2. CASE writer = "opening"
      <4>1. PICK n \in {0, 7, 9} : n =< Len(header) /\ header' = SubSeq(header, 1, n)
        BY <3>2, <1>8 DEF Crash
      <4>2. n \in 0..11 OBVIOUS
      <4> QED BY <3>1, <4>1, <4>2, HeaderCut
    <3>3. CASE writer # "opening"
      BY <3>1, <3>3, <1>8 DEF Crash
    <3> QED BY <3>2, <3>3
  <2>5. status' \in [Tx -> Statuses]
    <3>1. status' = [t \in Tx |->
             IF pending # None /\ pending.rec.tx = t /\ pending.rec.type = "commit" THEN "unsure"
             ELSE IF status[t] = "open" THEN "lost" ELSE status[t]]
      BY <1>8 DEF Crash
    <3> QED BY <1>0, <3>1 DEF Statuses
  <2>6. crashes' \in 0..MaxCrashes
    BY <1>8, WalAssumption DEF Crash, TypeOK
  <2> QED BY <2>1, <2>2, <2>3, <2>4, <2>5, <2>6 DEF TypeOK, PieceSet, Statuses
<1>9. CASE UNCHANGED vars
  BY <1>9 DEF vars, TypeOK
<1> QED BY <1>1, <1>2, <1>4, <1>5, <1>6, <1>7, <1>8, <1>9 DEF Next

------------------------------------------------------------------------------
(* Where the records are.                                                  *)

\* The types the steps below use.
LEMMA Typed ==
    ASSUME TypeOK
    PROVE  /\ file \in Seq(PieceSet) /\ Len(file) \in Nat
           /\ \A p \in 1..Len(file) : file[p] \in PieceSet /\ file[p].rec.tx \in Tx
           /\ synced \in 0..Len(file)
           /\ status \in [Tx -> Statuses]
           /\ written \in Seq([rec : Records, at : Int]) /\ Len(written) \in Nat
           /\ DOMAIN written = 1..Len(written)
           /\ \A i \in DOMAIN written :
                 /\ written[i].rec \in Records /\ written[i].rec.tx \in Tx
                 /\ written[i].at \in Int
<1>1. file \in Seq(PieceSet) BY DEF TypeOK, PieceSet
<1>2. Len(file) \in Nat /\ \A p \in 1..Len(file) : file[p] \in PieceSet
  BY <1>1, LenProperties
<1>3. \A p \in 1..Len(file) : file[p].rec.tx \in Tx
  BY <1>2 DEF PieceSet, Records
<1>4. written \in Seq([rec : Records, at : Int]) BY DEF TypeOK
<1>5. /\ Len(written) \in Nat /\ DOMAIN written = 1..Len(written)
      /\ \A i \in DOMAIN written : written[i] \in [rec : Records, at : Int]
  BY <1>4, LenProperties
<1>6. \A i \in DOMAIN written :
         /\ written[i].rec \in Records /\ written[i].rec.tx \in Tx
         /\ written[i].at \in Int
  BY <1>5 DEF Records
<1> QED BY <1>1, <1>2, <1>3, <1>4, <1>5, <1>6 DEF TypeOK, Statuses

\* What WInv says beside TypeOK.
Placed ==
    /\ PendingAllowed /\ PendingPieces
    /\ Begun /\ InFile /\ InOrder /\ Accounted

\* Opening the log touches none of it.
LEMMA SamePlaced ==
    ASSUME Placed, UNCHANGED <<file, synced, pending, written, status>>
    PROVE  Placed'
BY DEF Placed, PendingAllowed, PendingPieces, Begun, InFile, InOrder, Accounted,
       Own, Live, Whole

\* append is called: the record in front of which all the others lie is new.
LEMMA CallerStep ==
    ASSUME TypeOK, Placed, NEW t \in Tx, CallerOf(t)
    PROVE  Placed'
<1>1. PICK r \in Records :
         /\ StartAppend(r)
         /\ r.type = "begin" => status[r.tx] = "new"
         /\ r.type \in {"write", "commit"} => status[r.tx] = "open"
         /\ r.type = "abort" => status[r.tx] \in {"open", "unsure"}
  <2>1. \A type \in RecordTypes, k \in Key \cup {None} :
           /\ Record(type, t, k) \in Records
           /\ Record(type, t, k).type = type /\ Record(type, t, k).tx = t
    BY DEF Record, Records
  <2>2. CASE status[t] = "new" /\ StartAppend(Record("begin", t, None))
    BY <2>1, <2>2 DEF RecordTypes
  <2>3. CASE \E k \in Key : status[t] = "open" /\ StartAppend(Record("write", t, k))
    <3>1. PICK k \in Key : status[t] = "open" /\ StartAppend(Record("write", t, k))
      BY <2>3
    <3> QED BY <2>1, <3>1 DEF RecordTypes
  <2>4. CASE status[t] = "open" /\ StartAppend(Record("commit", t, None))
    BY <2>1, <2>4 DEF RecordTypes
  <2>5. CASE status[t] \in {"open", "unsure"} /\ StartAppend(Record("abort", t, None))
    BY <2>1, <2>5 DEF RecordTypes
  <2> QED BY <2>2, <2>3, <2>4, <2>5 DEF CallerOf
<1>2. /\ pending = None
      /\ pending' = [rec |-> r, next |-> 1]
      /\ UNCHANGED <<file, synced, written, status>>
  BY <1>1 DEF StartAppend
<1>3. pending'.rec = r /\ pending'.next = 1
  BY <1>2
<1>4. PendingAllowed'
  BY <1>1, <1>2, <1>3 DEF PendingAllowed, Sync
<1>5. PendingPieces'
  BY <1>2, <1>3, Typed DEF PendingPieces
<1>6. Begun' /\ InOrder'
  BY <1>2 DEF Placed, Begun, InOrder, Live
<1>7. InFile'
  <2> SUFFICES ASSUME NEW i \in DOMAIN written, Live(written[i].rec.tx)
               PROVE  /\ written[i].at \in 1..(Len(file) - 2)
                      /\ Whole(written[i].at)
                      /\ file[written[i].at].rec = written[i].rec
                      /\ status[written[i].rec.tx] = "committed" => written[i].at + 2 =< synced
                      /\ written[i].at + 2 =< Len(file) - (1 - 1)
    BY <1>2, <1>3 DEF InFile, Live, Whole
  <2> QED BY Typed DEF Placed, InFile
<1>8. Accounted'
  BY <1>2 DEF Placed, Accounted, Own, Live, Whole
<1> QED BY <1>4, <1>5, <1>6, <1>7, <1>8 DEF Placed

\* A piece more behind the acknowledged records does not move them.
LEMMA KeptByAppend ==
    ASSUME TypeOK, InFile, NEW x \in PieceSet, file' = Append(file, x),
           NEW i \in DOMAIN written, Live(written[i].rec.tx)
    PROVE  /\ written[i].at \in 1..(Len(file) - 2)
           /\ written[i].at \in 1..(Len(file') - 2)
           /\ \E w \in {written[i].at} : Whole(w)' /\ file'[w].rec = written[i].rec
<1> DEFINE p == written[i].at
<1>1. file \in Seq(PieceSet) /\ Len(file) \in Nat BY Typed
<1>2. /\ file' \in Seq(PieceSet) /\ Len(file') = Len(file) + 1
      /\ \A q \in 1..Len(file) : file'[q] = file[q]
  BY <1>1, AppendFile
<1>3. p \in 1..(Len(file) - 2) /\ Whole(p) /\ file[p].rec = written[i].rec
  BY DEF InFile
<1> HIDE DEF p
<1>4. \E w \in {p} : (Whole(w)' <=> Whole(w)) /\ file'[w] = file[w]
  BY <1>1, <1>2, <1>3, WholeKept
<1>5. p \in 1..(Len(file) - 2) /\ p \in 1..(Len(file') - 2)
  BY <1>1, <1>2, <1>3
<1> QED BY <1>3, <1>4, <1>5 DEF p

\* A record that is whole with one piece more was whole before, or ends there.
LEMMA WholeWithAppend ==
    ASSUME TypeOK, NEW x \in PieceSet, file' = Append(file, x),
           NEW p \in 1..(Len(file') - 2), Whole(p)'
    PROVE  \/ p \in 1..(Len(file) - 2) /\ Whole(p) /\ file'[p] = file[p]
           \/ p = Len(file') - 2 /\ x.part = "checksum" /\ file'[p].rec = x.rec
<1>1. file \in Seq(PieceSet) /\ Len(file) \in Nat BY Typed
<1>2. /\ file' \in Seq(PieceSet) /\ Len(file') = Len(file) + 1
      /\ \A q \in 1..Len(file) : file'[q] = file[q]
      /\ file'[Len(file')] = x
  BY <1>1, AppendFile
<1>3. CASE p \in 1..(Len(file) - 2)
  BY <1>1, <1>2, <1>3, WholeKept
<1>4. CASE p = Len(file') - 2
  <2>1. p + 2 = Len(file') BY <1>1, <1>2, <1>4
  <2> QED BY <1>2, <1>4, <2>1, WholeLast
<1>5. p \in 1..(Len(file) - 2) \/ p = Len(file') - 2
  BY <1>1, <1>2
<1> QED BY <1>3, <1>4, <1>5

\* When append returns Ok, nobody becomes live, and committed is who asked for it.
LEMMA ReturnStatus ==
    ASSUME TypeOK, PendingAllowed, pending # None, Return(pending.rec)
    PROVE  /\ \A t \in Tx : status'[t] \in LiveStatus => Live(t)
           /\ \A t \in Tx : status'[t] = "committed" =>
                 status[t] = "committed" \/ (pending.rec.type = "commit" /\ t = pending.rec.tx)
           /\ \A t \in Tx : status'[t] = "new" => status[t] = "new"
           /\ status'[pending.rec.tx] # "new"
<1> DEFINE r == pending.rec
<1>1. r.tx \in Tx /\ r.type \in RecordTypes /\ status \in [Tx -> Statuses]
  BY PendingIs, Typed
<1>2. /\ r.type = "begin" => status[r.tx] = "new"
      /\ r.type \in {"write", "commit"} => status[r.tx] = "open"
      /\ r.type = "abort" => status[r.tx] \in {"open", "unsure"}
  BY DEF PendingAllowed
<1>3. status' = [status EXCEPT ![r.tx] = After(r, status[r.tx])]
  BY DEF Return
<1> HIDE DEF r
<1>4. /\ status'[r.tx] = After(r, status[r.tx])
      /\ \A t \in Tx : t # r.tx => status'[t] = status[t]
  BY <1>1, <1>3
<1>5. CASE r.type = "begin"
  BY <1>1, <1>2, <1>4, <1>5 DEF After, Live, LiveStatus, r
<1>6. CASE r.type = "write"
  BY <1>1, <1>2, <1>4, <1>6 DEF After, Live, LiveStatus, r
<1>7. CASE r.type = "commit"
  BY <1>1, <1>2, <1>4, <1>7 DEF After, Live, LiveStatus, r
<1>8. CASE r.type = "abort"
  BY <1>1, <1>2, <1>4, <1>8 DEF After, Live, LiveStatus, r
<1> QED BY <1>1, <1>5, <1>6, <1>7, <1>8 DEF RecordTypes

\* The record append returns Ok for is the last one of the history.
LEMMA ReturnWritten ==
    ASSUME TypeOK, NEW r \in Records, Len(file') \in Nat, Return(r)
    PROVE  /\ DOMAIN written' = DOMAIN written \cup {Len(written) + 1}
           /\ \A i \in DOMAIN written : i < Len(written) + 1 /\ written'[i] = written[i]
           /\ written'[Len(written) + 1] = [rec |-> r, at |-> Len(file') - 2]
<1> DEFINE e == [rec |-> r, at |-> Len(file') - 2]
           E == [rec : Records, at : Int]
<1>1. e \in E OBVIOUS
<1>2. /\ written \in Seq(E) /\ Len(written) \in Nat
      /\ DOMAIN written = 1..Len(written) /\ written' = Append(written, e)
  BY Typed DEF Return
<1> HIDE DEF e, E
<1>3. /\ written' \in Seq(E) /\ Len(written') = Len(written) + 1
      /\ \A i \in 1..Len(written) : written'[i] = written[i]
      /\ written'[Len(written) + 1] = e
  BY <1>1, <1>2, AppendProperties
<1>4. DOMAIN written' = 1..Len(written')
  BY <1>3, LenProperties
<1>5. DOMAIN written' = DOMAIN written \cup {Len(written) + 1}
  BY <1>2, <1>3, <1>4
<1>6. \A i \in DOMAIN written : i < Len(written) + 1 /\ written'[i] = written[i]
  BY <1>2, <1>3
<1> QED BY <1>3, <1>5, <1>6 DEF e

\* A write of append behind which it goes on.
LEMMA WriteStep ==
    ASSUME TypeOK, Placed, WritePiece, ~(pending.next = 3 /\ pending.rec.type # "commit")
    PROVE  Placed'
<1> DEFINE r == pending.rec
           n == pending.next
           x == Piece(Parts[n], r)
<1>1. /\ pending # None /\ n < Sync /\ file' = Append(file, x)
      /\ pending' = [pending EXCEPT !.next = n + 1]
      /\ UNCHANGED <<written, status, synced>>
  BY DEF WritePiece
<1>2. /\ r \in Records /\ n \in 1..3 /\ x \in PieceSet
      /\ pending = [rec |-> r, next |-> n]
  BY <1>1, PendingIs DEF Sync
<1>3. pending'.rec = r /\ pending'.next = n + 1 /\ pending' # None
  <2>1. pending' = [rec |-> r, next |-> n + 1] BY <1>1, <1>2
  <2>2. pending' \in [rec : Records, next : 1..Sync] BY <1>2, <2>1 DEF Sync
  <2> QED BY <2>1, <2>2, WalAssumption
<1>4. x.rec = r /\ x.part = Parts[n] BY PieceIs
<1>5. file \in Seq(PieceSet) /\ Len(file) \in Nat BY Typed
<1>6. n = 3 => r.type = "commit" OBVIOUS
<1> HIDE DEF x, r, n
<1>7. /\ Len(file') = Len(file) + 1
      /\ \A q \in 1..Len(file) : file'[q] = file[q]
      /\ file'[Len(file) + 1] = x
  BY <1>1, <1>2, <1>5, AppendFile
<1>8. PendingAllowed'
  BY <1>1, <1>2, <1>3, <1>6 DEF Placed, PendingAllowed, Sync, r, n
<1>9. PendingPieces'
  <2>1. /\ n - 1 =< Len(file)
        /\ \A i \in 1..(n - 1) : file[Len(file) - (n - 1) + i] = Piece(Parts[i], r)
    BY <1>1 DEF Placed, PendingPieces, n, r
  <2>2. (n + 1) - 1 =< Len(file') BY <1>2, <1>5, <1>7, <2>1
  <2>3. ASSUME NEW i \in 1..((n + 1) - 1)
        PROVE  file'[Len(file') - ((n + 1) - 1) + i] = Piece(Parts[i], r)
    <3>1. CASE i = n
      <4>1. Len(file') - ((n + 1) - 1) + i = Len(file) + 1 BY <1>2, <1>5, <1>7, <3>1
      <4> QED BY <1>7, <4>1, <3>1 DEF x
    <3>2. CASE i \in 1..(n - 1)
      <4>1. /\ Len(file') - ((n + 1) - 1) + i = Len(file) - (n - 1) + i
            /\ Len(file) - (n - 1) + i \in 1..Len(file)
        BY <1>2, <1>5, <1>7, <2>1, <3>2
      <4> QED BY <1>7, <2>1, <3>2, <4>1
    <3> QED BY <1>2, <3>1, <3>2
  <2> QED BY <1>3, <2>2, <2>3 DEF PendingPieces
<1>10. Begun' /\ InOrder'
  BY <1>1 DEF Placed, Begun, InOrder, Live
<1>11. InFile'
  <2> SUFFICES ASSUME NEW i \in DOMAIN written, Live(written[i].rec.tx)
               PROVE  /\ written[i].at \in 1..(Len(file') - 2)
                      /\ \E w \in {written[i].at} : Whole(w)' /\ file'[w].rec = written[i].rec
                      /\ status[written[i].rec.tx] = "committed" => written[i].at + 2 =< synced
                      /\ written[i].at + 2 =< Len(file') - n
    <3>1. pending'.next - 1 = n BY <1>2, <1>3
    <3>2. synced' = synced /\ status' = status /\ written' = written BY <1>1
    <3> QED BY <3>1, <3>2 DEF InFile, Live, Whole
  <2>1. InFile BY DEF Placed
  <2>2. /\ written[i].at \in 1..(Len(file') - 2)
        /\ \E w \in {written[i].at} : Whole(w)' /\ file'[w].rec = written[i].rec
    BY <1>1, <1>2, <2>1, KeptByAppend
  <2>3. /\ status[written[i].rec.tx] = "committed" => written[i].at + 2 =< synced
        /\ written[i].at + 2 =< Len(file) - (n - 1)
    BY <1>1, <2>1 DEF InFile, n
  <2>4. written[i].at + 2 =< Len(file') - n
    BY <1>2, <1>5, <1>7, <2>2, <2>3
  <2> QED BY <2>2, <2>3, <2>4
<1>12. Accounted'
  <2> SUFFICES ASSUME NEW p \in 1..(Len(file') - 2), Whole(p)', Live(file'[p].rec.tx)
               PROVE  \/ Own(p)'
                      \/ \E i \in DOMAIN written :
                            written[i].at = p /\ written[i].rec = file'[p].rec
    BY <1>1 DEF Accounted, Live
  <2>1. CASE p \in 1..(Len(file) - 2) /\ Whole(p) /\ file'[p] = file[p]
    BY <2>1, <1>1, <1>2 DEF Placed, Accounted, Own, Sync, n
  <2>2. CASE p = Len(file') - 2 /\ x.part = "checksum" /\ file'[p].rec = x.rec
    <3>0. Parts[n] = "checksum" BY <1>4, <2>2
    <3>1. n = 3
      <4>1. n = 1 \/ n = 2 \/ n = 3 BY <1>2
      <4> QED BY <3>0, <4>1, PartsAre
    <3> QED BY <3>1, <1>3, <1>4, <2>2 DEF Own, Sync
  <2> QED BY <1>1, <1>2, <2>1, <2>2, WholeWithAppend
<1> QED BY <1>8, <1>9, <1>10, <1>11, <1>12 DEF Placed

\* When the pieces in front of it are there, the checksum makes a record whole.
LEMMA WholeAtEnd ==
    ASSUME file' \in Seq(PieceSet), Len(file') \in Nat, 3 =< Len(file'), NEW r,
           \A i \in 1..3 : file'[Len(file') - 3 + i] = Piece(Parts[i], r),
           NEW p, p = Len(file') - 2
    PROVE  p \in 1..(Len(file') - 2) /\ Whole(p)' /\ file'[p].rec = r
<1>1. p \in 1..(Len(file') - 2) /\ p + 2 =< Len(file') OBVIOUS
<1>2. \A i \in 1..3 : Len(file') - 3 + i = p + i - 1 OBVIOUS
<1>3. \A i \in 1..3 : file'[p + i - 1] = Piece(Parts[i], r)
  BY <1>2
<1>4. p + 1 - 1 = p OBVIOUS
<1>5. file'[p].rec = r
  BY <1>3, <1>4, PieceIs
<1> QED BY <1>1, <1>3, <1>5 DEF Whole

\* append returns Ok, from its last write or from the sync: its record joins
\* the others at the end of the file.
LEMMA ReturnStep ==
    ASSUME TypeOK, TypeOK', Placed, pending # None, Return(pending.rec),
           3 =< Len(file'),
           \A i \in 1..3 : file'[Len(file') - 3 + i] = Piece(Parts[i], pending.rec),
           \A i \in DOMAIN written : Live(written[i].rec.tx) =>
              /\ written[i].at \in 1..(Len(file') - 3)
              /\ \E w \in {written[i].at} : Whole(w)' /\ file'[w].rec = written[i].rec,
           synced =< synced',
           pending.rec.type = "commit" => synced' = Len(file'),
           \A p \in 1..(Len(file') - 2) : Whole(p)' =>
              \/ p = Len(file') - 2
              \/ /\ p \in 1..(Len(file) - 2) /\ Whole(p) /\ file'[p] = file[p] /\ ~Own(p)
    PROVE  Placed'
<1> DEFINE r == pending.rec
           last == Len(written) + 1
           L == Len(file')
<1>1. /\ r \in Records /\ r.tx \in Tx
  BY PendingIs
<1>2. file' \in Seq(PieceSet) /\ L \in Nat /\ synced' \in 0..L
  <2>1. file' \in Seq(PieceSet) /\ synced' \in 0..L BY DEF TypeOK, PieceSet
  <2> QED BY <2>1, LenProperties
<1>3. pending' = None BY DEF Return
<1>4. /\ \A t \in Tx : status'[t] \in LiveStatus => Live(t)
      /\ \A t \in Tx : status'[t] = "committed" =>
            status[t] = "committed" \/ (r.type = "commit" /\ t = r.tx)
      /\ \A t \in Tx : status'[t] = "new" => status[t] = "new"
      /\ status'[r.tx] # "new"
  <2>1. PendingAllowed BY DEF Placed
  <2> QED BY <2>1, ReturnStatus
<1>5. /\ DOMAIN written' = DOMAIN written \cup {last}
      /\ \A i \in DOMAIN written : i < last /\ written'[i] = written[i]
      /\ written'[last] = [rec |-> r, at |-> L - 2]
  BY <1>1, <1>2, ReturnWritten
<1>6. written'[last].rec = r /\ written'[last].at = L - 2
  BY <1>5
<1>7. \E p \in {L - 2} : p \in 1..(L - 2) /\ Whole(p)' /\ file'[p].rec = r
  BY <1>2, WholeAtEnd
<1>8. /\ DOMAIN written \subseteq Int
      /\ \A i \in DOMAIN written : written[i].rec.tx \in Tx /\ written[i].at \in Int
      /\ last \in Int
  BY Typed
<1>9. \A p \in 1..L : file'[p] \in PieceSet /\ file'[p].rec.tx \in Tx
  <2>1. \A p \in 1..L : file'[p] \in PieceSet BY <1>2, LenProperties
  <2> QED BY <2>1 DEF PieceSet, Records
<1> HIDE DEF r, last, L
<1>10. PendingAllowed' /\ PendingPieces'
  BY <1>3 DEF PendingAllowed, PendingPieces
<1>11. Begun'
  <2>1. Begun BY DEF Placed
  <2> QED BY <1>4, <1>5, <1>6, <1>8, <2>1 DEF Begun
<1>12. InFile'
  <2> SUFFICES ASSUME NEW i \in DOMAIN written', status'[written'[i].rec.tx] \in LiveStatus
               PROVE  /\ written'[i].at \in 1..(L - 2)
                      /\ \E w \in {written'[i].at} : Whole(w)' /\ file'[w].rec = written'[i].rec
                      /\ status'[written'[i].rec.tx] = "committed" => written'[i].at + 2 =< synced'
    BY <1>3 DEF InFile, Live, Whole, L
  <2>1. CASE i = last
    <3>1. status'[r.tx] = "committed" => L - 2 + 2 =< synced'
      <4>1. ASSUME status'[r.tx] = "committed" PROVE r.type = "commit"
        <5>1. status[r.tx] = "committed" \/ r.type = "commit" BY <1>1, <1>4, <4>1
        <5>2. status[r.tx] # "committed"
          <6>1. /\ PendingAllowed /\ r.type \in RecordTypes BY PendingIs DEF Placed, r
          <6> QED BY <6>1 DEF PendingAllowed, RecordTypes, r
        <5> QED BY <5>1, <5>2
      <4> QED BY <1>2, <4>1 DEF r, L
    <3> QED BY <1>6, <1>7, <2>1, <3>1
  <2>2. CASE i \in DOMAIN written
    <3>1. written'[i] = written[i] BY <1>5, <2>2
    <3>2. Live(written[i].rec.tx) BY <1>4, <1>8, <2>2, <3>1 DEF Live
    <3>3. /\ written[i].at \in 1..(L - 3)
          /\ \E w \in {written[i].at} : Whole(w)' /\ file'[w].rec = written[i].rec
      BY <2>2, <3>2 DEF L
    <3>4. ASSUME status'[written[i].rec.tx] = "committed"
          PROVE  written[i].at + 2 =< synced'
      <4>1. CASE status[written[i].rec.tx] = "committed"
        <5>1. written[i].at + 2 =< synced BY <2>2, <3>2, <4>1 DEF Placed, InFile
        <5>2. synced \in Int BY Typed
        <5> QED BY <1>2, <1>8, <2>2, <5>1, <5>2
      <4>2. CASE r.type = "commit"
        <5>1. synced' = L BY <4>2 DEF r, L
        <5> QED BY <1>2, <3>3, <5>1
      <4> QED BY <1>4, <1>8, <2>2, <3>4, <4>1, <4>2
    <3>5. written[i].at \in 1..(L - 2) BY <1>2, <3>3
    <3> QED BY <3>1, <3>3, <3>4, <3>5
  <2> QED BY <1>5, <2>1, <2>2
<1>13. InOrder'
  <2> SUFFICES ASSUME NEW i \in DOMAIN written', NEW j \in DOMAIN written',
                      status'[written'[i].rec.tx] \in LiveStatus, status'[written'[j].rec.tx] \in LiveStatus, i < j
               PROVE  written'[i].at < written'[j].at
    BY DEF InOrder, Live
  <2>1. i \in DOMAIN written
    BY <1>5, <1>8
  <2>2. written'[i] = written[i] /\ Live(written[i].rec.tx)
    BY <1>4, <1>5, <1>8, <2>1 DEF Live
  <2>3. CASE j = last
    <3>1. written[i].at \in 1..(L - 3) BY <2>1, <2>2 DEF L
    <3> QED BY <1>2, <1>6, <2>2, <2>3, <3>1
  <2>4. CASE j \in DOMAIN written
    <3>1. written'[j] = written[j] /\ Live(written[j].rec.tx)
      BY <1>4, <1>5, <1>8, <2>4 DEF Live
    <3> QED BY <2>1, <2>2, <2>4, <3>1 DEF Placed, InOrder
  <2> QED BY <1>5, <2>3, <2>4
<1>14. Accounted'
  <2> SUFFICES ASSUME NEW p \in 1..(L - 2), Whole(p)', status'[file'[p].rec.tx] \in LiveStatus
               PROVE  \E i \in DOMAIN written' :
                         written'[i].at = p /\ written'[i].rec = file'[p].rec
    BY DEF Accounted, Live, L
  <2>1. CASE p = L - 2
    BY <1>5, <1>6, <1>7, <2>1
  <2>2. CASE p \in 1..(Len(file) - 2) /\ Whole(p) /\ file'[p] = file[p] /\ ~Own(p)
    <3>1. p \in 1..L BY <1>2
    <3>2. Live(file[p].rec.tx) BY <1>4, <1>9, <2>2, <3>1 DEF Live
    <3>3. PICK i \in DOMAIN written : written[i].at = p /\ written[i].rec = file[p].rec
      BY <2>2, <3>2 DEF Placed, Accounted
    <3> QED BY <1>5, <2>2, <3>3
  <2> QED BY <2>1, <2>2 DEF L
<1> QED BY <1>10, <1>11, <1>12, <1>13, <1>14 DEF Placed

\* The write of the checksum of a record that is no Commit.
LEMMA LastWriteStep ==
    ASSUME TypeOK, TypeOK', Placed, WritePiece,
           pending.next = 3, pending.rec.type # "commit"
    PROVE  Placed'
<1> DEFINE r == pending.rec
           x == Piece(Parts[3], r)
<1>1. /\ pending # None /\ file' = Append(file, x) /\ Return(pending.rec)
      /\ synced' = synced
  BY DEF WritePiece
<1>2. r \in Records /\ x \in PieceSet /\ x.rec = r
  BY <1>1, PendingIs, PieceIs DEF Sync
<1>3. file \in Seq(PieceSet) /\ Len(file) \in Nat /\ synced \in Int BY Typed
<1> HIDE DEF x, r
<1>4. /\ Len(file') = Len(file) + 1
      /\ \A q \in 1..Len(file) : file'[q] = file[q]
      /\ file'[Len(file) + 1] = x
  BY <1>1, <1>2, <1>3, AppendFile
<1>5. 3 =< Len(file') /\ \A i \in 1..3 : file'[Len(file') - 3 + i] = Piece(Parts[i], r)
  <2>1. 2 =< Len(file) /\ \A i \in 1..2 : file[Len(file) - 2 + i] = Piece(Parts[i], r)
    <3>1. pending.next - 1 = 2 OBVIOUS
    <3> QED BY <1>1, <3>1 DEF Placed, PendingPieces, r
  <2>2. 3 =< Len(file') BY <1>3, <1>4, <2>1
  <2>3. ASSUME NEW i \in 1..2 PROVE file'[Len(file') - 3 + i] = Piece(Parts[i], r)
    <3>1. Len(file') - 3 + i = Len(file) - 2 + i /\ Len(file) - 2 + i \in 1..Len(file)
      BY <1>3, <1>4, <2>1
    <3> QED BY <1>4, <2>1, <3>1
  <2>4. file'[Len(file') - 3 + 3] = Piece(Parts[3], r)
    <3>1. Len(file') - 3 + 3 = Len(file) + 1 BY <1>3, <1>4
    <3> QED BY <1>4, <3>1 DEF x
  <2>5. \A i \in 1..3 : i = 3 \/ i \in 1..2 OBVIOUS
  <2> QED BY <2>2, <2>3, <2>4, <2>5
<1>6. ASSUME NEW i \in DOMAIN written, Live(written[i].rec.tx)
      PROVE  /\ written[i].at \in 1..(Len(file') - 3)
             /\ \E w \in {written[i].at} : Whole(w)' /\ file'[w].rec = written[i].rec
  <2>1. InFile BY DEF Placed
  <2>2. written[i].at + 2 =< Len(file) - (3 - 1)
    BY <1>1, <1>6, <2>1 DEF InFile
  <2>3. /\ written[i].at \in 1..(Len(file') - 2)
        /\ \E w \in {written[i].at} : Whole(w)' /\ file'[w].rec = written[i].rec
    BY <1>1, <1>2, <1>6, <2>1, KeptByAppend
  <2>4. written[i].at \in 1..(Len(file') - 3)
    BY <1>3, <1>4, <2>2, <2>3
  <2> QED BY <2>3, <2>4
<1>7. ASSUME NEW p \in 1..(Len(file') - 2), Whole(p)'
      PROVE  \/ p = Len(file') - 2
             \/ p \in 1..(Len(file) - 2) /\ Whole(p) /\ file'[p] = file[p] /\ ~Own(p)
  <2>1. ~Own(p) BY DEF Own, Sync
  <2> QED BY <1>1, <1>2, <1>7, <2>1, WholeWithAppend
<1>8. synced =< synced' BY <1>1, <1>3
<1> QED BY <1>1, <1>5, <1>6, <1>7, <1>8, ReturnStep DEF r

\* The sync of a Commit: its transaction's records are all in front of it.
LEMMA SyncStep ==
    ASSUME TypeOK, TypeOK', Placed, SyncCommit
    PROVE  Placed'
<1>1. /\ pending # None /\ pending.next = 4 /\ Return(pending.rec)
      /\ synced' = Len(file) /\ file' = file
  BY DEF SyncCommit, Sync
<1>2. file \in Seq(PieceSet) /\ Len(file) \in Nat /\ synced \in 0..Len(file) BY Typed
<1>3. pending.next - 1 = 3 BY <1>1
<1>4. 3 =< Len(file') /\ \A i \in 1..3 : file'[Len(file') - 3 + i] = Piece(Parts[i], pending.rec)
  BY <1>1, <1>3 DEF Placed, PendingPieces
<1>5. ASSUME NEW i \in DOMAIN written, Live(written[i].rec.tx)
      PROVE  /\ written[i].at \in 1..(Len(file') - 3)
             /\ \E w \in {written[i].at} : Whole(w)' /\ file'[w].rec = written[i].rec
  <2>1. /\ written[i].at \in 1..(Len(file) - 2) /\ Whole(written[i].at)
        /\ file[written[i].at].rec = written[i].rec
        /\ written[i].at + 2 =< Len(file) - 3
    BY <1>1, <1>3, <1>5 DEF Placed, InFile
  <2>2. written[i].at \in 1..(Len(file') - 3)
    BY <1>1, <1>2, <2>1
  <2> QED BY <1>1, <2>1, <2>2 DEF Whole
<1>6. ASSUME NEW p \in 1..(Len(file') - 2), Whole(p)'
      PROVE  \/ p = Len(file') - 2
             \/ p \in 1..(Len(file) - 2) /\ Whole(p) /\ file'[p] = file[p] /\ ~Own(p)
  <2>1. Whole(p) BY <1>1, <1>6 DEF Whole
  <2> QED BY <1>1, <2>1 DEF Own
<1>7. synced =< synced' /\ synced' = Len(file') BY <1>1, <1>2
<1> QED BY <1>1, <1>4, <1>5, <1>6, <1>7, ReturnStep

\* A failed append: nobody becomes live or committed, and the caller of a Commit
\* is unsure.
LEMMA FailStep ==
    ASSUME TypeOK, TypeOK', Placed, FailAppend
    PROVE  Placed'
<1> DEFINE r == pending.rec
           x == Piece("torn", r)
<1>1. /\ pending # None /\ pending' = None
      /\ file' = file \/ (pending.next < Sync /\ file' = Append(file, x))
      /\ status' = [status EXCEPT ![r.tx] = AfterError(r, status[r.tx])]
      /\ synced' = synced /\ written' = written
  BY DEF FailAppend
<1>2. r \in Records /\ r.tx \in Tx /\ x \in PieceSet /\ x.part = "torn"
  BY <1>1, PendingIs, PieceIs
<1>3. /\ file \in Seq(PieceSet) /\ Len(file) \in Nat /\ status \in [Tx -> Statuses]
      /\ \A i \in DOMAIN written : written[i].rec.tx \in Tx /\ written[i].at \in Int
  BY Typed
<1>4. /\ \A t \in Tx : status'[t] \in LiveStatus => status'[t] = status[t]
      /\ \A t \in Tx : status'[t] = "new" => status[t] = "new"
      /\ r.type = "commit" => status'[r.tx] \notin LiveStatus
  <2>1. /\ status'[r.tx] = AfterError(r, status[r.tx])
        /\ \A t \in Tx : t # r.tx => status'[t] = status[t]
    BY <1>1, <1>2, <1>3
  <2> QED BY <2>1 DEF AfterError, LiveStatus
<1> HIDE DEF r, x
<1>5. PendingAllowed' /\ PendingPieces'
  BY <1>1 DEF PendingAllowed, PendingPieces
<1>6. Begun'
  BY <1>1, <1>3, <1>4 DEF Placed, Begun
<1>7. InOrder'
  BY <1>1, <1>3, <1>4 DEF Placed, InOrder, Live
<1>8. InFile'
  <2> SUFFICES ASSUME NEW i \in DOMAIN written, status'[written[i].rec.tx] \in LiveStatus
               PROVE  /\ written[i].at \in 1..(Len(file') - 2)
                      /\ \E w \in {written[i].at} : Whole(w)' /\ file'[w].rec = written[i].rec
                      /\ status'[written[i].rec.tx] = "committed" => written[i].at + 2 =< synced'
    BY <1>1 DEF InFile, Live, Whole
  <2>1. InFile /\ Live(written[i].rec.tx) /\ status'[written[i].rec.tx] = status[written[i].rec.tx]
    BY <1>3, <1>4 DEF Placed, Live
  <2>2. status'[written[i].rec.tx] = "committed" => written[i].at + 2 =< synced'
    BY <1>1, <2>1 DEF InFile
  <2>3. CASE file' = file
    BY <2>1, <2>2, <2>3 DEF InFile, Whole
  <2>4. CASE file' = Append(file, x)
    BY <1>2, <2>1, <2>2, <2>4, KeptByAppend
  <2> QED BY <1>1, <2>3, <2>4
<1>9. Accounted'
  <2> SUFFICES ASSUME NEW p \in 1..(Len(file') - 2), Whole(p)',
                      status'[file'[p].rec.tx] \in LiveStatus
               PROVE  \E i \in DOMAIN written : written[i].at = p /\ written[i].rec = file'[p].rec
    BY <1>1 DEF Accounted, Live
  <2>1. p \in 1..(Len(file) - 2) /\ Whole(p) /\ file'[p] = file[p]
    <3>1. CASE file' = file BY <3>1 DEF Whole
    <3>2. CASE file' = Append(file, x) BY <1>2, <3>2, WholeWithAppend
    <3> QED BY <1>1, <3>1, <3>2
  <2>2. file[p].rec.tx \in Tx BY <1>3, <2>1, Typed
  <2>3. Live(file[p].rec.tx) BY <1>4, <2>1, <2>2 DEF Live
  <2>4. ~Own(p)
    BY <1>1, <1>4, <2>1 DEF Own, Placed, PendingAllowed, r
  <2> QED BY <2>1, <2>3, <2>4 DEF Placed, Accounted
<1> QED BY <1>5, <1>6, <1>7, <1>8, <1>9 DEF Placed

\* A crash: who is live after it was committed, and synced, or has not begun.
LEMMA CrashStep ==
    ASSUME TypeOK, TypeOK', Placed, Crash
    PROVE  Placed'
<1>1. /\ pending' = None /\ written' = written
      /\ \E f \in Survivors(file, synced) : file' = f /\ synced' = Len(f)
      /\ status' = [t \in Tx |->
           IF pending # None /\ pending.rec.tx = t /\ pending.rec.type = "commit" THEN "unsure"
           ELSE IF status[t] = "open" THEN "lost" ELSE status[t]]
  BY DEF Crash
<1>2. /\ file \in Seq(PieceSet) /\ Len(file) \in Nat /\ synced \in 0..Len(file)
      /\ \A i \in DOMAIN written : written[i].rec.tx \in Tx /\ written[i].at \in Int
  BY Typed
<1>3. file' \in Seq(PieceSet) /\ Len(file') \in Nat /\ synced' = Len(file')
  BY <1>1, <1>2, SurvivorsAre, LenProperties
<1>4. PICK k \in synced..Len(file) :
         /\ \A q \in 1..k : file'[q] = file[q]
         /\ \/ Len(file') = k
            \/ Len(file') = k + 1 /\ file'[k + 1].part = "torn"
  BY <1>1, <1>2, SurvivorsAre
<1>5. k \in Nat /\ k =< Len(file) /\ k =< Len(file') /\ synced =< k
  BY <1>2, <1>4
<1>6. /\ \A t \in Tx : status'[t] \in LiveStatus =>
            status'[t] = status[t] /\ status[t] \in {"new", "committed"}
      /\ \A t \in Tx : status'[t] = "new" => status[t] = "new"
      /\ pending # None /\ pending.rec.type = "commit" => status'[pending.rec.tx] \notin LiveStatus
  <2>1. \A t \in Tx : status'[t] \in LiveStatus =>
            status'[t] = status[t] /\ status[t] \in {"new", "committed"}
    BY <1>1 DEF LiveStatus
  <2>2. ASSUME pending # None, pending.rec.type = "commit"
        PROVE  status'[pending.rec.tx] \notin LiveStatus
    <3>1. pending.rec.tx \in Tx BY <2>2, PendingIs
    <3> QED BY <1>1, <2>2, <3>1 DEF LiveStatus
  <2> QED BY <1>1, <2>1, <2>2
<1>7. PendingAllowed' /\ PendingPieces'
  BY <1>1 DEF PendingAllowed, PendingPieces
<1>8. Begun'
  BY <1>1, <1>2, <1>6 DEF Placed, Begun
<1>9. InOrder'
  BY <1>1, <1>2, <1>6 DEF Placed, InOrder, Live
<1>10. InFile'
  <2> SUFFICES ASSUME NEW i \in DOMAIN written, status'[written[i].rec.tx] \in LiveStatus
               PROVE  /\ written[i].at \in 1..(Len(file') - 2)
                      /\ \E w \in {written[i].at} : Whole(w)' /\ file'[w].rec = written[i].rec
                      /\ written[i].at + 2 =< synced'
    BY <1>1 DEF InFile, Live, Whole
  <2> DEFINE p == written[i].at
  <2>1. status[written[i].rec.tx] = "committed" /\ Live(written[i].rec.tx)
    BY <1>2, <1>6 DEF Placed, Begun, Live
  <2>2. /\ p \in 1..(Len(file) - 2) /\ Whole(p) /\ file[p].rec = written[i].rec
        /\ p + 2 =< synced
    BY <2>1 DEF Placed, InFile
  <2> HIDE DEF p
  <2>3. p \in 1..(k - 2) BY <1>2, <1>5, <2>2
  <2>4. \E w \in {p} : (Whole(w)' <=> Whole(w)) /\ file'[w] = file[w]
    BY <1>2, <1>3, <1>4, <1>5, <2>3, WholeKept
  <2>5. p \in 1..(Len(file') - 2) /\ p + 2 =< synced'
    BY <1>3, <1>5, <2>3
  <2> QED BY <2>2, <2>4, <2>5 DEF p
<1>11. Accounted'
  <2> SUFFICES ASSUME NEW p \in 1..(Len(file') - 2), Whole(p)',
                      status'[file'[p].rec.tx] \in LiveStatus
               PROVE  \E i \in DOMAIN written : written[i].at = p /\ written[i].rec = file'[p].rec
    BY <1>1 DEF Accounted, Live
  <2>1. p \in 1..(k - 2)
    <3>1. CASE Len(file') = k BY <1>5, <3>1
    <3>2. CASE Len(file') = k + 1 /\ file'[k + 1].part = "torn"
      <4>1. p + 2 # Len(file')
        BY <1>3, <3>2, WholeLast
      <4> QED BY <1>5, <3>2, <4>1
    <3> QED BY <1>4, <3>1, <3>2
  <2>2. Whole(p) /\ file'[p] = file[p]
    BY <1>2, <1>3, <1>4, <1>5, <2>1, WholeKept
  <2>3. p \in 1..(Len(file) - 2) BY <1>2, <1>5, <2>1
  <2>4. file[p].rec.tx \in Tx BY <1>2, <2>3, Typed
  <2>5. Live(file[p].rec.tx) BY <1>6, <2>2, <2>4 DEF Live
  <2>6. ~Own(p)
    BY <1>6, <2>2 DEF Own, Placed, PendingAllowed
  <2> QED BY <2>2, <2>3, <2>5, <2>6 DEF Placed, Accounted
<1> QED BY <1>7, <1>8, <1>9, <1>10, <1>11 DEF Placed

------------------------------------------------------------------------------
(* The theorems.                                                           *)

\* The empty log.
LEMMA WInvInit == Init => WInv
<1> SUFFICES ASSUME Init PROVE WInv
  OBVIOUS
<1>1. TypeOK
  <2>1. header \in {SubSeq(NewHeader, 1, n) : n \in 0..11}
    <3>1. SubSeq(NewHeader, 1, 0) = <<>> BY SubSeqEmpty
    <3>2. 0 \in 0..11 OBVIOUS
    <3> QED BY <3>1, <3>2 DEF Init
  <2>2. file \in Seq([part : {"length", "payload", "checksum", "torn"}, rec : Records])
        /\ Len(file) = 0 /\ written \in Seq([rec : Records, at : Int])
    BY DEF Init
  <2> QED BY <2>1, <2>2, WalAssumption DEF Init, TypeOK
<1>2. DOMAIN written = {} /\ Len(file) = 0 /\ pending = None
  BY DEF Init
<1> QED BY <1>1, <1>2 DEF WInv, PendingAllowed, PendingPieces, Begun, InFile, InOrder, Accounted

\* WInv is inductive: one step per action.
LEMMA WInvStep == WInv /\ [Next]_vars => WInv'
<1> SUFFICES ASSUME WInv, [Next]_vars PROVE WInv'
  OBVIOUS
<1>0. TypeOK /\ Placed /\ TypeOK'
  BY TypeStep DEF WInv, Placed
<1> SUFFICES Placed'
  BY <1>0 DEF WInv, Placed
<1>1. CASE Open
  BY <1>0, <1>1, SamePlaced DEF Open
<1>2. CASE WriteHeader
  BY <1>0, <1>2, SamePlaced DEF WriteHeader
<1>3. ASSUME NEW t \in Tx, CallerOf(t) PROVE Placed'
  BY <1>0, <1>3, CallerStep
<1>4. CASE WritePiece
  BY <1>0, <1>4, WriteStep, LastWriteStep
<1>5. CASE SyncCommit
  BY <1>0, <1>5, SyncStep
<1>6. CASE FailAppend
  BY <1>0, <1>6, FailStep
<1>7. CASE Crash
  BY <1>0, <1>7, CrashStep
<1>8. CASE UNCHANGED vars
  BY <1>0, <1>8, SamePlaced DEF vars
<1> QED BY <1>1, <1>2, <1>3, <1>4, <1>5, <1>6, <1>7, <1>8 DEF Next

\* The inductive invariant of the log.
THEOREM Invariance == Spec => []WInv
BY WInvInit, WInvStep, PTL DEF Spec

\* The header is always a prefix of the one WalWriter::open writes, the file a
\* sequence of pieces of records, and no more of it synced than there is.
THEOREM TypeCorrect == Spec => []TypeOK
<1>1. WInv => TypeOK BY DEF WInv
<1> QED BY <1>1, Invariance, PTL

\* append keeps the promise of an acknowledged Commit: the records of the
\* transaction are whole, where and in the order append wrote them, in the synced
\* part of the file, and there are no others, after any number of failed writes,
\* failed syncs and crashes.
THEOREM DurableCorrect == Spec => []CommitDurable
<1>1. WInv => CommitDurable
  <2> SUFFICES ASSUME WInv PROVE CommitDurable
    OBVIOUS
  <2>0. /\ Len(file) \in Nat /\ synced \in 0..Len(file)
        /\ \A i \in DOMAIN written : written[i].at \in Int
    BY Typed DEF WInv
  <2>1. ASSUME NEW i \in DOMAIN written, Acknowledged(i)
        PROVE  /\ Live(written[i].rec.tx)
               /\ written[i].at \in 1..(synced - 2)
               /\ Whole(written[i].at) /\ file[written[i].at].rec = written[i].rec
    <3>1. Live(written[i].rec.tx) BY <2>1 DEF Acknowledged, Live, LiveStatus
    <3>2. /\ written[i].at \in 1..(Len(file) - 2)
          /\ Whole(written[i].at) /\ file[written[i].at].rec = written[i].rec
          /\ written[i].at + 2 =< synced
      BY <2>1, <3>1 DEF WInv, InFile, Acknowledged
    <3> QED BY <2>0, <3>1, <3>2
  <2>2. \A i, j \in DOMAIN written :
           Acknowledged(i) /\ Acknowledged(j) /\ i < j => written[i].at < written[j].at
    BY <2>1 DEF WInv, InOrder
  <2>3. ASSUME NEW p \in 1..(synced - 2), Whole(p), status[file[p].rec.tx] = "committed"
        PROVE  \E i \in DOMAIN written : written[i].at = p /\ written[i].rec = file[p].rec
    <3>1. p \in 1..(Len(file) - 2) BY <2>0
    <3>2. Live(file[p].rec.tx) BY <2>3 DEF Live, LiveStatus
    <3>3. ~Own(p)
      BY <2>3 DEF WInv, PendingAllowed, Own
    <3> QED BY <2>3, <3>1, <3>2, <3>3 DEF WInv, Accounted
  <2> QED BY <2>1, <2>2, <2>3 DEF CommitDurable
<1> QED BY <1>1, Invariance, PTL

------------------------------------------------------------------------------
(* Commit records, acknowledged or not.                                    *)

\* The places at which a Commit record begins, whether the rest follows or not.
Commits == {p \in 1..Len(file) : file[p].part = "length" /\ file[p].rec.type = "commit"}

\* The caller whose Commit record r is has asked for it, and append has written
\* the first piece.
Over(r) ==
    \/ status[r.tx] \in {"committed", "unsure", "undone"}
    \/ pending # None /\ pending.rec = r /\ pending.next # 1

\* What the caller was told before is whole in front of p ...
Ahead(p) ==
    \A i \in DOMAIN written :
        written[i].rec.tx = file[p].rec.tx /\ written[i].rec.type \in {"begin", "write"} =>
            /\ written[i].at \in 1..(p - 3)
            /\ Whole(written[i].at) /\ file[written[i].at].rec = written[i].rec

\* ... nothing else of the transaction is ...
Told(p) ==
    \A q \in 1..(p - 3) :
        Whole(q) /\ file[q].rec.tx = file[p].rec.tx /\ file[q].rec.type # "abort" =>
            \E i \in DOMAIN written : written[i].at = q /\ written[i].rec = file[q].rec

\* ... and behind p only an Abort can begin.
Last(p) ==
    \A q \in (p + 1)..Len(file) :
        file[q].part = "length" /\ file[q].rec.tx = file[p].rec.tx =>
            file[q].rec.type = "abort"

CInv == \A p \in Commits : Over(file[p].rec) /\ Ahead(p) /\ Told(p) /\ Last(p)

\* The file keeps its first k pieces, with at most one behind them that does not
\* begin a record of a transaction that is over.
Keeps(k) ==
    /\ k \in 0..Len(file) /\ k =< Len(file') /\ Len(file') =< k + 1
    /\ \A q \in 1..k : file'[q] = file[q]
    /\ Len(file') = k + 1 /\ file'[k + 1].part = "length" =>
          \A r \in Records : r.type = "commit" /\ Over(r) /\ file'[k + 1].rec.tx = r.tx =>
              file'[k + 1].rec.type = "abort"

\* The history keeps its records, and a new one is an Abort if its transaction is over.
Remembers ==
    /\ DOMAIN written \subseteq DOMAIN written'
    /\ \A i \in DOMAIN written : written'[i] = written[i]
    /\ \A i \in DOMAIN written' \ DOMAIN written, r \in Records :
          r.type = "commit" /\ Over(r) /\ written'[i].rec.tx = r.tx =>
              written'[i].rec.type \notin {"begin", "write"}

\* Such a step disturbs no Commit among the pieces that stay.
LEMMA CommitKept ==
    ASSUME TypeOK, TypeOK', CInv, NEW k, Keeps(k), Remembers,
           NEW p \in 1..k, file[p].part = "length", file[p].rec.type = "commit"
    PROVE  Ahead(p)' /\ Told(p)' /\ Last(p)'
<1>1. /\ file \in Seq(PieceSet) /\ file' \in Seq(PieceSet)
      /\ Len(file) \in Nat /\ Len(file') \in Nat
  <2>1. file \in Seq(PieceSet) /\ file' \in Seq(PieceSet)
    BY DEF TypeOK, PieceSet
  <2> QED BY <2>1, LenProperties
<1>2. /\ k \in Nat /\ k =< Len(file) /\ k =< Len(file') /\ Len(file') =< k + 1
      /\ \A q \in 1..k : file'[q] = file[q]
      /\ p \in 1..Len(file) /\ p =< k /\ p \in Nat
  BY <1>1 DEF Keeps
<1>3. p \in Commits /\ file'[p] = file[p] /\ file[p].rec \in Records
  <2>1. file[p] \in PieceSet BY <1>2, Typed
  <2>2. file[p].rec \in Records BY <2>1 DEF PieceSet
  <2> QED BY <1>2, <2>2 DEF Commits
<1>4. Over(file[p].rec) /\ Ahead(p) /\ Told(p) /\ Last(p)
  BY <1>3 DEF CInv
<1>5. ASSUME NEW q \in 1..(p - 3)
      PROVE  file'[q] = file[q] /\ (Whole(q)' <=> Whole(q))
  <2>1. q \in 1..(k - 2) BY <1>2
  <2> QED BY <1>1, <1>2, <2>1, WholeKept
<1>6. Ahead(p)'
  <2> SUFFICES ASSUME NEW i \in DOMAIN written',
                      written'[i].rec.tx = file[p].rec.tx,
                      written'[i].rec.type \in {"begin", "write"}
               PROVE  /\ written'[i].at \in 1..(p - 3)
                      /\ \E w \in {written'[i].at} :
                            Whole(w)' /\ file'[w].rec = written'[i].rec
    BY <1>3 DEF Ahead, Whole
  <2>1. i \in DOMAIN written /\ written'[i] = written[i]
    BY <1>3, <1>4 DEF Remembers
  <2>2. /\ written[i].at \in 1..(p - 3)
        /\ Whole(written[i].at) /\ file[written[i].at].rec = written[i].rec
    BY <1>4, <2>1 DEF Ahead
  <2>3. PICK w \in 1..(p - 3) : w = written[i].at BY <2>2
  <2>4. Whole(w)' /\ file'[w].rec = written[i].rec
    BY <1>5, <2>2, <2>3
  <2> QED BY <2>1, <2>2, <2>3, <2>4
<1>7. Told(p)'
  <2> SUFFICES ASSUME NEW q \in 1..(p - 3), Whole(q)',
                      file'[q].rec.tx = file'[p].rec.tx, file'[q].rec.type # "abort"
               PROVE  \E i \in DOMAIN written' :
                         written'[i].at = q /\ written'[i].rec = file'[q].rec
    BY DEF Told
  <2>1. file'[q] = file[q] /\ Whole(q) BY <1>5
  <2>2. PICK i \in DOMAIN written : written[i].at = q /\ written[i].rec = file[q].rec
    BY <1>3, <1>4, <2>1 DEF Told
  <2> QED BY <2>1, <2>2 DEF Remembers
<1>8. Last(p)'
  <2> SUFFICES ASSUME NEW q \in (p + 1)..Len(file'), file'[q].part = "length",
                      file'[q].rec.tx = file'[p].rec.tx
               PROVE  file'[q].rec.type = "abort"
    BY DEF Last
  <2>1. CASE q \in 1..k
    <3>1. q \in (p + 1)..Len(file) /\ file'[q] = file[q] BY <1>1, <1>2, <2>1
    <3> QED BY <1>3, <1>4, <3>1 DEF Last
  <2>2. CASE q = k + 1 /\ Len(file') = k + 1
    BY <1>3, <1>4, <2>2 DEF Keeps
  <2> QED BY <1>1, <1>2, <2>1, <2>2
<1> QED BY <1>6, <1>7, <1>8

\* So CInv is kept, if who was over stays so and no other Commit begins.
LEMMA CommitsKept ==
    ASSUME TypeOK, TypeOK', CInv, NEW k, Keeps(k), Remembers,
           \A r \in Records : r.type = "commit" /\ Over(r) => Over(r)',
           Len(file') = k + 1 /\ file'[k + 1].part = "length" =>
              file'[k + 1].rec.type # "commit"
    PROVE  CInv'
<1> SUFFICES ASSUME NEW p \in 1..Len(file'), file'[p].part = "length",
                    file'[p].rec.type = "commit"
             PROVE  Over(file[p].rec)' /\ Ahead(p)' /\ Told(p)' /\ Last(p)'
  BY DEF CInv, Commits
<1>1. p \in 1..k /\ k =< Len(file) /\ k \in Nat
  <2>1. Len(file) \in Nat /\ Len(file') \in Nat
    <3>1. file \in Seq(PieceSet) /\ file' \in Seq(PieceSet)
      BY DEF TypeOK, PieceSet
    <3> QED BY <3>1, LenProperties
  <2> QED BY <2>1 DEF Keeps
<1>2. file'[p] = file[p] BY <1>1 DEF Keeps
<1>3. Ahead(p)' /\ Told(p)' /\ Last(p)'
  BY <1>1, <1>2, CommitKept
<1>4. p \in Commits /\ file[p].rec \in Records
  <2>1. p \in 1..Len(file) BY <1>1, Typed
  <2>2. file[p] \in PieceSet BY <2>1, Typed
  <2>3. file[p].rec \in Records BY <2>2 DEF PieceSet
  <2> QED BY <1>2, <2>1, <2>3 DEF Commits
<1>5. \E r \in Records : r = file[p].rec /\ r.type = "commit" /\ Over(r)
  BY <1>2, <1>4 DEF CInv
<1> QED BY <1>2, <1>3, <1>5 DEF Over

\* What was asked for stays so, if the caller learns something about its record.
LEMMA AskedKept ==
    ASSUME TypeOK, PendingAllowed, pending # None, NEW t \in Tx, AskedToCommit(t),
           NEW s, s \in {After(pending.rec, status[pending.rec.tx]),
                         AfterError(pending.rec, status[pending.rec.tx])},
           status' = [status EXCEPT ![pending.rec.tx] = s]
    PROVE  status'[t] \in {"committed", "unsure", "undone"}
<1>1. PICK r : r = pending.rec OBVIOUS
<1>2. /\ r.tx \in Tx /\ r.type \in RecordTypes /\ status \in [Tx -> Statuses]
      /\ r.type = "begin" => status[r.tx] = "new"
      /\ r.type \in {"write", "commit"} => status[r.tx] = "open"
      /\ r.type = "abort" => status[r.tx] \in {"open", "unsure"}
  BY <1>1, PendingIs, Typed DEF PendingAllowed
<1>3. /\ t # r.tx => status'[t] = status[t] /\ status[t] \in {"committed", "unsure", "undone"}
      /\ t = r.tx => status'[t] = s
      /\ t = r.tx /\ r.type # "commit" => status[t] \in {"committed", "unsure", "undone"}
  BY <1>1, <1>2 DEF AskedToCommit
<1>4. s = After(r, status[r.tx]) \/ s = AfterError(r, status[r.tx])
  BY <1>1
<1>5. CASE t # r.tx BY <1>3, <1>5
<1>6. CASE t = r.tx /\ r.type = "commit"
  BY <1>3, <1>4, <1>6 DEF After, AfterError
<1>7. CASE t = r.tx /\ r.type = "abort"
  BY <1>2, <1>3, <1>4, <1>7 DEF After, AfterError
<1>8. CASE t = r.tx /\ r.type \in {"begin", "write"}
  BY <1>2, <1>3, <1>8
<1> QED BY <1>2, <1>5, <1>6, <1>7, <1>8 DEF RecordTypes

\* A step that leaves the file and the history alone, and lets no Commit be
\* forgotten.
LEMMA SameCommits ==
    ASSUME TypeOK, TypeOK', CInv, UNCHANGED <<file, written>>,
           \A r \in Records : r.type = "commit" /\ Over(r) => Over(r)'
    PROVE  CInv'
<1>1. Len(file) \in Nat BY Typed
<1>2. Keeps(Len(file)) BY <1>1 DEF Keeps
<1>3. Remembers BY DEF Remembers
<1> QED BY <1>1, <1>2, <1>3, CommitsKept

\* What append does when it returns keeps the history, and no Commit is forgotten.
LEMMA ReturnRemembers ==
    ASSUME TypeOK, TypeOK', PendingAllowed, pending # None, Return(pending.rec)
    PROVE  Remembers /\ \A r \in Records : r.type = "commit" /\ Over(r) => Over(r)'
<1>1. PICK r \in Records : r = pending.rec BY PendingIs
<1>2. /\ r.tx \in Tx /\ r.type \in RecordTypes /\ pending' = None
      /\ status' = [status EXCEPT ![r.tx] = After(r, status[r.tx])]
  BY <1>1, PendingIs DEF Return
<1>3. PICK n \in Nat :
        /\ DOMAIN written' = DOMAIN written \cup {n}
        /\ \A i \in DOMAIN written : written'[i] = written[i]
        /\ written'[n].rec = r
  <2>1. file' \in Seq(PieceSet) BY DEF TypeOK, PieceSet
  <2>2. Len(file') \in Nat BY <2>1, LenProperties
  <2>3. Len(written) + 1 \in Nat BY Typed
  <2>4. /\ DOMAIN written' = DOMAIN written \cup {Len(written) + 1}
        /\ \A i \in DOMAIN written : written'[i] = written[i]
        /\ written'[Len(written) + 1] = [rec |-> r, at |-> Len(file') - 2]
    BY <1>1, <2>2, ReturnWritten
  <2>5. written'[Len(written) + 1].rec = r BY <2>4
  <2> QED BY <2>3, <2>4, <2>5
<1>4. ASSUME NEW c \in Records, c.type = "commit", Over(c), r.tx = c.tx
      PROVE  r.type \notin {"begin", "write"}
  BY <1>1, <1>4 DEF Over, PendingAllowed
<1>5. Remembers
  BY <1>3, <1>4 DEF Remembers
<1>6. ASSUME NEW c \in Records, c.type = "commit", Over(c) PROVE Over(c)'
  <2>1. PICK t \in Tx : t = c.tx /\ AskedToCommit(t)
    <3>1. c.tx \in Tx BY DEF Records
    <3> QED BY <1>6, <3>1 DEF Over, AskedToCommit
  <2>2. PICK s : s = After(r, status[r.tx]) OBVIOUS
  <2>3. status'[t] \in {"committed", "unsure", "undone"}
    BY <1>1, <1>2, <2>1, <2>2, AskedKept
  <2> QED BY <2>1, <2>3 DEF Over
<1> QED BY <1>5, <1>6

\* One of the three writes of append, the first of a Commit apart.
LEMMA PieceCommits ==
    ASSUME TypeOK, TypeOK', PendingAllowed, CInv, WritePiece,
           ~(pending.next = 1 /\ pending.rec.type = "commit")
    PROVE  CInv'
<1>1. PICK r \in Records, n \in 1..3 :
         pending # None /\ pending = [rec |-> r, next |-> n] /\ r = pending.rec /\ n = pending.next
  BY PendingIs DEF WritePiece, Sync
<1>2. PICK x \in PieceSet : x = Piece(Parts[n], r) /\ x.part = Parts[n] /\ x.rec = r
  BY <1>1, PendingIs, PieceIs DEF Sync
<1>3. file' = Append(file, x) BY <1>1, <1>2 DEF WritePiece
<1>4. /\ Len(file) \in Nat /\ Len(file') = Len(file) + 1
      /\ \A q \in 1..Len(file) : file'[q] = file[q]
      /\ file'[Len(file) + 1] = x
  BY <1>3, Typed, AppendFile
<1>5. x.part = "length" => n = 1
  <2>1. n = 1 \/ n = 2 \/ n = 3 OBVIOUS
  <2>2. x.part = Parts[n] BY <1>2
  <2> QED BY <2>1, <2>2, PartsAre
<1>6. Keeps(Len(file))
  <2>1. ASSUME n = 1, NEW c \in Records, c.type = "commit", Over(c), r.tx = c.tx
        PROVE  r.type = "abort"
    <3>1. r.type \in RecordTypes BY DEF Records
    <3>2. status[c.tx] \in {"committed", "unsure", "undone"} BY <1>1, <2>1 DEF Over
    <3> QED BY <1>1, <2>1, <3>1, <3>2 DEF PendingAllowed, RecordTypes
  <2> QED BY <1>2, <1>4, <1>5, <2>1 DEF Keeps
<1>7. Remembers /\ \A c \in Records : c.type = "commit" /\ Over(c) => Over(c)'
  <2>1. CASE Return(pending.rec) BY <1>1, <2>1, ReturnRemembers
  <2>2. CASE pending' = [pending EXCEPT !.next = @ + 1] /\ UNCHANGED <<written, status>>
    <3>1. pending' = [rec |-> r, next |-> n + 1] BY <1>1, <2>2
    <3>2. pending' \in [rec : Records, next : 1..Sync] BY <3>1 DEF Sync
    <3>3. pending' # None /\ pending'.rec = r /\ pending'.next # 1
      BY <3>1, <3>2, WalAssumption
    <3> QED BY <1>1, <2>2, <3>3 DEF Remembers, Over
  <2> QED BY <2>1, <2>2 DEF WritePiece
<1>8. x.part = "length" => r.type # "commit" BY <1>1, <1>5
<1> QED BY <1>2, <1>4, <1>6, <1>7, <1>8, CommitsKept

\* The first write of a Commit: its transaction is open, so what append wrote for
\* it is whole in front, and nothing else is.
LEMMA CommitBegins ==
    ASSUME TypeOK, TypeOK', Placed, CInv, WritePiece,
           pending.next = 1, pending.rec.type = "commit"
    PROVE  CInv'
<1>1. PICK r \in Records :
         pending # None /\ pending = [rec |-> r, next |-> 1] /\ r = pending.rec
  BY PendingIs DEF WritePiece
<1>2. PICK x \in PieceSet : x = Piece(Parts[1], r) /\ x.part = "length" /\ x.rec = r
  BY <1>1, PendingIs, PieceIs, PartsAre DEF Sync
<1>3. /\ file' = Append(file, x) /\ UNCHANGED <<written, status>>
      /\ pending' = [rec |-> r, next |-> 2]
  BY <1>1, <1>2 DEF WritePiece
<1>4. /\ Len(file) \in Nat /\ Len(file') = Len(file) + 1
      /\ \A q \in 1..Len(file) : file'[q] = file[q]
      /\ file'[Len(file) + 1] = x
      /\ file \in Seq(PieceSet) /\ file' \in Seq(PieceSet)
  BY <1>3, Typed, AppendFile
<1>5. pending' # None /\ pending'.rec = r /\ pending'.next # 1
  <2>1. pending' \in [rec : Records, next : 1..Sync] BY <1>3 DEF Sync
  <2> QED BY <1>3, <2>1, WalAssumption
<1>6. r.tx \in Tx /\ status[r.tx] = "open" /\ Live(r.tx)
  BY <1>1, PendingIs DEF Placed, PendingAllowed, Live, LiveStatus
<1>7. Keeps(Len(file)) /\ Remembers
  <2>1. ASSUME NEW c \in Records, c.type = "commit", Over(c), r.tx = c.tx PROVE FALSE
    BY <1>1, <1>6, <2>1 DEF Over
  <2> QED BY <1>2, <1>3, <1>4, <2>1 DEF Keeps, Remembers
<1>8. ASSUME NEW q \in 1..(Len(file) - 2)
      PROVE  file'[q] = file[q] /\ (Whole(q)' <=> Whole(q))
  BY <1>4, WholeKept
<1>9. PICK last \in Nat : last = Len(file) + 1 BY <1>4
<1>10. Ahead(last)'
  <2>0. file'[last].rec = r /\ written' = written BY <1>2, <1>3, <1>4, <1>9
  <2> SUFFICES ASSUME NEW i \in DOMAIN written, written[i].rec.tx = r.tx
               PROVE  /\ written[i].at \in 1..(last - 3)
                      /\ \E w \in {written[i].at} :
                            Whole(w)' /\ file'[w].rec = written[i].rec
    BY <2>0 DEF Ahead, Whole
  <2>1. /\ written[i].at \in 1..(Len(file) - 2)
        /\ Whole(written[i].at) /\ file[written[i].at].rec = written[i].rec
    BY <1>6 DEF Placed, InFile
  <2>2. PICK w \in 1..(Len(file) - 2) : w = written[i].at BY <2>1
  <2>3. Whole(w)' /\ file'[w].rec = written[i].rec BY <1>8, <2>1, <2>2
  <2>4. last - 3 = Len(file) - 2 BY <1>4, <1>9
  <2> QED BY <2>1, <2>2, <2>3, <2>4
<1>11. Told(last)'
  <2> SUFFICES ASSUME NEW q \in 1..(last - 3), Whole(q)', file'[q].rec.tx = r.tx
               PROVE  \E i \in DOMAIN written :
                         written[i].at = q /\ written[i].rec = file'[q].rec
    BY <1>2, <1>3, <1>4, <1>9 DEF Told
  <2>1. q \in 1..(Len(file) - 2) BY <1>4, <1>9
  <2>2. file'[q] = file[q] /\ Whole(q) BY <1>8, <2>1
  <2>3. ~Own(q) BY DEF Own, Sync
  <2> QED BY <1>6, <2>1, <2>2, <2>3 DEF Placed, Accounted
<1>12. Last(last)'
  BY <1>4, <1>9 DEF Last
<1>13. Over(file[last].rec)'
  BY <1>2, <1>4, <1>5, <1>9 DEF Over
<1> SUFFICES ASSUME NEW p \in 1..Len(file'), file'[p].part = "length",
                    file'[p].rec.type = "commit"
             PROVE  Over(file[p].rec)' /\ Ahead(p)' /\ Told(p)' /\ Last(p)'
  BY DEF CInv, Commits
<1>14. CASE p = last BY <1>10, <1>11, <1>12, <1>13, <1>14
<1>15. CASE p \in 1..Len(file)
  <2>1. file'[p] = file[p] /\ p \in Commits BY <1>4, <1>15 DEF Commits
  <2>2. Over(file[p].rec) BY <2>1 DEF CInv
  <2>3. Over(file[p].rec)'
    BY <1>1, <1>3, <1>5, <2>1, <2>2 DEF Over
  <2> QED BY <1>7, <1>15, <2>1, <2>3, CommitKept
<1> QED BY <1>4, <1>9, <1>14, <1>15

\* A failed append.
LEMMA FailCommits ==
    ASSUME TypeOK, TypeOK', PendingAllowed, CInv, FailAppend
    PROVE  CInv'
<1>1. PICK r \in Records : pending # None /\ r = pending.rec
  BY PendingIs DEF FailAppend
<1>2. PICK x \in PieceSet : x = Piece("torn", r) /\ x.part = "torn"
  BY <1>1, PendingIs, PieceIs
<1>3. /\ file' = file \/ file' = Append(file, x)
      /\ status' = [status EXCEPT ![r.tx] = AfterError(r, status[r.tx])]
      /\ written' = written
  BY <1>1, <1>2 DEF FailAppend
<1>4. ASSUME NEW c \in Records, c.type = "commit", Over(c) PROVE Over(c)'
  <2>1. PICK t \in Tx : t = c.tx /\ AskedToCommit(t)
    <3>1. c.tx \in Tx BY DEF Records
    <3> QED BY <1>4, <3>1 DEF Over, AskedToCommit
  <2>2. PICK s : s = AfterError(r, status[r.tx]) OBVIOUS
  <2>3. status'[t] \in {"committed", "unsure", "undone"}
    BY <1>1, <1>3, <2>1, <2>2, AskedKept
  <2> QED BY <2>1, <2>3 DEF Over
<1>5. CASE file' = file BY <1>3, <1>4, <1>5, SameCommits
<1>6. CASE file' = Append(file, x)
  <2>1. /\ Len(file) \in Nat /\ Len(file') = Len(file) + 1
        /\ \A q \in 1..Len(file) : file'[q] = file[q]
        /\ file'[Len(file) + 1] = x
    BY <1>6, Typed, AppendFile
  <2>2. Keeps(Len(file)) /\ Remembers BY <1>2, <1>3, <2>1 DEF Keeps, Remembers
  <2> QED BY <1>2, <1>4, <2>1, <2>2, CommitsKept
<1> QED BY <1>3, <1>5, <1>6

\* A crash.
LEMMA CrashCommits ==
    ASSUME TypeOK, TypeOK', CInv, Crash
    PROVE  CInv'
<1>1. /\ written' = written
      /\ \E f \in Survivors(file, synced) : file' = f
      /\ status' = [t \in Tx |->
           IF pending # None /\ pending.rec.tx = t /\ pending.rec.type = "commit" THEN "unsure"
           ELSE IF status[t] = "open" THEN "lost" ELSE status[t]]
  BY DEF Crash
<1>2. file \in Seq(PieceSet) /\ Len(file) \in Nat /\ synced \in 0..Len(file)
  BY Typed
<1>3. PICK k \in synced..Len(file) :
         /\ \A q \in 1..k : file'[q] = file[q]
         /\ \/ Len(file') = k
            \/ Len(file') = k + 1 /\ file'[k + 1].part = "torn"
  BY <1>1, <1>2, SurvivorsAre
<1>4. Keeps(k) BY <1>2, <1>3 DEF Keeps
<1>5. Remembers BY <1>1 DEF Remembers
<1>6. ASSUME NEW c \in Records, c.type = "commit", Over(c) PROVE Over(c)'
  <2>1. c.tx \in Tx BY DEF Records
  <2> QED BY <1>1, <1>6, <2>1 DEF Over
<1>7. ~(Len(file') = k + 1 /\ file'[k + 1].part = "length") BY <1>2, <1>3
<1> QED BY <1>4, <1>5, <1>6, <1>7, CommitsKept

\* CInv is inductive, beside WInv.
LEMMA CInvStep == WInv /\ WInv' /\ CInv /\ [Next]_vars => CInv'
<1> SUFFICES ASSUME WInv, WInv', CInv, [Next]_vars PROVE CInv'
  OBVIOUS
<1>0. TypeOK /\ TypeOK' /\ PendingAllowed /\ Placed BY DEF WInv, Placed
<1>1. CASE Open
  <2>1. UNCHANGED <<file, written, status, pending>> BY <1>1 DEF Open
  <2>2. \A r \in Records : Over(r) => Over(r)' BY <2>1 DEF Over
  <2> QED BY <1>0, <2>1, <2>2, SameCommits
<1>2. CASE WriteHeader
  <2>1. UNCHANGED <<file, written, status, pending>> BY <1>2 DEF WriteHeader
  <2>2. \A r \in Records : Over(r) => Over(r)' BY <2>1 DEF Over
  <2> QED BY <1>0, <2>1, <2>2, SameCommits
<1>3. ASSUME NEW t \in Tx, CallerOf(t) PROVE CInv'
  <2>1. pending = None /\ UNCHANGED <<file, written, status>>
    BY <1>3 DEF CallerOf, StartAppend
  <2>2. \A r \in Records : Over(r) => Over(r)' BY <2>1 DEF Over
  <2> QED BY <1>0, <2>1, <2>2, SameCommits
<1>4. CASE WritePiece
  BY <1>0, <1>4, PieceCommits, CommitBegins
<1>5. CASE SyncCommit
  <2>1. pending # None /\ Return(pending.rec) /\ file' = file
    BY <1>5 DEF SyncCommit
  <2>2. Remembers /\ \A r \in Records : r.type = "commit" /\ Over(r) => Over(r)'
    BY <1>0, <2>1, ReturnRemembers
  <2>3. Len(file) \in Nat BY <1>0, Typed
  <2>4. Keeps(Len(file)) BY <2>1, <2>3 DEF Keeps
  <2> QED BY <1>0, <2>1, <2>2, <2>3, <2>4, CommitsKept
<1>6. CASE FailAppend
  BY <1>0, <1>6, FailCommits
<1>7. CASE Crash
  BY <1>0, <1>7, CrashCommits
<1>8. CASE UNCHANGED vars
  <2>1. UNCHANGED <<file, written, status, pending>> BY <1>8 DEF vars
  <2>2. \A r \in Records : Over(r) => Over(r)' BY <2>1 DEF Over
  <2> QED BY <1>0, <2>1, <2>2, SameCommits
<1> QED BY <1>1, <1>2, <1>3, <1>4, <1>5, <1>6, <1>7, <1>8 DEF Next

\* What CInv says of the Commits that have begun holds of those that are whole.
LEMMA CommitsAtomic == TypeOK /\ CInv => CommitAtomic
<1> SUFFICES ASSUME TypeOK, CInv, NEW p \in 1..Len(file), Whole(p),
                    file[p].rec.type = "commit"
             PROVE  /\ AskedToCommit(file[p].rec.tx)
                    /\ Ahead(p)
                    /\ \A q \in 1..Len(file) :
                          q # p /\ Whole(q) /\ file[q].rec.tx = file[p].rec.tx
                                /\ file[q].rec.type # "abort" =>
                             /\ q < p
                             /\ \E i \in DOMAIN written :
                                   written[i].at = q /\ written[i].rec = file[q].rec
  BY DEF CommitAtomic, Ahead
<1>1. ASSUME NEW q \in 1..Len(file), Whole(q)
      PROVE  /\ file[q].part = "length" /\ q + 2 =< Len(file)
             /\ file[q + 1].part = "payload" /\ file[q + 2].part = "checksum"
  <2>1. \A i \in 1..3 : file[q + i - 1].part = Parts[i]
    BY <1>1, WholeIs, PieceIs
  <2>2. q + 1 - 1 = q /\ q + 2 - 1 = q + 1 /\ q + 3 - 1 = q + 2 OBVIOUS
  <2>3. Parts[1] = "length" /\ Parts[2] = "payload" /\ Parts[3] = "checksum"
    BY PartsAre
  <2>4. file[q + 1 - 1].part = Parts[1] /\ file[q + 2 - 1].part = Parts[2]
        /\ file[q + 3 - 1].part = Parts[3]
    BY <2>1
  <2> QED BY <1>1, <2>2, <2>3, <2>4, WholeIs
<1>2. p \in Commits BY <1>1 DEF Commits
<1>3. Over(file[p].rec) /\ Ahead(p) /\ Told(p) /\ Last(p) BY <1>2 DEF CInv
<1>4. AskedToCommit(file[p].rec.tx) BY <1>3 DEF Over, AskedToCommit
<1>5. ASSUME NEW q \in 1..Len(file), q # p, Whole(q),
             file[q].rec.tx = file[p].rec.tx, file[q].rec.type # "abort"
      PROVE  /\ q < p
             /\ \E i \in DOMAIN written : written[i].at = q /\ written[i].rec = file[q].rec
  <2>0. Len(file) \in Nat BY Typed
  <2>1. file[q].part = "length" BY <1>1, <1>5
  <2>2. q \notin (p + 1)..Len(file) BY <1>3, <1>5, <2>1 DEF Last
  <2>3. q < p BY <1>5, <2>0, <2>2
  <2>4. q # p - 1 /\ q # p - 2
    <3>1. q + 1 # p /\ q + 2 # p BY <1>1, <1>5
    <3> QED BY <3>1
  <2>5. q \in 1..(p - 3) BY <2>3, <2>4
  <2> QED BY <1>3, <1>5, <2>3, <2>5 DEF Told
<1> QED BY <1>3, <1>4, <1>5

\* All or nothing, for every Commit record that can be read, whether its sync
\* succeeded or not: it was asked for, all its caller was told stands whole in
\* front of it, and nothing else of the transaction is in the file.
THEOREM AtomicCorrect == Spec => []CommitAtomic
<1>1. Init => CInv
  <2> SUFFICES ASSUME Init PROVE CInv
    OBVIOUS
  <2>1. Len(file) = 0 BY DEF Init
  <2> QED BY <2>1 DEF CInv, Commits
<1>2. WInv /\ CInv /\ [Next]_vars => (WInv /\ CInv)'
  BY WInvStep, CInvStep
<1>3. Spec => [](WInv /\ CInv)
  BY WInvInit, <1>1, <1>2, PTL DEF Spec
<1>4. WInv /\ CInv => CommitAtomic
  BY CommitsAtomic DEF WInv
<1> QED BY <1>3, <1>4, PTL

==============================================================================
