---------------------------------- MODULE Wal ----------------------------------
(***************************************************************************)
(* sabi-storage/src/wal.rs: the log file, its writer and its reader.       *)
(*                                                                         *)
(* append writes a record with three calls of write_all (length, payload,  *)
(* checksum) and syncs the file after a Commit record only.  A call can    *)
(* fail, the process can die between two calls or inside one, and what was *)
(* not synced can be lost; the log is opened again in append mode, behind  *)
(* whatever is in the file.                                                *)
(*                                                                         *)
(* The file is its header, byte by byte, and the sequence of the pieces    *)
(* written behind it: the length, the payload or the checksum of a record, *)
(* or a torn one of which only some bytes arrived.  A record can be read   *)
(* when its three pieces follow each other; anything else gives a short    *)
(* read or a checksum that does not match, an error in both cases.  A      *)
(* transaction id is the sequence of the 16 bytes of its UUID.             *)
(*                                                                         *)
(* The callers are external: the engine logs only Put and Delete (module   *)
(* StorageEngine), the other records are part of the interface and of      *)
(* replay_wal.  A caller begins, writes, commits or aborts, tries again a  *)
(* Begin, Put or Delete that failed, and aborts when its Commit failed.    *)
(***************************************************************************)
EXTENDS Integers, Sequences

CONSTANTS
    Tx,             \* transaction ids, sequences of 16 bytes
    Key,            \* keys of Put and Delete
    None,           \* no record being written, no key, no replay
    MaxPieces,      \* bound: pieces in the file when an append starts
    MaxFaults,      \* bound: failed writes and syncs
    MaxCrashes      \* bound: crashes

\* Put and Delete, which the log treats alike, are "write".
RecordTypes == {"begin", "write", "commit", "abort"}
Records == [type : RecordTypes, tx : Tx, key : Key \cup {None}]
Record(type, t, k) == [type |-> type, tx |-> t, key |-> k]
Piece(part, r) == [part |-> part, rec |-> r]
Parts == <<"length", "payload", "checksum">>
Sync == 4       \* the step of append behind its three writes

ASSUME WalAssumption ==
    /\ \A t \in Tx : t \in [1..16 -> 0..255]
    /\ {MaxPieces, MaxFaults, MaxCrashes} \subseteq Nat
    /\ None \notin [rec : Records, next : 1..Sync]

VARIABLES
    header,     \* the header, the first bytes of the file
    writer,     \* "closed", "opening" while open writes the header, "open"
    file,       \* the pieces behind the header
    synced,     \* pieces known to be on disk
    pending,    \* the record append is writing, and its next step
    written,    \* history: the records append returned Ok for, and where they begin
    status,     \* history: what the caller of each transaction knows
    faults, crashes

vars == <<header, writer, file, synced, pending, written, status, faults, crashes>>

------------------------------------------------------------------------------
(* WalWriter                                                               *)

\* WAL_MAGIC, WAL_VERSION and two reserved bytes, as open writes them.
Magic == <<83, 65, 66, 73, 87, 65, 76>>
Version == 1
NewHeader == Magic \o <<Version % 256, Version \div 256>> \o <<0, 0>>

\* No file yet.
Init ==
    /\ header = <<>> /\ writer = "closed"
    /\ file = <<>> /\ synced = 0
    /\ pending = None
    /\ written = <<>>
    /\ status = [t \in Tx |-> "new"]
    /\ faults = 0 /\ crashes = 0

\* WalWriter::open: the header is written if the file is empty.
Open ==
    /\ writer = "closed"
    /\ writer' = IF header = <<>> THEN "opening" ELSE "open"
    /\ UNCHANGED <<header, file, synced, pending, written, status, faults, crashes>>

\* Mutation: the version goes to the file before the magic.
WriteHeader_VersionFirst ==
    /\ writer = "opening"
    /\ \E n \in {7, 9, 11} :
          /\ n > Len(header) /\ \A m \in {7, 9} : m > Len(header) => n =< m
          /\ header' = SubSeq(<<Version % 256, Version \div 256>> \o Magic \o <<0, 0>>, 1, n)
          /\ writer' = IF n = 11 THEN "open" ELSE writer
    /\ UNCHANGED <<file, synced, pending, written, status, faults, crashes>>

\* Its three writes: magic, version and reserved bytes, and the sync.
WriteHeader ==
    /\ writer = "opening"
    /\ \E n \in {7, 9, 11} :
          /\ n > Len(header) /\ \A m \in {7, 9} : m > Len(header) => n =< m
          /\ header' = SubSeq(NewHeader, 1, n)
          /\ writer' = IF n = 11 THEN "open" ELSE writer
    /\ UNCHANGED <<file, synced, pending, written, status, faults, crashes>>

\* append(r) takes the lock of the file.
StartAppend(r) ==
    /\ writer = "open" /\ pending = None /\ Len(file) < MaxPieces
    /\ pending' = [rec |-> r, next |-> 1]
    /\ UNCHANGED <<header, writer, file, synced, written, status, faults, crashes>>

\* What the caller knows when append has returned Ok.
After(r, s) ==
    CASE r.type = "begin" -> "open"
      [] r.type = "commit" -> "committed"
      [] r.type = "abort" -> IF s = "unsure" THEN "undone" ELSE "aborted"
      [] OTHER -> s

\* What it knows after an error: nothing about a Commit.
AfterError(r, s) == IF r.type = "commit" THEN "unsure" ELSE s

\* append returns Ok; the last three pieces of the file are the record's.
Return(r) ==
    /\ pending' = None
    /\ written' = Append(written, [rec |-> r, at |-> Len(file') - 2])
    /\ status' = [status EXCEPT ![r.tx] = After(r, @)]

\* One write_all of append.  After the checksum it returns, unless the record
\* is a Commit.
WritePiece ==
    /\ pending # None /\ pending.next < Sync
    /\ LET r == pending.rec
       IN  /\ file' = Append(file, Piece(Parts[pending.next], r))
           /\ IF pending.next = 3 /\ r.type # "commit"
              THEN Return(r)
              ELSE /\ pending' = [pending EXCEPT !.next = @ + 1]
                   /\ UNCHANGED <<written, status>>
    /\ UNCHANGED <<header, writer, synced, faults, crashes>>

\* Mutation: a Commit is not synced.
SyncCommit_Skipped ==
    /\ pending # None /\ pending.next = Sync
    /\ UNCHANGED <<header, writer, file, synced, faults, crashes>>
    /\ Return(pending.rec)

\* sync_data after a Commit.
SyncCommit ==
    /\ pending # None /\ pending.next = Sync
    /\ synced' = Len(file)
    /\ UNCHANGED <<header, writer, file, faults, crashes>>
    /\ Return(pending.rec)

\* Mutation: the result of write_all is not looked at.
FailAppend_Ignored ==
    /\ pending # None /\ faults < MaxFaults
    /\ faults' = faults + 1
    /\ UNCHANGED <<header, writer, file, synced, crashes>>
    /\ Return(pending.rec)

\* A write or the sync fails: append returns the error and what is in the file
\* stays there, some bytes of the piece it was writing included.
FailAppend ==
    /\ pending # None /\ faults < MaxFaults
    /\ faults' = faults + 1
    /\ \/ UNCHANGED file
       \/ pending.next < Sync /\ file' = Append(file, Piece("torn", pending.rec))
    /\ pending' = None
    /\ status' = [status EXCEPT ![pending.rec.tx] = AfterError(pending.rec, @)]
    /\ UNCHANGED <<header, writer, synced, written, crashes>>

\* What can be on disk of the sequence of pieces f when the first n are synced:
\* any prefix that holds those, and some bytes of the next piece.
Survivors(f, n) ==
    {SubSeq(f, 1, k) : k \in n..Len(f)} \cup
    {Append(SubSeq(f, 1, k), Piece("torn", f[k + 1].rec)) : k \in n..(Len(f) - 1)}

\* The process or the machine goes down; transactions not committed are lost,
\* and the caller of a Commit in progress never hears of it.  A header cut
\* inside one of its three writes is as short as one cut before it.
Crash ==
    /\ crashes < MaxCrashes /\ writer # "closed"
    /\ crashes' = crashes + 1
    /\ writer' = "closed"
    /\ IF writer = "opening"
       THEN \E n \in {0, 7, 9} : n =< Len(header) /\ header' = SubSeq(header, 1, n)
       ELSE UNCHANGED header
    /\ \E f \in Survivors(file, synced) : file' = f /\ synced' = Len(f)
    /\ pending' = None
    /\ status' = [t \in Tx |->
          IF pending # None /\ pending.rec.tx = t /\ pending.rec.type = "commit" THEN "unsure"
          ELSE IF status[t] = "open" THEN "lost" ELSE status[t]]
    /\ UNCHANGED <<written, faults>>

\* A caller of transaction t.
CallerOf(t) ==
    \/ status[t] = "new" /\ StartAppend(Record("begin", t, None))
    \/ status[t] = "open" /\ \E k \in Key : StartAppend(Record("write", t, k))
    \/ status[t] = "open" /\ StartAppend(Record("commit", t, None))
    \/ status[t] \in {"open", "unsure"} /\ StartAppend(Record("abort", t, None))

Next ==
    \/ Open
    \/ WriteHeader
    \/ \E t \in Tx : CallerOf(t)
    \/ WritePiece
    \/ SyncCommit
    \/ FailAppend
    \/ Crash

Spec == Init /\ [][Next]_vars

------------------------------------------------------------------------------
(* WalReader                                                               *)

\* WalReader::open: eleven bytes that start with the magic and have the version
\* in the two that the code calls header[6] and header[7], counting from zero.
Accepts ==
    /\ Len(header) = 11 /\ SubSeq(header, 1, 7) = Magic
    /\ header[7] + 256 * header[8] = Version

\* serialize_record stores to_bytes_le of the id, which turns round the bytes
\* of the first three fields; deserialize_record takes the bytes as they are.
ByteOrder == <<4, 3, 2, 1, 6, 5, 8, 7, 9, 10, 11, 12, 13, 14, 15, 16>>
Decoded(t) == [i \in 1..16 |-> t[ByteOrder[i]]]
DecodedRecord(r) == [r EXCEPT !.tx = Decoded(@)]

\* read_next at position p finds a record: its length, its payload and the
\* checksum that fits.
Whole(p) ==
    /\ p + 2 =< Len(file)
    /\ \A i \in 1..3 : file[p + i - 1] = Piece(Parts[i], file[p].rec)

\* read_next until None or an error: the records read, and whether the end of
\* the file was reached.
ReadAll ==
    LET from[p \in 1..(Len(file) + 3)] ==
            IF p > Len(file) THEN [ok |-> TRUE, recs |-> <<>>]
            ELSE IF ~Whole(p) THEN [ok |-> FALSE, recs |-> <<>>]
            ELSE [ok |-> from[p + 3].ok,
                  recs |-> <<DecodedRecord(file[p].rec)>> \o from[p + 3].recs]
    IN  from[1]

\* replay_wal: the committed transactions are known when all is read; then the
\* records are filtered.
Replayed(recs) ==
    LET committed == {recs[i].tx : i \in {i \in DOMAIN recs : recs[i].type = "commit"}}
    IN  SelectSeq(recs, LAMBDA r : r.type # "abort" /\ r.tx \in committed)

\* What replay_wal returns; None, an error, if open refuses the header or a record
\* cannot be read.
Replay == IF Accepts /\ ReadAll.ok THEN Replayed(ReadAll.recs) ELSE None

------------------------------------------------------------------------------
(* Properties                                                              *)

\* Type invariant.
TypeOK ==
    /\ header \in {SubSeq(NewHeader, 1, n) : n \in 0..11}
    /\ writer \in {"closed", "opening", "open"}
    /\ file \in Seq([part : {"length", "payload", "checksum", "torn"}, rec : Records])
    /\ synced \in 0..Len(file)
    /\ pending \in [rec : Records, next : 1..Sync] \cup {None}
    /\ written \in Seq([rec : Records, at : Int])
    /\ status \in [Tx -> {"new", "open", "committed", "aborted", "undone", "unsure", "lost"}]
    /\ faults \in 0..MaxFaults /\ crashes \in 0..MaxCrashes

\* The caller knows that the i-th record is committed.
Acknowledged(i) == status[written[i].rec.tx] = "committed"

\* Durability: once append returned Ok for the Commit record, all the records of
\* the transaction are whole in the synced part of the file, where append wrote
\* them and in that order, and no other record is there for it; no crash, failed
\* append or torn piece of another transaction takes them out of it.
CommitDurable ==
    /\ \A i \in DOMAIN written : Acknowledged(i) =>
          LET p == written[i].at
          IN  p \in 1..(synced - 2) /\ Whole(p) /\ file[p].rec = written[i].rec
    /\ \A i, j \in DOMAIN written :
          Acknowledged(i) /\ Acknowledged(j) /\ i < j => written[i].at < written[j].at
    /\ \A p \in 1..(synced - 2) : Whole(p) /\ status[file[p].rec.tx] = "committed" =>
          \E i \in DOMAIN written : written[i].at = p /\ written[i].rec = file[p].rec

\* The caller of t has called append with its Commit record.
AskedToCommit(t) ==
    \/ status[t] \in {"committed", "unsure", "undone"}
    \/ pending # None /\ pending.rec.type = "commit" /\ pending.rec.tx = t

\* All or nothing: a Commit record that is whole in the file, acknowledged or not,
\* was asked for and is the only one of its transaction; every Begin, Put and
\* Delete the caller got an Ok for is whole in front of it, and no other is there.
\* So whoever takes a readable Commit for the end of a transaction has all of it,
\* after failed and repeated appends, torn pieces and crashes too, and although
\* nothing but a Commit is synced.
CommitAtomic ==
    \A p \in 1..Len(file) : Whole(p) /\ file[p].rec.type = "commit" =>
        LET t == file[p].rec.tx
        IN  /\ AskedToCommit(t)
            /\ \A i \in DOMAIN written :
                  written[i].rec.tx = t /\ written[i].rec.type \in {"begin", "write"} =>
                      LET q == written[i].at
                      IN  q \in 1..(p - 3) /\ Whole(q) /\ file[q].rec = written[i].rec
            /\ \A q \in 1..Len(file) :
                  q # p /\ Whole(q) /\ file[q].rec.tx = t /\ file[q].rec.type # "abort" =>
                      /\ q < p
                      /\ \E i \in DOMAIN written :
                            written[i].at = q /\ written[i].rec = file[q].rec

------------------------------------------------------------------------------
(* What the comments of wal.rs say and the code does not keep.             *)

\* "If the system crashes, all committed transactions can be replayed from the
\* log": replay_wal reads every log that holds an acknowledged Commit.
CommittedReplayable ==
    (\E t \in Tx : status[t] = "committed") /\ pending = None => Replay # None

==============================================================================
