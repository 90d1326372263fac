------------------------------- MODULE Body -------------------------------
(***************************************************************************)
(* The encrypted body of a vault or of a sealed file, from what a user     *)
(* keeps in it to the chunks on the disk and back: records (tag, length,   *)
(* value) written one after another, secret fields enciphered by one       *)
(* running keystream under a key of each save's own, padding, and chunks   *)
(* of a fixed size.  A vault is read chunk by chunk, as is a sealed file   *)
(* when it is extracted; to list a sealed file, or to add to it, the whole *)
(* body is read first.                                                     *)
(*                                                                         *)
(* A byte is <<n, k, p>>: the byte n, enciphered by the byte at position p *)
(* of the keystream of key k, or plain when k is 0.  A record's header     *)
(* stands for six bytes and is two bytes here.  What the ciphers promise   *)
(* is taken for granted: the chunks of a file are those that were written. *)
(* Records that only another version of the program knows are left out.    *)
(***************************************************************************)
EXTENDS Integers, Sequences, SequencesExt

CONSTANTS
  Title,       \* titles of entries, paths of files
  Length,      \* the lengths a field, or a file, may have
  ChunkLen,    \* length of a chunk
  PartLen,     \* longest part of a file in one record
  MaxField, MaxEntry,   \* the longest field and entry that are read
  Padding,     \* lengths of the padding
  MaxEdits, MaxSaves    \* bounds

ASSUME LengthAssumption == Title \cup Length \cup Padding \subseteq Nat /\ 0 \notin Title
ASSUME SizeAssumption   == {ChunkLen, PartLen, MaxField, MaxEntry} \subseteq Nat \ {0}
ASSUME BoundsAssumption == {MaxEdits, MaxSaves} \subseteq Nat

VARIABLES
  kind,      \* "vault" or "sealed"
  open,      \* a program holds the contents
  content,   \* its entries, or files
  chunks,      \* the chunks of the file
  version,   \* number of saves: each has a key of that number
  rd,        \* the reader
  edits,
  meant,     \* history: the contents as the user put them
  saved      \* history: `meant' when the file was written

bodyVars == <<kind, open, content, chunks, version, rd, edits, meant, saved>>

Byte(n)     == <<n, 0, 0>>
Garbage     == Byte(-1)
Bytes(n, l) == [i \in 1 .. l |-> Byte(n)]

\* The cipher at position p of the keystream of k: it undoes what it did.
Xor(c, k, p) ==
  IF c[2] = 0 THEN <<c[1], k, p>>
  ELSE IF <<c[2], c[3]>> = <<k, p>> THEN Byte(c[1]) ELSE Garbage

Keystream(s, k, p) == [i \in DOMAIN s |-> Xor(s[i], k, p + i - 1)]

-----------------------------------------------------------------------------
(* Entries.  A field is plain (key 0), or enciphered as it was read.       *)

TITLE    == 1
PASSWORD == 2
NOTES    == 3
OTP      == 4
Protected == {PASSWORD, OTP}

Field(tag, s) == [tag |-> tag, ct |-> s, key |-> 0, at |-> 0]

\* Mutant: a field is deciphered by the key of the last save.
ExposeByLast(f) == IF f.key = 0 THEN f.ct ELSE Keystream(f.ct, version, f.at)

Expose(f) == IF f.key = 0 THEN f.ct ELSE Keystream(f.ct, f.key, f.at)

NewEntry(t, n, pw, notes, otp) ==
  <<Field(TITLE, <<Byte(t)>>), Field(PASSWORD, Bytes(n, pw)), Field(NOTES, Bytes(n, notes))>>
    \o (IF otp THEN <<Field(OTP, Bytes(n, 1))>> ELSE << >>)

Meaning(e) == [i \in DOMAIN e |-> <<e[i].tag, Expose(e[i])>>]
View       == [i \in DOMAIN content |-> IF kind = "vault" THEN Meaning(content[i]) ELSE content[i]]

-----------------------------------------------------------------------------
(* Writing.  What is written is what the fields mean, a pair of tag and    *)
(* text each: a secret one that was read is deciphered first.              *)

END       == 0
KEY       == 5
ENTRY     == 6
FILE_HDR  == 7
FILE_PART == 8
FILE_END  == 9

Record(tag, s) == <<Byte(tag), Byte(Len(s))>> \o s

Written(m) == FlattenSeq([i \in DOMAIN m |-> Record(m[i][1], m[i][2])])

Secrets(m) == FlattenSeq([i \in DOMAIN m |-> IF m[i][1] \in Protected THEN m[i][2] ELSE << >>])

\* Where in the keystream the i-th field of an entry begins, and the i-th entry.
FieldAt(m, i)  == Len(Secrets(SubSeq(m, 1, i - 1)))
EntryAt(ms, i) == Len(FlattenSeq([j \in 1 .. i - 1 |-> Secrets(ms[j])]))

Enciphered(m, k, p) ==
  [i \in DOMAIN m |->
     <<m[i][1], IF m[i][1] \in Protected THEN Keystream(m[i][2], k, p + FieldAt(m, i)) ELSE m[i][2]>>]

\* Mutant: the keystream starts anew with each entry.
EntryTextAnew(ms, k, i) == Written(Enciphered(ms[i], k, 0))

EntryText(ms, k, i) == Written(Enciphered(ms[i], k, EntryAt(ms, i)))

Payload(ms, k) ==
  Record(KEY, <<Byte(k)>>)
    \o FlattenSeq([i \in DOMAIN ms |-> Record(ENTRY, EntryText(ms, k, i))])
    \o Record(END, << >>)

\* A file's header holds its path and its size; its body follows in parts.
Parts(s) ==
  [i \in 1 .. (Len(s) + PartLen - 1) \div PartLen |->
     Record(FILE_PART, SubSeq(s, (i - 1) * PartLen + 1,
                              IF i * PartLen < Len(s) THEN i * PartLen ELSE Len(s)))]

FileRecords(f) == <<Record(FILE_HDR, <<Byte(f.path), Byte(Len(f.body))>>)>> \o Parts(f.body)

FileText(f)     == FlattenSeq(FileRecords(f))
FilesText(fs)   == FlattenSeq([i \in DOMAIN fs |-> FileText(fs[i])])
ArchiveText(fs) == FilesText(fs) \o Record(FILE_END, << >>)

\* Full chunks, then the rest as the last one, be it empty.
Chunked(s) ==
  LET n == Len(s) \div ChunkLen
  IN [i \in 1 .. n + 1 |-> [last |-> i = n + 1,
                            bytes |-> SubSeq(s, (i - 1) * ChunkLen + 1,
                                             IF i = n + 1 THEN Len(s) ELSE i * ChunkLen)]]

-----------------------------------------------------------------------------
(* Reading.                                                                *)

Unread == [phase |-> "idle", way |-> "vault", rest |-> << >>, pending |-> << >>,
           key |-> 0, at |-> 0, got |-> << >>, part |-> << >>, end |-> FALSE]

HeaderLen == 2
Limit     == IF rd.way = "vault" THEN MaxEntry ELSE PartLen + 2
Short     == Len(rd.pending) < HeaderLen
Length0   == rd.pending[2][1]
Value     == SubSeq(rd.pending, HeaderLen + 1, HeaderLen + Length0)

\* Mutant: a vault's reader, too, refuses half of a header.
MalformedEither ==
  IF Short THEN rd.pending # << >> ELSE Length0 > Limit

\* The archive's reader refuses half of a header; half of a value it waits for.
Malformed ==
  IF Short THEN rd.way # "vault" /\ rd.pending # << >> ELSE Length0 > Limit

Partial == IF Short THEN TRUE ELSE Len(rd.pending) < HeaderLen + Length0

\* The fields of an entry that was read: each begins where the last one ends.
Fields(s) ==
  LET start[i \in 0 .. Len(s)] ==
        IF i = 0 THEN 1
        ELSE IF start[i - 1] > Len(s) THEN start[i - 1]
        ELSE start[i - 1] + HeaderLen + s[start[i - 1] + 1][1]
      n == CHOOSE n \in 0 .. Len(s) :
             start[n] > Len(s) /\ \A i \in 0 .. n - 1 : start[i] <= Len(s)
  IN [i \in 1 .. n |-> <<s[start[i - 1]][1], SubSeq(s, start[i - 1] + HeaderLen, start[i] - 1)>>]

\* A secret field stays enciphered, with its place in the keystream.
Sealed(m, k, p) ==
  [i \in DOMAIN m |-> IF m[i][1] \in Protected
                         THEN [tag |-> m[i][1], ct |-> m[i][2], key |-> k, at |-> p + FieldAt(m, i)]
                         ELSE Field(m[i][1], m[i][2])]

-----------------------------------------------------------------------------
BodyInit ==
  /\ kind \in {"vault", "sealed"}
  /\ open = TRUE /\ content = << >> /\ chunks = << >> /\ version = 0
  /\ rd = Unread /\ edits = 0 /\ meant = << >> /\ saved = << >>

Edit ==
  /\ open /\ edits < MaxEdits
  /\ edits' = edits + 1
  /\ UNCHANGED <<kind, open, chunks, version, rd, saved>>

AddEntry(t, pw, notes, otp) ==
  LET e == NewEntry(t, edits + 1, pw, notes, otp) IN
  /\ Edit /\ kind = "vault"
  /\ content' = Append(content, e)
  /\ meant' = Append(meant, Meaning(e))

Titled(t) == {i \in DOMAIN content : content[i][1].ct = <<Byte(t)>>}
First(P)  == CHOOSE i \in P : \A j \in P : i <= j

\* A field of the first entry of that title gets a new value; a one-time-code
\* secret may be new to it.
Changed(e, i, x) == IF i \in DOMAIN e THEN [e EXCEPT ![i] = x] ELSE Append(e, x)

ChangeEntry(t, f, l) ==
  LET i == First(Titled(t))
      s == Bytes(edits + 1, l)
  IN /\ Edit /\ kind = "vault"
     /\ Titled(t) # {}
     /\ content' = [content EXCEPT ![i] = Changed(@, f, Field(f, s))]
     /\ meant' = [meant EXCEPT ![i] = Changed(@, f, <<f, s>>)]

\* Those of s whose places are in P.
Those(s, P) == FlattenSeq([i \in DOMAIN s |-> IF i \in P THEN <<s[i]>> ELSE << >>])

\* Every entry of that title goes.
RemoveEntry(t) ==
  LET others == DOMAIN content \ Titled(t) IN
  /\ Edit /\ kind = "vault"
  /\ Titled(t) # {}
  /\ content' = Those(content, others) /\ meant' = Those(meant, others)

\* A file takes the place of the one of its path; paths are in order.
PutFile(t, l) ==
  LET f      == [path |-> t, body |-> Bytes(edits + 1, l)]
      Put(s) == Those(s, {i \in DOMAIN s : s[i].path < t}) \o <<f>>
                  \o Those(s, {i \in DOMAIN s : s[i].path > t})
  IN /\ Edit /\ kind = "sealed"
     /\ content' = Put(content) /\ meant' = Put(meant)

Text(ms, k) == IF kind = "vault" THEN Payload(ms, k) ELSE ArchiveText(ms)

SaveBody(pad) ==
  /\ open /\ version < MaxSaves
  /\ chunks' = Chunked(Text(View, version + 1) \o Bytes(0, pad))
  /\ version' = version + 1 /\ saved' = meant
  /\ UNCHANGED <<kind, open, content, rd, edits, meant>>

CloseBody ==
  /\ open /\ chunks # << >>
  /\ open' = FALSE /\ content' = << >> /\ meant' = saved /\ rd' = Unread
  /\ UNCHANGED <<kind, chunks, version, edits, saved>>

\* Chunk c, when `rest' is what is left with it, has the mark it should have.
Authentic(c, rest) == c.last = (Len(rest) = 1)

\* Reading begins.  For a list of the files every chunk is deciphered first.
OpenBody(way) ==
  LET whole == FlattenSeq([i \in DOMAIN chunks |-> chunks[i].bytes]) IN
  /\ ~open /\ rd.phase \in {"idle", "done", "failed"}
  /\ way \in IF kind = "vault" THEN {"vault"} ELSE {"list", "extract"}
  /\ rd' = [Unread EXCEPT !.way = way, !.phase = "chunk",
              !.rest = IF way = "list" THEN <<[last |-> Last(chunks).last, bytes |-> whole]>>
                                       ELSE chunks]
  /\ UNCHANGED <<kind, open, content, chunks, version, edits, meant, saved>>

Step(r) == rd' = r /\ UNCHANGED <<kind, open, content, chunks, version, edits, meant, saved>>
Fail    == Step([rd EXCEPT !.phase = "failed"])

\* What was left of the last chunk comes first.
Fed(c) == [rd EXCEPT !.rest = Tail(@), !.phase = "record", !.pending = @ \o c.bytes]

\* After the end of an archive only zeros may come.
NextChunk ==
  /\ rd.phase = "chunk" /\ rd.rest # << >>
  /\ LET c == Head(rd.rest) IN
       IF ~Authentic(c, rd.rest) THEN Fail
       ELSE IF rd.end /\ rd.way # "vault"
         THEN IF ToSet(c.bytes) \subseteq {Byte(0)} THEN Step([rd EXCEPT !.rest = Tail(@)]) ELSE Fail
       ELSE Step(Fed(c))

Wait == rd.phase = "record" /\ ~Malformed /\ Partial /\ Step([rd EXCEPT !.phase = "chunk"])

Refuse == rd.phase = "record" /\ Malformed /\ Fail

\* The record of that tag is complete; r is the reader without it.
Reading(tag) == rd.phase = "record" /\ ~Malformed /\ ~Partial /\ rd.pending[1][1] = tag
Beyond       == [rd EXCEPT !.pending = SubSeq(@, HeaderLen + Length0 + 1, Len(@))]

ReadKey == Reading(KEY) /\ Step([Beyond EXCEPT !.key = Value[1][1]])

ReadEntry ==
  /\ Reading(ENTRY)
  /\ LET m == Fields(Value) IN
       IF rd.key = 0 \/ \E i \in DOMAIN m : Len(m[i][2]) > MaxField
         THEN Fail ELSE Step([Beyond EXCEPT !.got = Append(@, Sealed(m, rd.key, rd.at)),
                                            !.at = @ + Len(Secrets(m))])

\* The end of a vault's records: the padding reads as the same once more.
ReadEnd == Reading(END) /\ rd.way = "vault"
           /\ Step([Beyond EXCEPT !.end = TRUE, !.phase = "chunk"])

\* A file is complete when the next one begins, or the archive ends.
Complete(r) ==
  [r EXCEPT !.part = << >>,
            !.got = IF r.part = << >> THEN @
                    ELSE Append(@, [path |-> r.part[1].path, body |-> r.part[1].body])]
WrongSize == rd.part # << >> /\ Len(rd.part[1].body) # rd.part[1].size

ReadHeader ==
  /\ Reading(FILE_HDR)
  /\ IF WrongSize THEN Fail
     ELSE Step([Complete(Beyond) EXCEPT
                  !.part = <<[path |-> Value[1][1], size |-> Value[2][1], body |-> << >>]>>])

ReadPart ==
  /\ Reading(FILE_PART)
  /\ LET file == rd.part[1] IN
       IF rd.part = << >> \/ Len(file.body) + Length0 > file.size THEN Fail
       ELSE Step([Beyond EXCEPT !.part = <<[path |-> file.path, size |-> file.size,
                                            body |-> file.body \o Value]>>])

ReadFileEnd ==
  /\ Reading(FILE_END)
  /\ IF WrongSize THEN Fail
     ELSE Step([Complete(Beyond) EXCEPT !.end = TRUE, !.phase = "chunk"])

\* All chunks are read.  A program that lists a sealed file goes on with its files.
FinishReading ==
  /\ rd.phase = "chunk" /\ rd.rest = << >>
  /\ IF \/ ~rd.end \/ rd.part # << >>
        \/ (rd.way = "vault" /\ rd.key = 0)
        \/ (rd.way = "extract" /\ ~(ToSet(rd.pending) \subseteq {Byte(0)}))
       THEN Fail
     ELSE IF rd.way = "extract" THEN Step([rd EXCEPT !.phase = "done", !.pending = << >>])
     ELSE /\ open' = TRUE /\ content' = rd.got /\ rd' = Unread
          /\ UNCHANGED <<kind, chunks, version, edits, meant, saved>>

BodyNext ==
  \/ \E t \in Title, pw, notes \in Length, otp \in BOOLEAN : AddEntry(t, pw, notes, otp)
  \/ \E t \in Title, f \in PASSWORD .. OTP, l \in Length : ChangeEntry(t, f, l)
  \/ \E t \in Title : RemoveEntry(t)
  \/ \E t \in Title, l \in Length : PutFile(t, l)
  \/ \E pad \in Padding : SaveBody(pad)
  \/ CloseBody
  \/ \E way \in {"vault", "list", "extract"} : OpenBody(way)
  \/ NextChunk \/ Wait \/ Refuse \/ ReadKey \/ ReadEntry \/ ReadEnd
  \/ ReadHeader \/ ReadPart \/ ReadFileEnd \/ FinishReading

BodySpec == BodyInit /\ [][BodyNext]_bodyVars

-----------------------------------------------------------------------------
IsByte(b) == b[1] \in Int /\ b[2] \in 0 .. MaxSaves /\ b[3] \in Nat
IsText(s) == \A i \in DOMAIN s : IsByte(s[i])

BodyTypeOK ==
  /\ kind \in {"vault", "sealed"} /\ open \in BOOLEAN
  /\ \A i \in DOMAIN chunks : IsText(chunks[i].bytes) /\ Len(chunks[i].bytes) <= ChunkLen
  /\ version \in 0 .. MaxSaves /\ edits \in 0 .. MaxEdits
  /\ rd.phase \in {"idle", "chunk", "record", "done", "failed"}
  /\ rd.way \in {"vault", "list", "extract"}
  /\ IsText(rd.pending) /\ rd.key \in 0 .. version /\ rd.at \in Nat
  /\ open => rd = Unread

\* What a program that has a vault or a sealed file open shows is what the user
\* put there, whatever was edited, saved and opened again before: secret fields
\* of earlier saves keep their own key and place while new keys come and go
\* (C19); and what a reader has gathered so far is the beginning of what was
\* saved, across every cut between two chunks.
ReadsWhatWasMeant ==
  /\ BodyTypeOK
  /\ open => View = meant
  /\ rd.phase # "idle" =>
       LET got == [i \in DOMAIN rd.got |-> IF kind = "vault" THEN Meaning(rd.got[i]) ELSE rd.got[i]]
       IN IsPrefix(got, saved) /\ (rd.phase = "done" => got = saved)

\* No byte of the keystream serves twice within a file: two secrets enciphered
\* by the same bytes would betray one another (C19).
KeystreamOnce ==
  LET whole   == FlattenSeq([i \in DOMAIN chunks |-> chunks[i].bytes])
      secrets == {i \in DOMAIN whole : whole[i][2] # 0}
  IN \A i, j \in secrets :
       i # j => <<whole[i][2], whole[i][3]>> # <<whole[j][2], whole[j][3]>>

\* A field, or an entry, that is written but never read again.
TooLong(e) ==
  (\E i \in DOMAIN e : Len(e[i][2]) > MaxField) \/ Len(Written(e)) > MaxEntry

\* A header of the archive lies across two chunks.
HeaderSplit ==
  LET Cut(n)   == (n + 1) % ChunkLen = 0
      At(i, k) == Len(FilesText(SubSeq(saved, 1, i - 1)))
                    + Len(FlattenSeq(SubSeq(FileRecords(saved[i]), 1, k - 1)))
  IN \/ Cut(Len(FilesText(saved)))
     \/ \E i \in DOMAIN saved : \E k \in DOMAIN FileRecords(saved[i]) : Cut(At(i, k))

\* What was written opens again, wherever its chunks end and whatever it is
\* padded with, but for two cases, in which it never does: a vault with a field
\* or an entry beyond the limits that only reading knows, and the extraction of
\* a sealed file one of whose headers is cut by the end of a chunk.
OpensUnless ==
  /\ rd.phase = "failed" =>
       IF kind = "vault" THEN \E i \in DOMAIN saved : TooLong(saved[i])
                         ELSE rd.way = "extract" /\ HeaderSplit
  /\ kind = "vault" => \A i \in DOMAIN rd.got : ~TooLong(saved[i])
  /\ rd.phase = "done" => ~HeaderSplit

\* "Incremental parsers (UC-23 file archive) may receive partial records"
\* (tlv.rs:45): an undamaged sealed file can be extracted.
ArchiveExtracts == kind = "sealed" => rd.phase # "failed"
=============================================================================
