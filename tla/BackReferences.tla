---------------------------- MODULE BackReferences ----------------------------
(***************************************************************************)
(* The hooks that read and write values by reference to earlier bytes of   *)
(* the message: DNS names (bytesmith-protocols) and blobs (bytesmith).     *)
(*                                                                         *)
(* A writer appends names and blobs to what the message holds already.  A  *)
(* name is a sequence of labels, each behind its length, and a 0; a length *)
(* of Tag or more is the first byte of a pointer.  A blob is 1, a length   *)
(* and bytes, or 0 and a pointer.  A reader takes the labels of a name one *)
(* by one, through whatever pointers it meets.                             *)
(***************************************************************************)
EXTENDS Naturals, Sequences

CONSTANTS Base,        \* the values of a byte
          Tag,         \* 0xC0: the least byte that begins a pointer
          MaxJumps,    \* 8: the pointers a reader follows
          Messages,    \* what a message may hold before the first hook writes
          Names,       \* the names written: terminated, uncompressed
          Blobs,       \* the blobs written
          Capacity     \* the length of the buffer

ASSUME BaseAssumption == Base \in Nat /\ Tag \in 1 .. Base - 1
ASSUME JumpsAssumption == MaxJumps \in Nat \ {0}
ASSUME BytesAssumption == Messages \cup Blobs \subseteq Seq(0 .. Base - 1)

\* The labels of the name start at `starts`, the last of which is its terminator.
Starts(name, starts) ==
    /\ starts \subseteq 0 .. Len(name) - 1 /\ {0, Len(name) - 1} \subseteq starts
    /\ name[Len(name)] = 0
    /\ \A s \in starts \ {Len(name) - 1} :
          /\ name[s + 1] \in 1 .. Tag - 1 /\ s + 1 + name[s + 1] \in starts
          /\ \A u \in starts : u > s => u >= s + 1 + name[s + 1]

\* Uncompressed names of RFC 1035, as write_dns_name expects.
ASSUME NamesAssumption ==
    \A name \in Names :
        /\ name \in Seq(0 .. Base - 1)
        /\ \E starts \in SUBSET (0 .. Len(name) - 1) : Starts(name, starts)

VARIABLES msg,         \* the message so far
          items,       \* the values written and where (a ghost)
          sent,        \* the message is finished, or a hook returned an error
          reader       \* the iterator over a name's labels, or NoReader

vars == <<msg, items, sent, reader>>

Size    == Len(msg)
Byte(i) == msg[i + 1]
From(seq, i) == SubSeq(seq, i + 1, Len(seq))

-----------------------------------------------------------------------------
(* Writing.                                                                *)

\* find_subslice
Found(needle)  == {i \in 0 .. Size - 1 : i + Len(needle) <= Size
                                         /\ SubSeq(msg, i + 1, i + Len(needle)) = needle}
FirstOf(found) == CHOOSE i \in found : \A j \in found : i <= j

\* 0x4000
PointerLimit == (Base - Tag) * Base

\* Mutant: the terminator need not be there.
SuffixOpen(name, s) == SubSeq(name, s + 1, Len(name) - 1)

\* What a pointer in place of the labels from s on must refer to.
Suffix(name, s) == From(name, s)

\* Where the label behind the one at s is, or that there is none.
After(name, s) ==
    IF s + 1 + name[s + 1] < Len(name) THEN s + 1 + name[s + 1] ELSE Len(name)

\* write_dns_name: labels up to the first suffix that is there already.
NameBytes(name) ==
    LET from[s \in 0 .. Len(name)] ==
            IF s = Len(name) \/ name[s + 1] = 0 THEN name
            ELSE LET found == Found(Suffix(name, s))
                 IN  IF found # {} /\ FirstOf(found) < PointerLimit
                     THEN SubSeq(name, 1, s) \o <<Tag + FirstOf(found) \div Base,
                                                  FirstOf(found) % Base>>
                     ELSE from[After(name, s)]
    IN  from[0]

Inline(value) == <<1, Len(value)>> \o value

Sought(value) == Inline(value)

\* write_backref_blob
BlobBytes(value) ==
    LET found == Found(Sought(value))
    IN  IF found # {} /\ FirstOf(found) < Base * Base
        THEN <<0, FirstOf(found) \div Base, FirstOf(found) % Base>>
        ELSE Inline(value)

Bytes(kind, value) == IF kind = "name" THEN NameBytes(value) ELSE BlobBytes(value)

\* A blob's length must fit its byte, and the bytes the rest of the buffer.
Refused(kind, value) ==
    \/ kind = "blob" /\ Len(value) > Base - 1
    \/ Len(Bytes(kind, value)) > Capacity - Size

-----------------------------------------------------------------------------
(* Reading.                                                                *)

NotRead == [ok |-> FALSE, value |-> <<>>, used |-> 0]
Read(value, used) == [ok |-> TRUE, value |-> value, used |-> used]

\* dns_name: how many bytes the name at `at` takes; its pointers are not followed.
ReadName(at) ==
    LET from[p \in 0 .. Size] ==
            IF p = Size THEN NotRead
            ELSE IF Byte(p) >= Tag
                 THEN IF p + 2 > Size THEN NotRead ELSE Read(<<>>, p + 2 - at)
            ELSE IF Byte(p) = 0 THEN Read(<<>>, p + 1 - at)
            ELSE IF p + 1 + Byte(p) > Size THEN NotRead
            ELSE from[p + 1 + Byte(p)]
    IN  from[at]

\* The inline blob at p, of which `used` bytes are the field's own.
ReadInline(p, used) ==
    IF p + 2 > Size \/ p + 2 + Byte(p + 1) > Size THEN NotRead
    ELSE Read(SubSeq(msg, p + 3, p + 2 + Byte(p + 1)), used)

\* backref_blob
ReadBlob(at) ==
    IF at >= Size THEN NotRead
    ELSE CASE Byte(at) = 1 -> ReadInline(at, IF at + 1 < Size THEN 2 + Byte(at + 1) ELSE 0)
           [] Byte(at) = 0 ->
                  IF at + 3 > Size THEN NotRead
                  ELSE LET target == Byte(at + 1) * Base + Byte(at + 2)
                       IN  IF target >= Size THEN NotRead
                           ELSE IF Byte(target) # 1 THEN NotRead
                           ELSE ReadInline(target, 3)
           [] OTHER -> NotRead

NoReader == [at |-> 0, pos |-> 0, jumps |-> 0, labels |-> <<>>, is |-> "none"]

-----------------------------------------------------------------------------
Init == msg \in Messages /\ items = <<>> /\ sent = FALSE /\ reader = NoReader

\* The hook of a writer; a refused one ends the message.
Write(kind, value) ==
    /\ ~sent
    /\ sent' = Refused(kind, value)
    /\ IF Refused(kind, value) THEN UNCHANGED <<msg, items>>
       ELSE /\ msg' = msg \o Bytes(kind, value)
            /\ items' = Append(items, [kind |-> kind, at |-> Size, value |-> value,
                                       used |-> Len(Bytes(kind, value))])
    /\ UNCHANGED reader

WriteItem == \/ \E name \in Names : Write("name", name)
             \/ \E blob \in Blobs : Write("blob", blob)

Send ==
    /\ ~sent
    /\ sent' = TRUE
    /\ UNCHANGED <<msg, items, reader>>

\* dns_name accepts what is at `at`, and the caller asks for the labels.
Labels(at) ==
    /\ sent /\ reader = NoReader
    /\ ReadName(at).ok
    /\ reader' = [NoReader EXCEPT !.at = at, !.pos = at, !.is = "reading"]
    /\ UNCHANGED <<msg, items, sent>>

(* DnsLabelIter::next, one turn of its loop at a time.                     *)
Reading == reader.is = "reading"
AtPointer == reader.pos + 2 <= Size /\ Byte(reader.pos) >= Tag
AtLabel ==
    /\ reader.pos < Size /\ Byte(reader.pos) \in 1 .. Tag - 1
    /\ reader.pos + 1 + Byte(reader.pos) <= Size

\* Mutant: jumps are not counted.
FollowCountless ==
    /\ Reading /\ AtPointer
    /\ reader' = [reader EXCEPT !.pos = (Byte(@) - Tag) * Base + Byte(@ + 1)]
    /\ UNCHANGED <<msg, items, sent>>

Follow ==
    /\ Reading /\ AtPointer
    /\ reader' = IF reader.jumps = MaxJumps THEN [reader EXCEPT !.is = "ended"]
                 ELSE [reader EXCEPT !.jumps = @ + 1,
                                     !.pos = (Byte(@) - Tag) * Base + Byte(@ + 1)]
    /\ UNCHANGED <<msg, items, sent>>

Yield ==
    /\ Reading /\ AtLabel
    /\ LET end == reader.pos + 1 + Byte(reader.pos)
       IN  reader' = [reader EXCEPT !.pos = end,
                                    !.labels = Append(@, SubSeq(msg, reader.pos + 2, end))]
    /\ UNCHANGED <<msg, items, sent>>

\* The terminator, or bytes that make no sense.
End ==
    /\ Reading /\ ~AtPointer /\ ~AtLabel
    /\ reader' = [reader EXCEPT !.is = "ended"]
    /\ UNCHANGED <<msg, items, sent>>

Turn == Follow \/ Yield \/ End
Next == WriteItem \/ Send \/ (\E at \in 0 .. Size - 1 : Labels(at)) \/ Turn

Spec == Init /\ [][Next]_vars

\* A loop over the labels goes on until the iterator returns None.
FairSpec == Spec /\ WF_vars(Turn)

-----------------------------------------------------------------------------
TypeOK ==
    /\ msg \in Seq(0 .. Base - 1)
    /\ \A i \in 1 .. Len(items) : items[i].at + items[i].used <= Size
    /\ reader.is \in {"none", "reading", "ended"} /\ reader.jumps \in 0 .. MaxJumps
    /\ sent \in BOOLEAN

NamesWritten == {i \in 1 .. Len(items) : items[i].kind = "name"}
BlobsWritten == {i \in 1 .. Len(items) : items[i].kind = "blob"}

\* The labels of an uncompressed name.
LabelsOf(name) ==
    LET from[s \in 0 .. Len(name)] ==
            IF s = Len(name) \/ name[s + 1] = 0 THEN <<>>
            ELSE <<SubSeq(name, s + 2, s + 1 + name[s + 1])>> \o from[After(name, s)]
    IN  from[0]

(* A name is read back with the labels it was written with, and with as    *)
(* many bytes, whatever was written before and since.  It refers back, and *)
(* to labels in full: one jump is enough for every reader, however many    *)
(* names share them.  (write_dns_name, dns_name and NameRef::labels)       *)
NamesReadBack ==
    \A i \in NamesWritten :
        /\ ReadName(items[i].at) = Read(<<>>, items[i].used)
        /\ reader # NoReader /\ reader.at = items[i].at
               => /\ reader.is = "ended" => reader.labels = LabelsOf(items[i].value)
                  /\ reader.jumps <= 1
                  /\ reader.jumps = 1 => reader.pos <= items[i].at

(* So is a blob, byte for byte.  (write_backref_blob and backref_blob)     *)
BlobsReadBack ==
    \A i \in BlobsWritten : ReadBlob(items[i].at) = Read(items[i].value, items[i].used)

(* Whatever was written is read back.                                      *)
(* (the pairs of hooks of @hook and @write_hook)                           *)
ItemsReadBack == NamesReadBack /\ BlobsReadBack

(* The labels of any name dns_name accepts come to an end, also when its   *)
(* pointers form a loop.  (DnsLabelIter::next)                             *)
LabelsEnd == reader.is = "reading" ~> reader.is = "ended"
=============================================================================
