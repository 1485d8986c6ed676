------------------------------- MODULE KeyRange -------------------------------
(***************************************************************************)
(* Key ranges of the key-value store (kv/range.go) and the key layout the  *)
(* other packages put in one store.  Every package iterates its own part   *)
(* of the store through a prefix range: the spec manager its revisions     *)
(* (GetNewest takes iter.Last()), the sync state its synced slices, the    *)
(* fault marks their blob keys, and the blob iterator the blobs of a slice *)
(* given as an odd- or even-length hex prefix.                             *)
(*                                                                         *)
(* A key is a sequence of bytes 0..255, ordered the way goleveldb's        *)
(* default comparator (bytes.Compare) orders them.  A range is            *)
(* [from, to) with to = NoLimit for an unbounded range (a nil Limit in     *)
(* goleveldb's util.Range).  The algorithms are operators; the constant    *)
(* properties at the end compare them with reference definitions over     *)
(* bounded inputs, and TLC evaluates them once.                            *)
(***************************************************************************)
EXTENDS Naturals
LOCAL INSTANCE SequencesExt

ByteMax == 255
NoLimit == "nil"

\* bytes.Compare(a, b) < 0: the first differing byte decides, and a proper
\* prefix sorts before its extensions.
RECURSIVE KeyLess(_, _)
KeyLess(a, b) ==
    /\ b # <<>>
    /\ \/ a = <<>>
       \/ Head(a) < Head(b)
       \/ Head(a) = Head(b) /\ KeyLess(Tail(a), Tail(b))

\* levelDB.NewIterator: util.Range{Start: from, Limit: to} holds the keys k
\* with from <= k and, unless Limit is nil, k < to.
InRange(r, k) ==
    /\ ~KeyLess(k, r.from)
    /\ r.to = NoLimit \/ KeyLess(k, r.to)

\* The loop of NewRangeWithBytesPrefix from the last byte backwards: the
\* first byte below 0xff is incremented and the rest dropped; a prefix of
\* only 0xff bytes (or the empty one) has no limit.
\* Mutant: c + 1 taken without the c < 0xff check, so 0xff wraps to 0x00.
PrefixLimitWrap(prefix) ==
    IF prefix = <<>> THEN NoLimit ELSE Front(prefix) \o <<(Last(prefix) + 1) % 256>>

RECURSIVE PrefixLimit(_)
PrefixLimit(prefix) ==
    IF prefix = <<>> THEN NoLimit
    ELSE IF Last(prefix) < ByteMax
         THEN Front(prefix) \o <<Last(prefix) + 1>>
         ELSE PrefixLimit(Front(prefix))

NewRangeWithBytesPrefix(prefix) == [from |-> prefix, to |-> PrefixLimit(prefix)]

\* hex.DecodeString: each pair of hex digits is one byte; a character that
\* is not a hex digit (BadHex, any value above 15) is an error.
BadHex == 16
HexDecode(h) == [i \in 1..(Len(h) \div 2) |-> 16 * h[2 * i - 1] + h[2 * i]]
HexValid(h) == \A i \in DOMAIN h : h[i] # BadHex

\* hex.EncodeToString of a key: two digits per byte, high digit first.
HexEncode(k) == [i \in 1..(2 * Len(k)) |->
                   IF i % 2 = 1 THEN k[(i + 1) \div 2] \div 16 ELSE k[i \div 2] % 16]

\* A key whose hex encoding starts with the hex digits h.
KeyHasHexPrefix(h, k) == IsPrefix(h, HexEncode(k))

\* NewRangeWithHexPrefix: an odd prefix is padded with "0" for the start and
\* with "f" for the end, whose prefix limit is the range's limit.
RangeErr == [error |-> "new range"]
NewRangeWithHexPrefix(hexPrefix) ==
    IF Len(hexPrefix) % 2 > 0
    THEN IF ~HexValid(hexPrefix) THEN RangeErr
         ELSE [from |-> HexDecode(hexPrefix \o <<0>>),
               to   |-> PrefixLimit(HexDecode(hexPrefix \o <<15>>))]
    ELSE IF ~HexValid(hexPrefix) THEN RangeErr
         ELSE NewRangeWithBytesPrefix(HexDecode(hexPrefix))

-----------------------------------------------------------------------------
(***************************************************************************)
(* The key layout of one node's store.  The prefixes are the bytes of the  *)
(* source's string constants; a blob key (31 bytes in blob.Key) is cut to  *)
(* two bytes, enough to reach both ends of the byte order.                 *)
(***************************************************************************)
RevisionPrefix  == <<46,115,112,101,99,47,114,101,118,47>>     \* ".spec/rev/"
TagPrefix       == <<46,115,112,101,99,47,116,97,103,115,47>>  \* ".spec/tags/"
NodeKeyKey      == <<46,110,111,100,101,45,107,101,121>>       \* ".node-key"
ClusterIDKey    == <<46,99,108,117,115,116,101,114,45,105,100>> \* ".cluster-id"
FaultMarkPrefix == <<46,109,97,114,107,115,47,102,97,117,108,116>> \* ".marks/" + "fault"
SyncedSlicePrefx == <<46,115,121,110,99,101,100,45,115,108,105,99,101,47>> \* ".synced-slice/"
BlobPrefix      == <<47>>                                       \* "/"
RevisionWidth   == 10

\* strconv of a natural number: its decimal digits as ASCII bytes.
RECURSIVE Itoa(_)
Itoa(n) == IF n < 10 THEN <<48 + n>> ELSE Itoa(n \div 10) \o <<48 + (n % 10)>>

\* fmt.Sprintf("%010d", n): left-padded with "0" to the width, never cut.
ZeroPad(s, w) == [i \in 1..(w - Len(s)) |-> 48] \o s

\* Mutant: fmt.Sprintf("%d", n), the revision unpadded.
makeRevisionKeyUnpadded(revision) == RevisionPrefix \o Itoa(revision)

\* makeRevisionKey (spec_mgr.go): the revision prefix and the padded number.
makeRevisionKey(revision) == RevisionPrefix \o ZeroPad(Itoa(revision), RevisionWidth)

\* A node's store: the committed revisions revs and one key of every other
\* kind (a tag, the node key, the cluster ID, a synced slice "0a", the fault
\* marks and the blobs of the sample blob keys).
BlobKeys == {<<0, 0>>, <<255, 255>>}
StoreKeys(revs) ==
    {makeRevisionKey(r) : r \in revs}
    \cup {TagPrefix \o <<97,112,112,114,111,118,101,100>>, NodeKeyKey, ClusterIDKey,
          SyncedSlicePrefx \o <<48,97>>}
    \cup {FaultMarkPrefix \o k : k \in BlobKeys} \cup {BlobPrefix \o k : k \in BlobKeys}

\* Mutant: the slice's hex prefix used without the blob prefix's.
NewBlobIteratorRangeBare(slice) == NewRangeWithHexPrefix(slice)

\* NewBlobIterator: the hex of the blob prefix "/" followed by the slice.
NewBlobIteratorRange(slice) == NewRangeWithHexPrefix(HexEncode(BlobPrefix) \o slice)

\* The iterators the code opens on the store, each with the hex digits its
\* keys must start with: GetNewest's revision range, GetSyncedSlices, the
\* fault mark iterator, and NewBlobIterator for a slice given in hex (odd
\* or even, "" for all blobs).
SliceHexSample == {<<>>, <<0>>, <<15>>, <<0, 0>>, <<15, 15>>, <<15, 15, 15>>}
Iterators ==
    {[range |-> NewRangeWithBytesPrefix(p), hex |-> HexEncode(p)] :
        p \in {RevisionPrefix, SyncedSlicePrefx, FaultMarkPrefix}}
    \cup {[range |-> NewBlobIteratorRange(s), hex |-> HexEncode(BlobPrefix) \o s] :
            s \in SliceHexSample}

\* GetNewest without its cache: iter.Last() of the revision prefix range
\* over a store holding the revisions revs; the spec stored under that key
\* carries its revision.  NoRevision when the range is empty.
NoRevision == -1
GetNewestRev(revs) ==
    LET inRange == {k \in StoreKeys(revs) :
                      InRange(NewRangeWithBytesPrefix(RevisionPrefix), k)}
        last    == {k \in inRange : \A j \in inRange : ~KeyLess(k, j)}
    IN  IF inRange = {} THEN NoRevision
        ELSE CHOOSE r \in revs : makeRevisionKey(r) \in last

-----------------------------------------------------------------------------
(***************************************************************************)
(* The algorithms against reference definitions over bounded inputs that  *)
(* reach both ends of a byte (0, 1, 0xfe, 0xff) and of a hex digit (0, 1, *)
(* e, f), a non-hex character, and odd and even hex prefixes: a prefix    *)
(* range holds exactly the keys that start with the prefix, and a hex     *)
(* prefix with a non-hex character is an error and nothing else.  TLC     *)
(* checks the ASSUME when it loads any module that extends this one.      *)
(***************************************************************************)
PrefixBytes == {0, 1, 254, 255}
HexDigits   == {0, 1, 14, 15}
HexKeyBytes == {16 * a + b : a, b \in HexDigits}

PrefixRangesAgreeWithReference ==
    /\ \A p \in BoundedSeq(PrefixBytes, 2), k \in BoundedSeq(PrefixBytes, 3) :
          InRange(NewRangeWithBytesPrefix(p), k) <=> IsPrefix(p, k)
    /\ \A h \in BoundedSeq(HexDigits \cup {BadHex}, 3) :
          LET r == NewRangeWithHexPrefix(h) IN
          IF HexValid(h)
          THEN r # RangeErr /\ \A k \in BoundedSeq(HexKeyBytes, 2) :
                                 InRange(r, k) <=> KeyHasHexPrefix(h, k)
          ELSE r = RangeErr

ASSUME PrefixRangesAgreeWithReference

=============================================================================
