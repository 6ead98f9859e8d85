------------------------------ MODULE Encoding ------------------------------
(***************************************************************************)
(* The bytes of internal/storage: node and edge values, mega blobs, fat    *)
(* batches and index keys, as an ingestion builds them one from another.   *)
(* Module Ingest works with the values themselves; this one shows that the *)
(* bytes say the same.  The reader is the PathDB server: it is taken to    *)
(* read what the comments node.go:9 and edge.go:10 describe.               *)
(*                                                                         *)
(* Base is 256 in the code: a u16 is two digits, a u32 four.  Of the 64    *)
(* bits of the state of MakeEdgeID the lowest Width are kept: products and *)
(* exclusive ors pass nothing from higher bits to lower ones.  Texts are   *)
(* ASCII, whose bytes are their UTF-16 units.                              *)
(***************************************************************************)
EXTENDS Naturals, Sequences, FiniteSets, SequencesExt

CONSTANTS
  Base,        \* one more than the largest byte
  Chars,       \* the bytes that occur in texts
  Lower,       \* the lower-case form of each
  NodeIds, EdgeIds, Labels,   \* an edge row without an id has the empty one
  Props,       \* the property maps a row may have, none of their values empty;
               \* the name of a column may be
  MaxPuts,     \* bound: rows that are explored
  MaxRowBytes, \* bound: the longest value that a line of the files gives
  Width,       \* bits of the state of MakeEdgeID that are kept
  Seed,        \* those of 1125899906842597
  Multiplier,  \* those of 1315423911
  Bar,         \* the byte of "|", which no cell of a PGDF file holds
  BitXor(_, _),      \* the exclusive or of two states
  FormatUint(_)      \* a state in decimal

Byte == 0..(Base - 1)
SEP == 0

\* The uint64 of MakeEdgeID.
Modulus ==
  LET power[n \in 0..Width] == IF n = 0 THEN 1 ELSE 2 * power[n - 1]
  IN  power[Width]
State == 0..(Modulus - 1)

ASSUME EncodingAssumption ==
  /\ Base \in Nat /\ Base > 1
  /\ Chars \subseteq Byte /\ Lower \in [Chars -> Chars]
  /\ \A t \in NodeIds \cup Labels : t \in Seq(Chars) \ {<<>>}
  /\ EdgeIds \subseteq Seq(Chars)
  /\ \A p \in Props : /\ IsFiniteSet(DOMAIN p) /\ p = [k \in DOMAIN p |-> p[k]]
                      /\ \A k \in DOMAIN p : k \in Seq(Chars) /\ p[k] \in Seq(Chars) \ {<<>>}
  /\ MaxPuts \in Nat /\ MaxRowBytes \in Nat

\* An exclusive or can be undone, decimals tell numbers apart.
ASSUME HashAssumption ==
  /\ Width \in Nat /\ {Seed, Multiplier} \subseteq State /\ Multiplier % 2 = 1
  /\ Bar \in State \ Chars /\ Chars \subseteq State
  /\ \A x, y \in State : /\ BitXor(x, y) \in State
                         /\ BitXor(BitXor(x, y), y) = x /\ BitXor(x, BitXor(x, y)) = y
  /\ \A x \in State : FormatUint(x) \in Seq(Chars)
  /\ \A x, y \in State : FormatUint(x) = FormatUint(y) => x = y

VARIABLES
  cache,      \* the bytes of the node values, by id
  pending,    \* the bytes of the mega blobs of one label
  fat,        \* the latest fat batch
  keys,       \* the bytes of the index keys, by family
  nodes, blobs, batch, entries,   \* what these four stand for
  puts        \* how many rows were put

vars == <<cache, pending, fat, keys, nodes, blobs, batch, entries, puts>>

-----------------------------------------------------------------------------
(* Writing.                                                                *)

\* Variant: the high digit keeps what the low one cannot hold.
U16Whole(n) == <<n \div Base, n % Base>>

\* Big-endian; the conversion to the width of the field comes first.
U16(n) == <<(n \div Base) % Base, n % Base>>
U32(n) == U16(n \div (Base * Base)) \o U16(n)

\* One copy after the other, from the left.
Joined(parts) ==
  LET copied[n \in 0..Len(parts)] == IF n = 0 THEN <<>> ELSE copied[n - 1] \o parts[n]
  IN  copied[Len(parts)]

Total(sizes) ==
  LET sum[n \in 0..Len(sizes)] == IF n = 0 THEN 0 ELSE sum[n - 1] + sizes[n]
  IN  sum[Len(sizes)]

Lengths(parts) == [n \in 1..Len(parts) |-> Len(parts[n])]

\* The buffer is made first, then filled.
Panic == <<Base>>
Filling(size, bytes) ==
  IF Len(bytes) > size THEN Panic ELSE bytes \o [z \in 1..(size - Len(bytes)) |-> 0]

\* A text after its length, in a field of 2 or 4 bytes.
Field(text, width) == (IF width = 2 THEN U16(Len(text)) ELSE U32(Len(text))) \o text
Fields(texts, widths) == Joined([n \in 1..Len(texts) |-> Field(texts[n], widths[n])])

\* A Go map is walked in any order, another one each time: key, value, key, ...
Walk(props, order) ==
  [n \in 1..2 * Len(order) |->
     IF n % 2 = 1 THEN order[(n + 1) \div 2] ELSE props[order[n \div 2]]]

PropWidths(count) == [n \in 1..2 * count |-> IF n % 2 = 1 THEN 2 ELSE 4]

\* Variant: the length of a value gets two bytes of the four it has.
PropBytesShort(props, order) ==
  U16(Len(order)) \o Fields(Walk(props, order), [n \in 1..2 * Len(order) |-> 2])

PropBytes(props, order) ==
  U16(Len(order)) \o Fields(Walk(props, order), PropWidths(Len(order)))

PropSizes(props, order) ==
  [n \in 1..Len(order) |-> 2 + Len(order[n]) + 4 + Len(props[order[n]])]

EncodeNodeValue(label, props, order) ==
  Filling(4 + Len(label) + Total(PropSizes(props, order)),
          Field(label, 2) \o PropBytes(props, order))

EdgeTexts(e) == <<e.id, e.label, e.src, e.dst>>
EdgeWidths == <<2, 2, 2, 2>>

EncodeEdgeValue(e, order) ==
  Filling(2 + Len(e.id) + 2 + Len(e.label) + 2 + Len(e.src) + 2 + Len(e.dst) + 2
            + Total(PropSizes(e.props, order)),
          Fields(EdgeTexts(e), EdgeWidths) \o PropBytes(e.props, order))

BlobWidths == <<4, 4, 4>>

\* Variant: the target comes before the source.
EncodeMegaBlobSwapped(edgeB, srcB, dstB) ==
  Filling(4 + Len(edgeB) + 4 + Len(srcB) + 4 + Len(dstB),
          Fields(<<edgeB, dstB, srcB>>, BlobWidths))

EncodeMegaBlob(edgeB, srcB, dstB) ==
  Filling(4 + Len(edgeB) + 4 + Len(srcB) + 4 + Len(dstB),
          Fields(<<edgeB, srcB, dstB>>, BlobWidths))

FatWidths(count) == [n \in 1..count |-> 4]

EncodeFatBatch(megaBlobs) ==
  Filling(4 + Total([n \in 1..Len(megaBlobs) |-> 4 + Len(megaBlobs[n])]),
          U32(Len(megaBlobs)) \o Fields(megaBlobs, FatWidths(Len(megaBlobs))))

\* Variant: nothing between the parts.
IdxKeyJoined(parts) ==
  Filling(Len(parts) - 1 + Total(Lengths(parts)), Joined(parts))

IdxKey(parts) ==
  Filling(Len(parts) - 1 + Total(Lengths(parts)),
          Joined([n \in 1..Len(parts) |-> IF n = 1 THEN parts[n] ELSE <<SEP>> \o parts[n]]))

Norm(text) == [n \in DOMAIN text |-> Lower[text[n]]]

\* Variant: an even multiplier.
MixEven(x, unit) == BitXor((x * (Multiplier + 1)) % Modulus, unit)

Mix(x, unit) == BitXor((x * Multiplier) % Modulus, unit)

Triple(src, label, dst) == src \o <<Bar>> \o label \o <<Bar>> \o dst

Mixed(text) ==
  LET x[n \in 0..Len(text)] == IF n = 0 THEN Seed ELSE Mix(x[n - 1], text[n])
  IN  x[Len(text)]

MakeEdgeID(src, label, dst) == FormatUint(Mixed(Triple(src, label, dst)))

-----------------------------------------------------------------------------
(* An ingestion of edges of one label.                                     *)

Nowhere == [x \in {} |-> <<>>]

Init ==
  /\ cache = Nowhere /\ nodes = Nowhere
  /\ pending = <<>> /\ blobs = <<>>
  /\ fat = <<>> /\ batch = <<>>
  /\ keys = [f \in {"prop", "src", "dst"} |-> {}] /\ entries = keys
  /\ puts = 0

With(f, k, v) == [x \in DOMAIN f \cup {k} |-> IF x = k THEN v ELSE f[x]]

PropParts(props, id) == {<<k, Norm(props[k]), id>> : k \in DOMAIN props}

Index(family, parts) ==
  /\ entries' = [f \in DOMAIN entries |-> entries[f] \cup (IF f \in family THEN parts[f] ELSE {})]
  /\ keys' = [f \in DOMAIN keys |->
                keys[f] \cup (IF f \in family THEN {IdxKey(p) : p \in parts[f]} ELSE {})]

\* The nodes come before the edges.
PutNode ==
  /\ puts < MaxPuts /\ puts' = puts + 1 /\ pending = <<>> /\ fat = <<>>
  /\ \E id \in NodeIds, label \in Labels, props \in Props :
       \E order \in SetToSeqs(DOMAIN props) :
         /\ nodes' = With(nodes, id, [label |-> label, props |-> props])
         /\ cache' = With(cache, id, EncodeNodeValue(label, props, order))
         /\ Index({"prop"}, [f \in {"prop"} |-> PropParts(props, id)])
  /\ UNCHANGED <<pending, blobs, fat, batch>>

\* No bytes for an endpoint that is not cached.
Cached(id) == IF id \in DOMAIN cache THEN cache[id] ELSE <<>>
Known(id) == IF id \in DOMAIN nodes THEN {nodes[id]} ELSE {}

PutEdge ==
  /\ puts < MaxPuts /\ puts' = puts + 1
  /\ \E cell \in EdgeIds, label \in Labels, src \in NodeIds, dst \in NodeIds, props \in Props :
     \E id \in {IF cell = <<>> THEN MakeEdgeID(src, label, dst) ELSE cell} :
       LET e == [id |-> id, label |-> label, src |-> src, dst |-> dst, props |-> props]
       IN  \E order \in SetToSeqs(DOMAIN props) :
             /\ blobs' = Append(blobs, [edge |-> e, src |-> Known(src), dst |-> Known(dst)])
             /\ pending' = Append(pending, EncodeMegaBlob(EncodeEdgeValue(e, order),
                                                          Cached(src), Cached(dst)))
             /\ Index({"prop", "src", "dst"},
                      [prop |-> PropParts(props, id),
                       src |-> {<<src, id>>}, dst |-> {<<dst, id>>}])
  /\ UNCHANGED <<cache, nodes, fat, batch>>

WriteFatBatch ==
  /\ pending # <<>>
  /\ fat' = EncodeFatBatch(pending) /\ batch' = blobs
  /\ pending' = <<>> /\ blobs' = <<>>
  /\ UNCHANGED <<cache, nodes, keys, entries, puts>>

Next == PutNode \/ PutEdge \/ WriteFatBatch

Spec == Init /\ [][Next]_vars

-----------------------------------------------------------------------------
(* Reading, by the layouts of the comments.                                *)

ByteAt(b, at) == IF at \in DOMAIN b THEN b[at] ELSE 0
U16At(b, at) == ByteAt(b, at) * Base + ByteAt(b, at + 1)
U32At(b, at) == U16At(b, at) * (Base * Base) + U16At(b, at + 2)

\* The text at from, after a length of the given width, and where it ends.
Text(b, from, width) ==
  LET n == IF width = 2 THEN U16At(b, from) ELSE U32At(b, from)
  IN  [text |-> [m \in 1..n |-> ByteAt(b, from + width + m - 1)], next |-> from + width + n]

\* Texts in a row.
Texts(b, from, widths) ==
  LET next[n \in 0..Len(widths)] ==
        IF n = 0 THEN from ELSE Text(b, next[n - 1], widths[n]).next
  IN  [texts |-> [n \in 1..Len(widths) |-> Text(b, next[n - 1], widths[n]).text],
       next |-> next[Len(widths)]]

\* Every other text is a key, its value after it.
PropsAt(b, from) ==
  LET count == U16At(b, from)
      t == Texts(b, from + 2, PropWidths(count))
      keysRead == {t.texts[2 * n - 1] : n \in 1..count}
  IN  [props |-> [k \in keysRead |->
                    t.texts[2 * (CHOOSE n \in 1..count : t.texts[2 * n - 1] = k)]],
       next |-> t.next]

\* Nothing, when the end is not where it should be.
Whole(b, next, value) == IF next = Len(b) + 1 THEN {value} ELSE {}

NodeRead(b) ==
  LET label == Text(b, 1, 2)
      props == PropsAt(b, label.next)
  IN  Whole(b, props.next, [label |-> label.text, props |-> props.props])

EdgeRead(b) ==
  LET t == Texts(b, 1, EdgeWidths)
      props == PropsAt(b, t.next)
  IN  Whole(b, props.next, [id |-> t.texts[1], label |-> t.texts[2], src |-> t.texts[3],
                            dst |-> t.texts[4], props |-> props.props])

EndpointRead(b) == IF b = <<>> THEN {} ELSE NodeRead(b)

BlobRead(b) ==
  LET t == Texts(b, 1, BlobWidths)
  IN  {[edge |-> e, src |-> EndpointRead(t.texts[2]), dst |-> EndpointRead(t.texts[3])] :
         e \in IF t.next = Len(b) + 1 THEN EdgeRead(t.texts[1]) ELSE {}}

FatRead(b) ==
  LET t == Texts(b, 5, FatWidths(U32At(b, 1)))
  IN  IF t.next = Len(b) + 1 THEN [n \in 1..Len(t.texts) |-> BlobRead(t.texts[n])] ELSE <<>>

-----------------------------------------------------------------------------
(* What fits.                                                              *)

Names == NodeIds \cup EdgeIds \cup Labels \cup {FormatUint(x) : x \in State}
Texts16 == Names \cup UNION {DOMAIN p : p \in Props}

\* No length is cut: those of texts fit in two bytes, as the validator's limit of
\* 64 KB for a line gives it, and those of values and their number in four.
ASSUME FitsAssumption ==
  /\ \A t \in Texts16 : Len(t) < Base * Base
  /\ \A p \in Props : /\ Cardinality(DOMAIN p) < Base * Base
                      /\ \A k \in DOMAIN p : Len(p[k]) <= MaxRowBytes
  /\ \A props \in Props : \A order \in SetToSeqs(DOMAIN props) :
       /\ \A label \in Labels : Len(EncodeNodeValue(label, props, order)) <= MaxRowBytes
       /\ \A id \in EdgeIds \cup {FormatUint(x) : x \in State},
            label \in Labels, src \in NodeIds, dst \in NodeIds :
            Len(EncodeEdgeValue([id |-> id, label |-> label, src |-> src, dst |-> dst,
                                 props |-> props], order)) <= MaxRowBytes
  /\ 12 + 3 * MaxRowBytes < Base * Base * Base * Base
  /\ MaxPuts < Base * Base * Base * Base

-----------------------------------------------------------------------------
(* Properties.                                                             *)

\* Nothing but bytes is ever stored, and no buffer is too small for what goes
\* into it: none of the encoders panics.
TypeOK ==
  /\ \A id \in DOMAIN cache : cache[id] \in Seq(Byte)
  /\ \A n \in DOMAIN pending : pending[n] \in Seq(Byte)
  /\ fat \in Seq(Byte)
  /\ \A f \in DOMAIN keys : keys[f] \subseteq Seq(Byte)
  /\ puts \in 0..MaxPuts

Singles(list) == [n \in DOMAIN list |-> {list[n]}]

\* The cached bytes of a node read back as its last row: label and properties,
\* in whatever order the map was walked.
NodesReadable == \A id \in DOMAIN cache : NodeRead(cache[id]) = {nodes[id]}

\* A fat batch reads back as the edges put since the last one, in their order,
\* each with its own fields and those of its endpoints: three layers of lengths
\* in lengths agree, with empty endpoints, empty property maps and texts of
\* any length that fits its field.
FatBatchReadable == fat # <<>> => FatRead(fat) = Singles(batch)

Plain(text) == SEP \notin Range(text)

\* Nothing keeps the separator, a NUL, out of a cell, and an entry that holds it
\* may share its key with another.  An entry none of whose parts holds it shares
\* its key with no other, whatever that holds; and where ids and names of
\* properties hold none, values may: keys tell entries apart as the tuples of
\* module Ingest do.
IndexKeysDistinct ==
  \A f \in DOMAIN keys : \A key \in keys[f] :
    LET sharing == {p \in entries[f] : IdxKey(p) = key}
    IN  \A p, q \in sharing :
          \/ \A n \in DOMAIN p : Plain(p[n])
          \/ \A n \in {1, Len(p)} : Plain(p[n]) /\ Plain(q[n])
          => p = q

Apart(s, t) == {n \in DOMAIN s : s[n] # t[n]}

\* Two edges without ids whose endpoints and labels, put together, have the
\* same length and differ in one character get different ids, wherever in the
\* text the character is: no turn of the loop loses what was read before.
OneCharacterTells ==
  \A n, m \in DOMAIN blobs :
    LET e == blobs[n].edge
        f == blobs[m].edge
        s == Triple(e.src, e.label, e.dst)
        t == Triple(f.src, f.label, f.dst)
    IN  /\ {e.id, f.id} \cap EdgeIds = {}
        /\ Len(s) = Len(t) /\ Cardinality(Apart(s, t)) = 1
        => e.id # f.id
=============================================================================
