-------------------------------- MODULE Wire --------------------------------
(***************************************************************************)
(* A message from the argument of send() to the result of recv(): the      *)
(* payload codec (codec.py), which flattens a value into a tree and buffer *)
(* segments, the frame around them (protocol.py), read piece by piece, and *)
(* the limits of CommConfig, which the two nodes need not share.  Sizes    *)
(* are counted in nodes and bytes; the text of a value is its label.       *)
(***************************************************************************)
EXTENDS Naturals, Sequences, SequencesExt

CONSTANTS
    Values,     \* arguments of send()
    Metadata,   \* piggypayloads: None, or their size, depth and safety
    Settings,   \* the limits and registries of sender and receiver, and the labels of
                \* what their classes, encoders and decoders cannot do there
    None,
    MaxSends    \* bound

VARIABLES
    setting,
    offered,   \* history: what send() was called with
    accepted,  \* history: the calls that were not refused
    wire,      \* the connection: headers, manifests and bytes of segments
    partial,   \* the frame the reader has begun
    inbound,   \* frames that were read
    cut,       \* history: the reader has dropped a connection
    results    \* history: what recv() returned or raised

vars == <<setting, offered, accepted, wire, partial, inbound, cut, results>>

MaxMetadataDepth == 16
HeaderSize == 2

Init ==
    /\ setting \in Settings
    /\ offered = <<>> /\ accepted = {}
    /\ wire = <<>> /\ partial = None
    /\ inbound = <<>> /\ cut = FALSE /\ results = <<>>

Sum(numbers) == FoldLeft(+, 0, numbers)

Lengths(segments) == [i \in DOMAIN segments |-> Len(segments[i])]

---------------------------------------------------------------------------
(* PayloadCodec.encode.  A value is a leaf or a container: the items of a  *)
(* dict are its keys and values in turn, those of a dataclass its fields,  *)
(* and that of an object with a registered codec what its encoder returns. *)

Containers == {"list", "tuple", "dict", "dataclass", "custom"}
Inline     == {"none", "bool", "int", "float", "str"}

\* The state of the walk: nodes counted, segments, trouble met, node returned.
Fresh == [nodes |-> 0, segments |-> <<>>, error |-> "", node |-> None]

Refuse(st, why) == [st EXCEPT !.error = why]

\* A leaf that becomes a segment refers to it by its place and its length.
InSegment(st, v) ==
    [st EXCEPT !.segments = Append(@, v.data),
               !.node = [op |-> v.kind, label |-> v.label, at |-> Len(st.segments) + 1, length |-> Len(v.data)]]

Leaf(st, v, c) ==
    CASE v.kind \in Inline /\ v.label = "beyond 64 bits" -> Refuse(st, "integer")
      [] v.kind \in Inline /\ v.label # "beyond 64 bits" ->
            [st EXCEPT !.node = [op |-> v.kind, label |-> v.label]]
      [] v.kind = "tensor" -> IF v.label = "sparse" THEN Refuse(st, "tensor") ELSE InSegment(st, v)
      [] v.kind = "bytes"  ->
            \* memoryview.cast does not take a view with a zero in its shape.
            IF v.label = "empty shape" THEN Refuse(st, "TypeError") ELSE InSegment(st, v)
      [] v.kind = "enclosing" -> Refuse(st, "cycle")
      [] v.kind = "pickle" ->
            CASE ~c.pickle -> Refuse(st, "unsupported")
              [] c.pickle /\ v.label \in c.unencodable -> Refuse(st, "pickle")
              [] c.pickle /\ v.label \notin c.unencodable -> InSegment(st, v)

RECURSIVE Walk(_, _, _, _)
Walk(before, v, depth, c) ==
    LET st == [before EXCEPT !.nodes = @ + 1]
        Item(acc, item) ==
            IF acc.error # "" THEN acc
            ELSE LET w == Walk(acc, item, depth + 1, c) IN [w EXCEPT !.node = Append(acc.node, w.node)]
        all == FoldLeft(Item, [st EXCEPT !.node = <<>>], v.items)
    IN  CASE st.nodes > c.nodes -> Refuse(st, "nodes")
          [] st.nodes <= c.nodes /\ depth > c.depth -> Refuse(st, "depth")
          [] OTHER ->
                IF v.kind \notin Containers THEN Leaf(st, v, c)
                ELSE IF v.kind \in {"dataclass", "custom"} /\ v.label \notin c.registry
                THEN Refuse(st, "unsupported")
                ELSE IF v.kind = "custom" /\ v.label \in c.unencodable THEN Refuse(st, "encoder")
                ELSE [all EXCEPT !.node = [op |-> v.kind, label |-> v.label, items |-> @]]

\* _validate_decoded_metadata
MetadataValid(m, c) ==
    m = None \/ (m.safe /\ m.size <= c.metadata /\ m.depth <= MaxMetadataDepth)

Encoded(v, m, c) ==
    LET w == Walk(Fresh, v, 0, c) IN
    [error |-> w.error, segments |-> w.segments,
     manifest |-> [root |-> w.node, piggypayload |-> m, lengths |-> Lengths(w.segments), nodes |-> w.nodes]]

ManifestSize(manifest) ==
    manifest.nodes + Len(manifest.lengths) + (IF manifest.piggypayload = None THEN 0 ELSE manifest.piggypayload.size)

---------------------------------------------------------------------------
(* encode_frame and read_frame                                             *)

Header(id, e) ==
    [id |-> id, manifest |-> ManifestSize(e.manifest), count |-> Len(e.segments), size |-> Sum(Lengths(e.segments))]

\* What both ends ask of a frame.
WithinFrameLimits(h, c) ==
    /\ h.manifest <= c.manifest /\ h.count <= c.segments
    /\ HeaderSize + h.manifest + h.size <= c.message


\* Neither encode nor encode_frame refuses.
Sendable(e, h, c) ==
    /\ MetadataValid(e.manifest.piggypayload, c) /\ e.error = ""
    /\ WithinFrameLimits(h, c)

\* send() raises, or the whole frame is written.
Send ==
    /\ Len(offered) < MaxSends
    /\ \E v \in Values, m \in Metadata :
        LET e == Encoded(v, m, setting.tx)
            id == Len(offered) + 1
            h == Header(id, e)
        IN  /\ offered' = Append(offered, [value |-> v, metadata |-> m])
            /\ IF Sendable(e, h, setting.tx)
               THEN /\ accepted' = accepted \cup {id}
                    /\ wire' = wire \o <<h, e.manifest>> \o FlattenSeq(e.segments)
               ELSE UNCHANGED <<accepted, wire>>
    /\ UNCHANGED <<setting, partial, inbound, cut, results>>

\* The reader drops the connection and what was on it; the next message goes
\* over another.
Cut == wire' = <<>> /\ partial' = None /\ cut' = TRUE

ReadHeader ==
    /\ wire # <<>> /\ partial = None
    /\ LET h == Head(wire) IN
        IF WithinFrameLimits(h, setting.rx)
        THEN /\ partial' = [header |-> h, manifest |-> None, segments |-> <<>>]
             /\ wire' = Tail(wire) /\ UNCHANGED cut
        ELSE Cut
    /\ UNCHANGED <<setting, offered, accepted, inbound, results>>

ReadManifest ==
    /\ wire # <<>> /\ partial # None /\ partial.manifest = None
    /\ LET lengths == Head(wire).lengths IN
        IF Len(lengths) = partial.header.count /\ Sum(lengths) = partial.header.size
        THEN partial' = [partial EXCEPT !.manifest = Head(wire)] /\ wire' = Tail(wire) /\ UNCHANGED cut
        ELSE Cut
    /\ UNCHANGED <<setting, offered, accepted, inbound, results>>

InProgress == partial # None /\ partial.manifest # None

\* Mutant: the segments are collected back to front.
ReadSegmentFirst ==
    /\ InProgress /\ Len(partial.segments) < partial.header.count
    /\ LET n == partial.manifest.lengths[Len(partial.segments) + 1] IN
        /\ Len(wire) >= n
        /\ partial' = [partial EXCEPT !.segments = <<SubSeq(wire, 1, n)>> \o @]
        /\ wire' = SubSeq(wire, n + 1, Len(wire))
    /\ UNCHANGED <<setting, offered, accepted, inbound, cut, results>>

\* The manifest says where the next segment ends.
ReadSegment ==
    /\ InProgress /\ Len(partial.segments) < partial.header.count
    /\ LET n == partial.manifest.lengths[Len(partial.segments) + 1] IN
        /\ Len(wire) >= n
        /\ partial' = [partial EXCEPT !.segments = Append(@, SubSeq(wire, 1, n))]
        /\ wire' = SubSeq(wire, n + 1, Len(wire))
    /\ UNCHANGED <<setting, offered, accepted, inbound, cut, results>>

FrameRead ==
    /\ InProgress /\ Len(partial.segments) = partial.header.count
    /\ inbound' = Append(inbound, partial)
    /\ partial' = None
    /\ UNCHANGED <<setting, offered, accepted, wire, cut, results>>

---------------------------------------------------------------------------
(* PayloadCodec.decode                                                     *)

Good(v)  == [error |-> "", value |-> v]
Bad(why) == [error |-> why, value |-> None]

FromSegment(node, segments, c) ==
    LET found == node.at <= Len(segments) /\ Len(segments[node.at]) = node.length
        label == IF node.op = "bytes" THEN "bytes" ELSE node.label
    IN  IF node.op = "pickle" /\ ~c.pickle THEN Bad("pickle")
        ELSE IF node.op = "tensor" /\ ~c.tensors THEN Bad("tensor")
        ELSE IF ~found THEN Bad("segment")
        \* The class cannot be imported here, or does not take the state.
        ELSE IF node.op = "pickle" /\ node.label \in c.unloadable THEN Bad("loads")
        ELSE Good([kind |-> node.op, label |-> label, data |-> segments[node.at]])

\* What decode returns for a key can be one: the classes of this node may have no hash.
RECURSIVE Hashable(_, _)
Hashable(v, c) ==
    CASE v.kind = "tuple" -> \A i \in DOMAIN v.items : Hashable(v.items[i], c)
      [] v.kind \in {"dataclass", "custom", "pickle"} -> v.label \notin c.unhashable
      [] OTHER -> v.kind \notin {"list", "dict"}

Keys(items) == {items[i] : i \in {j \in DOMAIN items : j % 2 = 1}}

RECURSIVE Unwalk(_, _, _, _)
Unwalk(node, depth, segments, c) ==
    LET Item(acc, item) ==
            IF acc.error # "" THEN acc
            ELSE LET u == Unwalk(item, depth + 1, segments, c) IN
                 IF u.error # "" THEN u ELSE Good(Append(acc.value, u.value))
        all == FoldLeft(Item, Good(<<>>), node.items)
    IN  IF depth > c.depth THEN Bad("depth")
        ELSE IF node.op \in Inline THEN Good([kind |-> node.op, label |-> node.label])
        ELSE IF node.op \notin Containers THEN FromSegment(node, segments, c)
        ELSE IF node.op \in {"dataclass", "custom"} /\ node.label \notin c.registry THEN Bad("unknown codec")
        ELSE IF all.error # "" THEN all
        ELSE IF node.op = "dict" /\ \E key \in Keys(all.value) : ~Hashable(key, c) THEN Bad("unhashable key")
        \* A field that __init__ does not take cannot be given back; a decoder may raise.
        ELSE IF node.op \in {"dataclass", "custom"} /\ node.label \in c.unbuildable THEN Bad("construction")
        ELSE Good([kind |-> node.op, label |-> node.label, items |-> all.value])

Decoded(frame, c) ==
    IF frame.manifest.lengths # Lengths(frame.segments) THEN Bad("lengths")
    ELSE IF ~MetadataValid(frame.manifest.piggypayload, c) THEN Bad("metadata")
    ELSE Unwalk(frame.manifest.root, 0, frame.segments, c)

Recv ==
    /\ inbound # <<>>
    /\ LET f == Head(inbound) IN
        results' = Append(results, [id |-> f.header.id, metadata |-> f.manifest.piggypayload] @@ Decoded(f, setting.rx))
    /\ inbound' = Tail(inbound)
    /\ UNCHANGED <<setting, offered, accepted, wire, partial, cut>>

Next == Send \/ ReadHeader \/ ReadManifest \/ ReadSegment \/ FrameRead \/ Recv

Spec == Init /\ [][Next]_vars

---------------------------------------------------------------------------
(* Properties                                                              *)

\* What a value is to an application: bytes, a bytearray and a memoryview are
\* the same bytes.
RECURSIVE Meaning(_)
Meaning(v) ==
    CASE v.kind \in Inline -> [kind |-> v.kind, label |-> v.label]
      [] v.kind = "bytes" -> [kind |-> "bytes", label |-> "bytes", data |-> v.data]
      [] v.kind \in {"tensor", "pickle"} -> [kind |-> v.kind, label |-> v.label, data |-> v.data]
      [] v.kind \in Containers ->
            [kind |-> v.kind, label |-> v.label, items |-> [i \in DOMAIN v.items |-> Meaning(v.items[i])]]

\* What recv() returns without an error is what was given to send(), with its
\* own metadata, each message once and in the order sent, whatever the limits
\* of the two nodes and whatever connection was dropped in between.  About the
\* places and lengths by which a tree finds its segments, and about read_frame,
\* which cuts a stream of bytes by the lengths of a manifest.
RoundTrip ==
    /\ \A i \in DOMAIN results :
        LET r == results[i] IN
        r.error = "" => /\ r.id \in accepted
                        /\ r.value = Meaning(offered[r.id].value)
                        /\ r.metadata = offered[r.id].metadata
    /\ \A i, j \in DOMAIN results : i < j => results[i].id < results[j].id

\* The receiver is configured to take whatever the sender may send, and its classes
\* and decoders accept it.
Compatible ==
    LET tx == setting.tx  rx == setting.rx IN
    /\ \A limit \in {"depth", "metadata", "manifest", "segments", "message"} : tx[limit] <= rx[limit]
    /\ tx.registry \subseteq rx.registry \ rx.unbuildable
    /\ tx.pickle => rx.pickle /\ rx.unloadable = {}
    /\ rx.unhashable = {}
    /\ rx.tensors

=============================================================================
