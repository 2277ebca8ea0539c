------------------------------- MODULE MCWire -------------------------------
(* A small instance of Wire for TLC.                                       *)
EXTENDS Wire

Of(kind, label, data, items) == [kind |-> kind, label |-> label, data |-> data, items |-> items]
Plain(kind, label) == Of(kind, label, <<>>, <<>>)
Buffer(kind, label, data) == Of(kind, label, data, <<>>)
Holding(kind, label, items) == Of(kind, label, <<>>, items)

Zero == Plain("int", "0")
Ab   == Buffer("bytes", "bytearray", <<"a", "b">>)
Cd   == Buffer("tensor", "dense", <<"c", "d">>)
No   == Buffer("bytes", "bytes", <<>>)

MCValues == {
    Plain("none", "None"), Plain("int", "beyond 64 bits"), Ab, Buffer("bytes", "empty shape", <<>>),
    Buffer("tensor", "sparse", <<"c">>), Buffer("pickle", "Thing", <<"p">>),
    Holding("list", "", <<Ab, Cd>>), Holding("tuple", "", <<Cd, No>>), Holding("list", "", <<No, Ab, Cd>>),
    Holding("list", "", <<Plain("enclosing", "")>>),
    Holding("dict", "", <<Plain("str", "k"), Holding("tuple", "", <<Zero>>)>>),
    Holding("list", "", <<Holding("list", "", <<Holding("tuple", "", <<Plain("none", "None")>>)>>)>>),
    Holding("dataclass", "Pose", <<Zero, Cd>>), Holding("dataclass", "Map", <<Zero>>),
    Holding("custom", "Box", <<Holding("list", "", <<Ab>>)>>),
    Holding("dict", "", <<Buffer("pickle", "Thing", <<"p">>), Zero>>),
    Holding("dict", "", <<Holding("tuple", "", <<Holding("custom", "Box", <<Zero>>)>>), Zero>>) }

MCMetadata == {None, [size |-> 1, depth |-> 1, safe |-> TRUE], [size |-> 3, depth |-> 1, safe |-> TRUE],
               [size |-> 2, depth |-> 17, safe |-> TRUE], [size |-> 1, depth |-> 1, safe |-> FALSE]}

Base == [nodes |-> 4, depth |-> 2, metadata |-> 2, manifest |-> 6, segments |-> 2, message |-> 12,
         pickle |-> FALSE, tensors |-> TRUE, registry |-> {"Pose", "Box"},
         unencodable |-> {}, unbuildable |-> {}, unloadable |-> {}, unhashable |-> {}]

\* Room for the dict whose key holds an object, and for pickled objects.
Wide == [Base EXCEPT !.nodes = 5, !.depth = 3, !.pickle = TRUE]

Both(c) == [tx |-> c, rx |-> c]

\* What the receiver cannot do, one thing at a time.
Without == {
    [Base EXCEPT !.registry = {"Box"}], [Base EXCEPT !.tensors = FALSE],
    [Wide EXCEPT !.pickle = FALSE], [Wide EXCEPT !.unloadable = {"Thing"}],
    [Wide EXCEPT !.unbuildable = {"Box"}], [Wide EXCEPT !.unhashable = {"Thing", "Box"}] }

MCSettings == {
    Both(Base), Both([Base EXCEPT !.pickle = TRUE, !.depth = 1]),
    Both([Base EXCEPT !.registry = @ \cup {"Map"}, !.unbuildable = {"Map"}]),
    Both(Wide), Both([Wide EXCEPT !.unencodable = {"Thing", "Box"}]),
    [tx |-> Base, rx |-> [Base EXCEPT !.nodes = 1, !.message = 13, !.segments = 3]],
    [tx |-> [Base EXCEPT !.message = 14, !.metadata = 3, !.manifest = 8], rx |-> Base],
    [tx |-> [Base EXCEPT !.segments = 3, !.depth = 3], rx |-> Base] }
    \cup {[tx |-> IF c.nodes = Base.nodes THEN Base ELSE Wide, rx |-> c] : c \in Without}
=============================================================================
