--------------------------------- MODULE MCCodec --------------------------------
(* Tags with names of odd and even length, an index that needs two bytes, and an *)
(* instance of two bytes; values whose first bytes could be a count.              *)
EXTENDS Codec, TLC

CONSTANTS sint, int, dint, str

MCTags == {sint, int, dint, str}
Named(parts) == [instanceID |-> 0, name |-> parts]
MCAddress ==
    sint :> Named(<<[name |-> <<97>>, index |-> <<255, 256>>],
                    [name |-> <<98, 99>>, index |-> << >>]>>)
    @@ dint :> Named(<<[name |-> <<97, 98, 99>>, index |-> << >>]>>)
    @@ int :> Named(<<[name |-> <<101, 102>>, index |-> << >>]>>)
    @@ str :> [instanceID |-> 256, name |-> <<[name |-> <<100>>, index |-> << >>]>>]
MCTypeOf == sint :> 194 @@ int :> 195 @@ dint :> 196 @@ str :> 4046

\* 2 looks counted in four bytes, and 3 does not.
MCContents ==
    sint :> {<<1>>}
    @@ int :> {<<0, 0>>}
    @@ dint :> {U32(2), U32(3)}
    @@ str :> {U32(0), U32(2) \o <<104, 105>>}

\* Nothing, one item, or two of them; a port, an address and zeros whose bytes differ.
MCListings ==
    LET service(name) == <<U16(256), U16(20), U16(1), U16(288), name, << >>, << >>>>
        interface(data) == <<U16(1), U16(Len(data)), data, << >>>>
        identity(name) ==
            <<U16(12), U16(33 + Len(name)), U16(1), U16(2), U16(44818), <<1, 0, 168, 192>>,
              U32(0) \o U32(1), U16(258), U16(12), U16(513), <<20>>, <<11>>, U16(48),
              <<1, 2, 3, 255>>, U8(Len(name)), name, <<3>>>>
        lists(one, other) == {<< >>, <<one>>, <<one, other>>}
    IN  ListServices :> lists(service([i \in 1 .. 16 |-> i]), service([i \in 1 .. 16 |-> 0]))
        @@ ListInterfaces :> lists(interface(<<1, 2, 3>>), interface(<< >>))
        @@ ListIdentity :> lists(identity(<< >>), identity(<<86, 49, 46>>))
=============================================================================
