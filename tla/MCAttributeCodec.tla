-------------------------- MODULE MCAttributeCodec --------------------------
(***************************************************************************)
(* Inputs for AttributeCodec: encodings of bounded values, and arbitrary   *)
(* short texts.                                                            *)
(***************************************************************************)
EXTENDS AttributeCodec

Svc  == <<"cpu">>
Keys == {<<>>, <<"z">>}

Scalars == {IntV(0), IntV(3), BoolV(TRUE), BoolV(FALSE), StrV(<<>>), StrV(<<"z">>)}
Datas   == {DataV(<<>>), DataV(<<26>>), DataV(<<0, 255>>)}
Lists   == {ListV(s) : s \in BoundedSeq(Scalars \cup {ListV(<<>>), ListV(<<IntV(1)>>)}, 2)}
Dicts   == {DictV(<<[key |-> k, val |-> v]>>) : k \in Keys, v \in Scalars \cup {ListV(<<IntV(1), IntV(2)>>)}}
           \cup {DictV(<<[key |-> <<>>, val |-> IntV(1)], [key |-> <<"z">>, val |-> v]>>) : v \in Datas}
Nested  == {ListV(<<d, IntV(2)>>) : d \in Dicts}

(* Values the spec promises to round-trip, and interfaces to a service. *)
RoundTripValues == Scalars \cup Datas \cup Lists \cup Dicts \cup Nested
                   \cup {IfaceV(Svc)}

Encoded(S) == {[text |-> Encode(v), orig |-> v] : v \in S}

MCRoundTrip  == Encoded(RoundTripValues)
MCFloat      == Encoded({ListV(<<FloatV(1)>>)})
MCMalformed  == {[text |-> t, orig |-> NoVal] :
                   t \in BoundedSeq({"[", "{", "(", "'", ",", ":", "1", "A"}, 3)}
MCServices   == {Svc}

=============================================================================
