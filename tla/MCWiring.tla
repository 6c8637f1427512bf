------------------------------- MODULE MCWiring -------------------------------
(* Files of the kinds the codecs report, and devices that differ in what    *)
(* they take, in whether they want a layout named, and in what they hand    *)
(* back: what they were asked for, or that at another rate, in another      *)
(* container, in another layout or with other bits than it stated.          *)
EXTENDS Wiring

Pcm(type, bits) ==
    [rate |-> 44, channels |-> 2, mask |-> <<>>, type |-> type, encoding |-> "pcm",
     bits |-> bits]

MCSources ==
    {Pcm("s16", 0), Pcm("s24_packed", 0), Pcm("s24_packed", 16), Pcm("s24_in_32", 0),
     Pcm("s24_in_32", 20), Pcm("s32", 0), Pcm("s32", 24), Pcm("f32", 0), Pcm("u8", 0),
     Pcm("f64", 0), Pcm("s16", 24),
     [Pcm("s24_packed", 0) EXCEPT !.encoding = "dop"],
     [Pcm("s16", 0) EXCEPT !.encoding = "iec61937"],
     [Pcm("f32", 0) EXCEPT !.encoding = "iec61937"],
     [Pcm("s16", 0) EXCEPT !.rate = 0],
     [Pcm("s16", 0) EXCEPT !.channels = 3],
     [Pcm("s24_in_32", 0) EXCEPT !.channels = 6,
                                 !.mask = <<"FL", "FR", "FC", "LFE", "BL", "BR">>]}

MCChains ==
    {[rate |-> 48, channels |-> 2, mask |-> <<>>],
     [rate |-> 44, channels |-> 1, mask |-> <<"FC">>]}

MCDevices ==
    [takes : {{"s16"}, {"s24_packed", "s32"}, {"s24_in_32"}, {"s32", "f32"}, {"u8"}, {}},
     named : BOOLEAN,
     says : {"what it takes", "a rate", "a container", "a layout", "bits", "an encoding"}]

Said(says, request) ==
    CASE says = "what it takes" -> request
      [] says = "a rate" -> [request EXCEPT !.rate = 96]
      [] says = "a container" -> [request EXCEPT !.type = "s32"]
      [] says = "a layout" -> [request EXCEPT !.mask = <<"FL", "BR">>]
      [] says = "bits" -> [request EXCEPT !.bits = 16]
      [] says = "an encoding" -> [request EXCEPT !.encoding = "dop"]

MCAnswer(which, request) ==
    IF request.type \in which.takes /\ (which.named => request.mask # <<>>)
      THEN Said(which.says, request) ELSE Refusal

MCPeriods == {0, 480}
=============================================================================
