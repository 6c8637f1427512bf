-------------------------------- MODULE Wiring --------------------------------
(***************************************************************************)
(* From a source's format to a device that takes it: wire_up (wiring.cpp), *)
(* negotiate_best (sink.cpp), the list of candidates and the judgement of  *)
(* the answer (negotiation.cpp, format.cpp), and what repack.cpp can move. *)
(*                                                                         *)
(* A channel mask is the list of the positions it names.  A chain is what  *)
(* its output_format() says; its stages may refuse to be configured each   *)
(* time.  A device is whatever Answer makes of a request: it may take what *)
(* it is asked for, refuse it, or take it and hand back something else.    *)
(* Left out: the text of the refusal.                                      *)
(***************************************************************************)
EXTENDS Naturals, Sequences

CONSTANTS
    Sources,            \* formats of files
    Chains,             \* what chains put out: rate, channels and mask
    Devices,            \* devices there are
    Answer(_, _),       \* what a device hands back for a format
    Periods             \* buffer sizes a device states, zero when it fails

Types == {"none", "s16", "s24_packed", "s24_in_32", "s32", "f32", "u8", "f64"}
Encodings == {"pcm", "dop", "iec61937"}
Policies == {"bit_exact", "exact_only", "automatic", "processed"}
Fidelities == {"exact", "repacked", "converted"}
Masks == Seq({"FL", "FR", "FC", "LFE", "BL", "BR", "SL", "SR"})
Formats == [rate : Nat, channels : Nat, mask : Masks, type : Types,
            encoding : Encodings, bits : Nat]

NoChain == [empty |-> TRUE]
NoDevice == [empty |-> TRUE]
Refusal == [refused |-> TRUE]
Provisional == 4096

ASSUME WiringAssumption ==
    /\ Sources \subseteq Formats
    /\ Chains \subseteq [rate : Nat, channels : Nat, mask : Masks]
    /\ Periods \subseteq Nat

-----------------------------------------------------------------------------
(* format.cpp *)

Container(type) ==
    CASE type = "u8" -> 1
      [] type = "s16" -> 2
      [] type = "s24_packed" -> 3
      [] type \in {"s24_in_32", "s32", "f32"} -> 4
      [] type = "f64" -> 8
      [] OTHER -> 0

NaturalBits(type) ==
    IF type = "s24_in_32" THEN 24 ELSE 8 * Container(type)

ValidBits(format) ==
    IF format.bits # 0 THEN format.bits ELSE NaturalBits(format.type)

FrameBytes(format) == Container(format.type) * format.channels

IsValid(format) ==
    /\ format.rate # 0 /\ format.channels # 0
    /\ Container(format.type) # 0
    /\ format.bits <= 8 * Container(format.type)
    /\ format.mask # <<>> => Len(format.mask) = format.channels
    /\ format.encoding # "pcm" => format.type # "f32"

Canonical(bytes, bits) ==
    CASE bits = 0 \/ bits > 8 * bytes -> "none"
      [] bits # 0 /\ bits <= 8 * bytes /\ bytes = 2 -> "s16"
      [] bits # 0 /\ bits <= 8 * bytes /\ bytes = 3 -> "s24_packed"
      [] bits # 0 /\ bits <= 8 * bytes /\ bytes = 4 ->
           IF bits <= 24 THEN "s24_in_32" ELSE "s32"
      [] OTHER -> "none"

(* conventional_channel_mask() *)
Conventional(channels) ==
    CASE channels = 1 -> <<"FC">>
      [] channels = 2 -> <<"FL", "FR">>
      [] channels = 4 -> <<"FL", "FR", "BL", "BR">>
      [] channels = 6 -> <<"FL", "FR", "FC", "LFE", "SL", "SR">>
      [] channels = 8 -> <<"FL", "FR", "FC", "LFE", "BL", "BR", "SL", "SR">>
      [] OTHER -> <<>>

-----------------------------------------------------------------------------
(* negotiation.cpp: what is offered, in which order. *)

IsIntegerPcm(type) == type \in {"s16", "s24_packed", "s24_in_32", "s32"}

Candidate(format, fidelity, tagged) ==
    [format |-> format, fidelity |-> fidelity, tagged |-> tagged]

(* emit(): the plain form, and the extensible one next to it. *)
Forms(format, fidelity) ==
    IF format.mask = <<>> /\ Conventional(format.channels) # <<>>
      THEN <<Candidate(format, fidelity, FALSE),
             Candidate([format EXCEPT !.mask = Conventional(format.channels)],
                       fidelity, TRUE)>>
      ELSE <<Candidate(format, fidelity, FALSE)>>

Repacks(source, bytes) ==
    LET type == Canonical(bytes, ValidBits(source))
    IN  IF bytes = Container(source.type) \/ type = "none"
          THEN <<>>
          ELSE Forms([source EXCEPT !.type = type, !.bits = ValidBits(source)],
                     "repacked")

Converts(list, source, type) ==
    IF \E i \in DOMAIN list : list[i].format.type = type
      THEN list
      ELSE list \o Forms([source EXCEPT !.type = type, !.bits = 0], "converted")

(* emit_conversions(): widest first. *)
Conversions(list, source) ==
    Converts(Converts(Converts(Converts(list, source, "s32"), source, "s24_in_32"),
                      source, "s24_packed"), source, "s16")

Unaltered(source) ==
    Forms(source, "exact") \o
    IF IsIntegerPcm(source.type)
      THEN Repacks(source, 2) \o Repacks(source, 3) \o Repacks(source, 4)
      ELSE <<>>

(* build_candidates() *)
Candidates(source, policy) ==
    CASE ~IsValid(source) -> <<>>
      [] IsValid(source) /\ policy = "processed" ->
           IF source.encoding = "pcm"
             THEN Conversions(Forms(source, "exact"), source) ELSE <<>>
      [] IsValid(source) /\ policy # "processed"
           /\ (policy = "exact_only" \/ source.encoding # "pcm") ->
           Forms(source, "exact")
      [] IsValid(source) /\ policy = "bit_exact" /\ source.encoding = "pcm" ->
           Unaltered(source)
      [] OTHER -> Conversions(Unaltered(source), source)

-----------------------------------------------------------------------------
(* negotiation.cpp: what was taken. *)

SameStream(source, accepted) ==
    /\ IsValid(source) /\ IsValid(accepted)
    /\ source.rate = accepted.rate /\ source.channels = accepted.channels
    /\ source.encoding = accepted.encoding
    /\ source.mask # <<>> => source.mask = accepted.mask
    /\ ValidBits(accepted) = ValidBits(source)

SameContainer(source, accepted) ==
    /\ Container(source.type) = Container(accepted.type)
    /\ "f32" \in {source.type, accepted.type} => source.type = accepted.type

ClassifyByWidth(source, accepted) ==      \* mutant: the valid bits are not compared
    IF /\ IsIntegerPcm(source.type) /\ IsIntegerPcm(accepted.type)
       /\ SameStream(source, [accepted EXCEPT !.bits = ValidBits(source)])
      THEN IF SameContainer(source, accepted) THEN "exact" ELSE "repacked"
      ELSE "converted"

Classify(source, accepted) ==
    IF ~SameStream(source, accepted) THEN "converted"
    ELSE IF SameContainer(source, accepted) THEN "exact"
    ELSE IF /\ Container(source.type) # Container(accepted.type)
            /\ IsIntegerPcm(source.type) /\ IsIntegerPcm(accepted.type)
            /\ source.encoding = "pcm"
      THEN "repacked"
      ELSE "converted"

Allows(policy, fidelity) ==
    CASE policy = "exact_only" -> fidelity = "exact"
      [] policy = "bit_exact" -> fidelity \in {"exact", "repacked"}
      [] OTHER -> TRUE

(* repack.cpp: whether the samples can be moved without losing any of them. *)
CanRepack(from, to, bits) ==
    /\ IsIntegerPcm(from) /\ IsIntegerPcm(to)
    /\ bits # 0 /\ bits <= 8 * Container(to) /\ bits <= 8 * Container(from)

-----------------------------------------------------------------------------
VARIABLES
    source, chain, gain, device,            \* what wire_up is called with
    policy, offered, block, period,         \* Wired, and the chain's block
    tried, ok, accepted, fidelity, error,   \* Negotiated
    processed,
    step                                    \* where wire_up is

given == <<source, chain, gain, device>>
answer == <<tried, ok, accepted, fidelity, error>>
wiringVars == <<given, policy, offered, block, period, answer, processed, step>>

WiringInit ==
    /\ source \in Sources /\ chain \in Chains \cup {NoChain}
    /\ gain \in BOOLEAN /\ device \in Devices \cup {NoDevice}
    /\ policy \in Policies /\ offered = source
    /\ block = 0 /\ period = 0
    /\ tried = 0 /\ ok = FALSE /\ accepted = source
    /\ fidelity = "converted" /\ error = "ok"
    /\ processed = FALSE /\ step = "begin"

List == Candidates(offered, policy)
Asked == List[tried + 1]
Got == Answer(device, Asked.format)

NothingInserted ==
    /\ step = "begin" /\ chain = NoChain
    /\ step' = "ask"
    /\ UNCHANGED <<given, policy, offered, block, period, answer, processed>>

(* The chain is sized for a period nobody has said yet, to know what it puts *)
(* out; and it leaves nothing for a policy to decide.                         *)
ChainIsAsked ==
    /\ step = "begin" /\ chain # NoChain
    /\ block' = Provisional
    /\ offered' = [source EXCEPT !.rate = chain.rate, !.channels = chain.channels,
                                 !.mask = chain.mask]
    /\ policy' = "processed"
    /\ step' = "ask"
    /\ UNCHANGED <<given, period, answer, processed>>

ChainRefuses ==
    /\ step \in {"begin", "size"} /\ chain # NoChain
    /\ step' = "failed"
    /\ UNCHANGED <<given, policy, offered, block, period, answer, processed>>

NoSink ==
    /\ step = "ask" /\ device = NoDevice
    /\ error' = "invalid"
    /\ step' = "failed"
    /\ UNCHANGED <<given, policy, offered, block, period, tried, ok, accepted,
                   fidelity, processed>>

Asking == step = "ask" /\ device # NoDevice /\ tried < Len(List)

DeviceRefuses ==
    /\ Asking /\ Got = Refusal
    /\ tried' = tried + 1 /\ error' = "refused"
    /\ UNCHANGED <<given, policy, offered, block, period, ok, accepted, fidelity,
                   processed, step>>

(* What the policy allows, and the converter can reach. *)
Suits(got) ==
    /\ Allows(policy, Classify(offered, got))
    /\ Classify(offered, got) = "converted" =>
         got.rate = offered.rate /\ got.channels = offered.channels

AnswerIsRefused ==
    /\ Asking /\ Got # Refusal /\ ~Suits(Got)
    /\ tried' = tried + 1 /\ error' = "format"
    /\ UNCHANGED <<given, policy, offered, block, period, ok, accepted, fidelity,
                   processed, step>>

AnswerIsTaken ==
    /\ Asking /\ Got # Refusal /\ Suits(Got)
    /\ tried' = tried + 1 /\ error' = "ok"
    /\ ok' = TRUE /\ accepted' = Got
    /\ fidelity' = Classify(offered, Got)
    /\ step' = "measure"
    /\ UNCHANGED <<given, policy, offered, block, period, processed>>

NobodyTakes ==
    /\ step = "ask" /\ device # NoDevice /\ tried = Len(List)
    /\ error' = IF tried = 0 THEN "invalid" ELSE error
    /\ step' = "failed"
    /\ UNCHANGED <<given, policy, offered, block, period, tried, ok, accepted,
                   fidelity, processed>>

PeriodIsSaid ==
    /\ step = "measure"
    /\ period' \in Periods
    /\ step' = IF period' = 0 THEN "failed" ELSE "size"
    /\ UNCHANGED <<given, policy, offered, block, answer, processed>>

(* use_processed(), and the chain sized for the period the device has. *)
IsWired ==
    /\ step = "size"
    /\ block' = IF chain = NoChain THEN block ELSE period
    /\ processed' = (policy = "processed" \/ fidelity = "converted"
                     \/ chain # NoChain \/ gain)
    /\ step' = "wired"
    /\ UNCHANGED <<given, policy, offered, period, answer>>

WiringNext ==
    \/ NothingInserted \/ ChainIsAsked \/ ChainRefuses
    \/ NoSink \/ DeviceRefuses \/ AnswerIsRefused \/ AnswerIsTaken \/ NobodyTakes
    \/ PeriodIsSaid \/ IsWired

WiringSpec == WiringInit /\ [][WiringNext]_wiringVars

-----------------------------------------------------------------------------
(* negotiation.hpp:11-22, repack.hpp:8-30, passthrough.cpp:60-83: whatever   *)
(* the device hands back, the graph without a converter is built only where   *)
(* it can carry every bit of the file: by a copy of frames of one size, or by *)
(* a repack that repack() does not refuse, with the rate, the channels and    *)
(* the layout the file states.                                                *)
CarriesTheSignal ==
    step = "wired" /\ ~processed =>
        /\ accepted.rate = source.rate /\ accepted.channels = source.channels
        /\ accepted.encoding = source.encoding
        /\ source.mask # <<>> => accepted.mask = source.mask
        /\ source.type = "f32" <=> accepted.type = "f32"
        /\ \/ fidelity = "exact" /\ FrameBytes(accepted) = FrameBytes(source)
           \/ /\ fidelity = "repacked"
              /\ CanRepack(source.type, accepted.type, ValidBits(accepted))
              /\ ValidBits(accepted) = ValidBits(source)

(* sink.cpp:124-131, wiring.cpp:29-48: the graph with one is at the rate and *)
(* of the channels its chain, or the file, gives it, in blocks of the period.*)
ConverterReaches ==
    step = "wired" =>
        /\ accepted.rate = offered.rate /\ accepted.channels = offered.channels
        /\ IF chain = NoChain
             THEN offered = source
             ELSE /\ offered.rate = chain.rate /\ offered.channels = chain.channels
                  /\ block = period /\ processed

Honest ==
    \A i \in DOMAIN List : Answer(device, List[i].format) \in {List[i].format, Refusal}

(* negotiation.cpp:148-152: of what is offered, a device that takes the       *)
(* signal unaltered, and answers what it does, is never converted for.        *)
UnalteredIfItCan ==
    ok /\ fidelity = "converted" /\ policy # "processed" /\ Honest =>
        \A i \in DOMAIN List :
          List[i].fidelity # "converted" => Answer(device, List[i].format) = Refusal

(* What the device is run at is what the file, or its chain, can be brought  *)
(* to, and no further from the file than the device made it.                 *)
KeepsTheSignal == CarriesTheSignal /\ ConverterReaches /\ UnalteredIfItCan
=============================================================================
