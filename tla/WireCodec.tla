------------------------------ MODULE WireCodec ------------------------------
(***************************************************************************)
(* One boundary transfer between two devices: the scheme is picked by       *)
(* dist/codec_quality.py, the codes may go through the rANS coder of        *)
(* dist/entropy.py, the route is picked by dist/peer_routes.py, and send    *)
(* and recv of dist/__init__.py put these together.  The quantisation       *)
(* itself is external; a payload is the sequence of codes it made.  The     *)
(* coder's widths are constants (12, 23, 8 and 4 in the code).              *)
(***************************************************************************)
EXTENDS Integers, Sequences, SequencesExt, FiniteSets

CONSTANTS
  AlphabetSize,   \* _ALPHABET_SIZE
  ScaleBits,      \* _SCALE_BITS
  LowBits,        \* log2 of _L
  ByteBits,       \* bits of a byte
  StateBytes,     \* _STATE_BYTES
  MaxPayload,     \* bound on the codes of a transfer
  Devices2,       \* device ordinals
  ValidatedPairs, \* FNI8_P2P_VALIDATED_PAIRS, as sets of two devices
  Capable,        \* <<src, dst>> with can_device_access_peer
  Corrupting      \* pairs whose peer copy arrives as zeros

Code == 0..(AlphabetSize - 1)
Byte == 2 ^ ByteBits
M == 2 ^ ScaleBits
L == 2 ^ LowBits

\* The validated set is an offline qualification: it holds no corrupting pair.
ASSUME WireAssumption ==
  /\ {AlphabetSize, ScaleBits, LowBits, ByteBits, StateBytes, MaxPayload} \subseteq Nat \ {0}
  /\ AlphabetSize <= M /\ ScaleBits <= LowBits
  /\ LowBits + ByteBits <= StateBytes * ByteBits
  /\ ValidatedPairs \cap Corrupting = {}

VARIABLES
  transfer,   \* the codes, devices and options of the send
  freqs,      \* the frequency table
  todo,       \* codes not yet encoded, or not yet decoded
  coder,      \* the coder's state
  wire,       \* the bytes: being written, then as they arrived
  scales,     \* whether the group scales arrived as they were
  got         \* the codes recv has decoded

wireVars == <<transfer, freqs, todo, coder, wire, scales, got>>

-----------------------------------------------------------------------------
(* _normalize_freqs *)

Count(codes, s) == Cardinality({i \in DOMAIN codes : codes[i] = s})
Present(codes) == {s \in Code : Count(codes, s) > 0}
SumOver(f) == FoldLeft(LAMBDA n, s : n + f[s], 0, SetToSeq(Code))

\* Proportional, rounded down, but at least one for a code that occurs.
Scaled(codes) ==
  [s \in Code |->
     IF s \notin Present(codes) THEN 0
     ELSE IF (Count(codes, s) * M) \div Len(codes) > 1 THEN (Count(codes, s) * M) \div Len(codes)
     ELSE 1]

\* The drift is handed out, or taken back, one by one in rounds over order;
\* no code falls below one.
Corrected(f, order) ==
  LET step(a, i) ==
        LET s == order[((i - 1) % Len(order)) + 1]
        IN  IF a.drift > 0 THEN [f |-> [a.f EXCEPT ![s] = @ + 1], drift |-> a.drift - 1]
            ELSE IF a.drift < 0 /\ a.f[s] > 1
                   THEN [f |-> [a.f EXCEPT ![s] = @ - 1], drift |-> a.drift + 1]
            ELSE a
  IN  FoldLeft(step, [f |-> f, drift |-> M - SumOver(f)], [i \in 1..(M * Len(order)) |-> i]).f

\* argsort by count; of equal counts any may come first.
ByCount(codes) ==
  {order \in SetToSeqs(Present(codes)) :
     \A i, j \in DOMAIN order : i < j => Count(codes, order[i]) >= Count(codes, order[j])}

Cumulative(s) == FoldLeft(LAMBDA n, u : n + freqs[u], 0, [i \in 1..s |-> i - 1])

-----------------------------------------------------------------------------
(* encode and decode *)

\* Mutant: one state too many goes on without a byte.
FitsLoosely(x, s) == x <= ((L \div M) * Byte) * freqs[s]

\* state < x_max
Fits(x, s) == x < ((L \div M) * Byte) * freqs[s]

\* Bytes to put out before s can be folded in.
Excess(x, s) == CHOOSE k \in 0..StateBytes :
  Fits(x \div Byte ^ k, s) /\ \A j \in 0..(k - 1) : ~ Fits(x \div Byte ^ j, s)

Low(x, n) == [i \in 1..n |-> (x \div Byte ^ (i - 1)) % Byte]

Folded(x, s) == (x \div freqs[s]) * M + (x % freqs[s]) + Cumulative(s)

\* slot_to_sym
CodeAt(slot) == CHOOSE s \in Code : Cumulative(s) <= slot /\ slot < Cumulative(s) + freqs[s]

\* buf[i] counted from 0; a negative index counts from the end.
At(buf, i) == buf[IF i >= 0 THEN i + 1 ELSE Len(buf) + i + 1]

LoadedState(buf) ==
  FoldLeft(LAMBDA x, i : x + At(buf, Len(buf) - StateBytes + i) * Byte ^ i, 0,
           [i \in 1..StateBytes |-> i - 1])

\* while state < L: one byte more, from the end of what is left.
Refilled(x, buf) ==
  FoldLeft(LAMBDA a, i : IF a.x >= L THEN a
                         ELSE [x |-> a.x * Byte + At(a.buf, Len(a.buf) - 1), buf |-> Front(a.buf)],
           [x |-> x, buf |-> buf], [i \in 1..StateBytes |-> i])

-----------------------------------------------------------------------------
(* The route and the copy *)

Capability(src, dst) == <<src, dst>> \in Capable

\* select_route: validated and capable; anything unknown goes through the host.
PeerRoute(src, dst) ==
  /\ src # dst
  /\ {src, dst} \in ValidatedPairs
  /\ Capability(src, dst)

\* What a copy between devices delivers.
Delivered(src, dst, bytes) ==
  IF PeerRoute(src, dst) /\ {src, dst} \in Corrupting
    THEN [i \in DOMAIN bytes |-> 0] ELSE bytes

-----------------------------------------------------------------------------
(* send and recv *)

NoTransfer == [stage |-> "none", codes |-> <<>>, src |-> 0, dst |-> 0, scheme |-> "none",
               entropy |-> FALSE]

WireInit ==
  /\ transfer = NoTransfer /\ freqs = [s \in Code |-> 0] /\ todo = <<>> /\ coder = 0
  /\ wire = <<>> /\ scales = TRUE /\ got = <<>>

\* select_wire_scheme: int4 when the data clears the bars.
Scheme(clears) == IF clears THEN "int4" ELSE "int8"

\* send up to the copy, as it is once the codec's module is bound: the package
\* never binds its name (Pipeline, conf.codec).
Compress(codes, src, dst, clears, entropy) ==
  /\ transfer.stage = "none"
  /\ transfer' = [stage |-> IF entropy THEN "encode" ELSE "copy", codes |-> codes, src |-> src,
                  dst |-> dst, scheme |-> Scheme(clears), entropy |-> entropy]
  /\ \/ /\ entropy
        /\ \E order \in ByCount(codes) : freqs' = Corrected(Scaled(codes), order)
        /\ todo' = codes /\ coder' = L /\ wire' = <<>>
     \/ ~ entropy /\ wire' = codes /\ UNCHANGED <<freqs, todo, coder>>
  /\ UNCHANGED <<scales, got>>

\* The codes are folded in from the last to the first.
EncodeOne ==
  /\ transfer.stage = "encode" /\ todo # <<>>
  /\ LET s == todo[Len(todo)]
         k == Excess(coder, s)
     IN  /\ wire' = wire \o Low(coder, k)
         /\ coder' = Folded(coder \div Byte ^ k, s)
         /\ todo' = Front(todo)
  /\ UNCHANGED <<transfer, freqs, scales, got>>

Flush ==
  /\ transfer.stage = "encode" /\ todo = <<>>
  /\ wire' = wire \o Low(coder, StateBytes)
  /\ transfer' = [transfer EXCEPT !.stage = "copy"]
  /\ UNCHANGED <<freqs, todo, coder, scales, got>>

\* Coded bytes lie in host memory and are copied from there; raw codes and the
\* scales take the route.
Copy ==
  /\ transfer.stage = "copy"
  /\ LET arrived(bytes) == Delivered(transfer.src, transfer.dst, bytes)
     IN  /\ wire' = IF transfer.entropy THEN wire ELSE arrived(wire)
         /\ scales' = (arrived(<<1>>) = <<1>>)
  /\ transfer' = [transfer EXCEPT !.stage = IF transfer.entropy THEN "decode" ELSE "done"]
  /\ coder' = IF transfer.entropy THEN LoadedState(wire) ELSE coder
  /\ got' = IF transfer.entropy THEN <<>> ELSE wire'
  /\ UNCHANGED <<freqs, todo>>

\* The position moves below the state's bytes as bytes are taken in.
DecodeOne ==
  /\ transfer.stage = "decode" /\ Len(got) < Len(transfer.codes)
  /\ LET left == IF got = <<>> THEN SubSeq(wire, 1, Len(wire) - StateBytes) ELSE wire
         s == CodeAt(coder % M)
         full == Refilled(freqs[s] * (coder \div M) + (coder % M) - Cumulative(s), left)
     IN  coder' = full.x /\ wire' = full.buf /\ got' = Append(got, s)
  /\ transfer' = [transfer EXCEPT !.stage = IF Len(got') = Len(transfer.codes) THEN "done" ELSE @]
  /\ UNCHANGED <<freqs, todo, scales>>

WireNext ==
  \/ \E n \in 1..MaxPayload : \E codes \in [1..n -> Code], src, dst \in Devices2,
        clears, entropy \in BOOLEAN : Compress(codes, src, dst, clears, entropy)
  \/ EncodeOne \/ Flush \/ Copy \/ DecodeOne

-----------------------------------------------------------------------------
(* Property *)

\* The receiver gets exactly the codes and the scales that were sent, whatever
\* the counts round to and whichever way a tie is sorted, over every route the
\* predicate admits although a capable pair may corrupt; and on the way the
\* table sums to M with every code of the payload in it, and the state stays in
\* the interval that the flush of StateBytes bytes and the decoder rely on.
WireLossless ==
  /\ transfer.stage = "done" => got = transfer.codes /\ scales
  /\ transfer.stage \in {"encode", "decode"} =>
       /\ SumOver(freqs) = M /\ \A s \in Present(transfer.codes) : freqs[s] > 0
       /\ L <= coder /\ coder < L * Byte
=============================================================================
