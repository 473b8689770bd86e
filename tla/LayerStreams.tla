---------------------------- MODULE LayerStreams ----------------------------
(***************************************************************************)
(* The replay of per-layer graphs over CUDA streams (GraphedDecodeLayers   *)
(* of engine/cuda_graph.py, with the staging buffers of engine/staging.py).*)
(* The host only enqueues: the copies of a step's inputs and its embedding *)
(* go to the current stream, layer i to one of two side streams in turn,   *)
(* the final norm to the current stream again.  Each stream runs its own   *)
(* operations in order; across streams there is only what wait_stream      *)
(* orders.  Every layer reads the staging buffer before it, writes the one *)
(* after it, and uses the same pool of temporary storage.                  *)
(*                                                                         *)
(* An operation reads when it starts and writes when it ends.  A buffer    *)
(* holds the step whose activations it has; Mixed when its layer read      *)
(* another step's.                                                         *)
(***************************************************************************)
EXTENDS Integers, Sequences, FiniteSets

CONSTANTS
  LayerCounts,   \* numbers of layers of the models replayed
  MaxSteps       \* bound on the decode steps

ASSUME StreamsAssumption == LayerCounts \subseteq Nat \ {0} /\ MaxSteps \in Nat

Streams == {"current", "side0", "side1"}
Mixed == 0
NoLogits == -1

VARIABLES
  layers,     \* number of captured layer graphs, 0 before the capture
  step,       \* steps the host has enqueued
  queue,      \* operations of each stream not yet ended
  started,    \* whether a stream runs the head of its queue
  saw,        \* what the running operation of a stream read
  ended,      \* operations a stream has ended
  buffers,    \* the step each staging buffer holds
  active,     \* active_count of each staging buffer: 0 or 1
  inputs,     \* the step of ids, pos, slot mapping and block table
  result,     \* what the host got for each step
  late        \* <<step, layer>> that started on other inputs than their step's

streamVars == <<layers, step, queue, started, saw, ended, buffers, active, inputs, result, late>>

-----------------------------------------------------------------------------
(* The host *)

\* The event of wait_stream: all that is in a stream's queue by now.
AllOf(q, s) == [stream |-> s, count |-> ended[s] + Len(q[s])]

Overlapped == layers > 1

\* streams[i % 2], counting layers from 0; without overlap, the current one.
StreamOf(i) ==
  IF ~ Overlapped THEN "current" ELSE IF i % 2 = 1 THEN "side0" ELSE "side1"

Other(s) == IF s = "side0" THEN "side1" ELSE "side0"

Op(kind, i, after) == [kind |-> kind, layer |-> i, step |-> step + 1, after |-> after]

Enqueued(q, s, op) == [q EXCEPT ![s] = Append(@, op)]

\* Mutant: a layer's stream does not wait for the other one.
WaitsOfNone(q, i) == {}

\* What layer i waits for.
WaitsOf(q, i) == IF Overlapped THEN {AllOf(q, Other(StreamOf(i)))} ELSE {}

\* _replay_layer_graphs: layers 1..i on top of the queues q.
WithLayers(q0) ==
  LET q[i \in 0..layers] ==
        IF i = 0 THEN q0
        ELSE Enqueued(q[i - 1], StreamOf(i), Op("layer", i, WaitsOf(q[i - 1], i)))
  IN  q[layers]

\* The current stream waits for the stream of the last layer.
WithNorm(q) ==
  Enqueued(q, "current", Op("norm", layers, {AllOf(q, StreamOf(layers))}))

\* The host has read the last step's tokens: the current stream is drained.
Synchronized == queue["current"] = <<>>

\* try_decode.
EnqueueStep ==
  /\ layers > 0 /\ step < MaxSteps /\ Synchronized
  /\ queue' = WithNorm(WithLayers(Enqueued(queue, "current", Op("fill", 0, {}))))
  /\ active' = [i \in 0..layers |-> 1]
  /\ step' = step + 1
  /\ UNCHANGED <<layers, started, saw, ended, buffers, inputs, result, late>>

\* replay_layers_from_staging at an empty boundary: every layer is skipped.
SkipEmptyStep ==
  /\ layers > 0 /\ step < MaxSteps /\ Synchronized
  /\ active' = [i \in 0..layers |-> 0]
  /\ step' = step + 1
  /\ result' = Append(result, NoLogits)
  /\ UNCHANGED <<layers, queue, started, saw, ended, buffers, inputs, late>>

\* The layer graphs are captured once and the device synchronized.
CaptureLayers(n) ==
  /\ layers = 0
  /\ layers' = n
  /\ buffers' = [i \in 0..n |-> Mixed]
  /\ active' = [i \in 0..n |-> 0]
  /\ UNCHANGED <<step, queue, started, saw, ended, inputs, result, late>>

-----------------------------------------------------------------------------
(* The device *)

Passed(event) == ended[event.stream] >= event.count

Read(op) == IF op.kind = "fill" THEN op.step
            ELSE buffers[IF op.kind = "layer" THEN op.layer - 1 ELSE layers]

Launch(s) ==
  /\ queue[s] # <<>> /\ ~ started[s]
  /\ LET op == Head(queue[s]) IN
       /\ \A event \in op.after : Passed(event)
       /\ started' = [started EXCEPT ![s] = TRUE]
       /\ saw' = [saw EXCEPT ![s] = Read(op)]
       /\ late' = IF op.kind = "layer" /\ (inputs # op.step \/ (op.layer = 1 /\ Read(op) # op.step))
                    THEN late \cup {<<op.step, op.layer>>} ELSE late
  /\ UNCHANGED <<layers, step, queue, ended, buffers, active, inputs, result>>

\* The first layer makes its step's activations of whatever it read; a later
\* one does so only from the same step's.
Made(op, read) == IF op.layer = 1 \/ read = op.step THEN op.step ELSE Mixed

End(s) ==
  /\ started[s]
  /\ LET op == Head(queue[s]) IN
       /\ buffers' = CASE op.kind = "fill"  -> [buffers EXCEPT ![0] = op.step]
                       [] op.kind = "layer" -> [buffers EXCEPT ![op.layer] = Made(op, saw[s])]
                       [] op.kind = "norm"  -> buffers
       /\ inputs' = IF op.kind = "fill" THEN op.step ELSE inputs
       /\ result' = IF op.kind = "norm" THEN Append(result, saw[s]) ELSE result
  /\ queue' = [queue EXCEPT ![s] = Tail(@)]
  /\ started' = [started EXCEPT ![s] = FALSE]
  /\ ended' = [ended EXCEPT ![s] = @ + 1]
  /\ UNCHANGED <<layers, step, saw, active, late>>

StreamsInit ==
  /\ layers = 0 /\ step = 0 /\ inputs = Mixed
  /\ queue = [s \in Streams |-> <<>>]
  /\ started = [s \in Streams |-> FALSE]
  /\ saw = [s \in Streams |-> Mixed]
  /\ ended = [s \in Streams |-> 0]
  /\ buffers = <<>> /\ active = <<>> /\ result = <<>>
  /\ late = {}

StreamsNext ==
  \/ \E n \in LayerCounts : CaptureLayers(n)
  \/ EnqueueStep
  \/ SkipEmptyStep
  \/ \E s \in Streams : Launch(s) \/ End(s)

StreamsSpec == StreamsInit /\ [][StreamsNext]_streamVars

-----------------------------------------------------------------------------
(* Properties *)

Running == {s \in Streams : started[s] /\ Head(queue[s]).kind = "layer"}

\* However the streams interleave, the layers of a step run one after another
\* and in order: never two at once on the shared temporary storage, each on the
\* activations the layer before it made, the norm on those of the last; a step
\* that nothing was enqueued for has no result of an earlier one.
LayersInOrder ==
  /\ Cardinality(Running) <= 1
  /\ \A s \in Running : LET op == Head(queue[s]) IN op.layer > 1 => saw[s] = op.step
  /\ \A n \in DOMAIN result : result[n] \in {n, NoLogits}

\* What the hand-off between the streams leaves out: the first side stream does
\* not wait for the current one, so a layer may start on the inputs and the
\* embedding of the step before.  False.
ReadsItsInputs == late = {}
=============================================================================
