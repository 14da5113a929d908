# A TLA+ model of the WASI-NN host module

This directory models the WASI-NN host plugin of this repository. That plugin is
`src/plugins/wasi_nn/wasinnfunc.cpp`, along with the environment it shares with
the rest of the host. The directory holds:

- TLA+ modules of the plugin's state and of its five host functions;
- TLC configurations that model-check them;
- TLAPS proofs of its main invariant for every value of the constants.

`PROJECT.json` lists the components, the runs, the mutants, the map from every
modelled definition to the source lines it translates, the findings and the
hazards.

## The system

A WebAssembly guest calls five host functions, in any order and with any
arguments. Each function runs to completion on the guest's thread before
returning, and nothing else touches the environment meanwhile.

| host function | code | what it does |
|---|---|---|
| `load` | `WasiNNLoad::body`, 122-512 | builds a graph from guest buffers and appends it to `Env.NNGraph` |
| `init_execution_context` | `WasiNNInitExecCtx::body`, 514-635 | appends a context bound to a graph to `Env.NNContext` |
| `set_input` | `WasiNNSetInput::body`, 637-983 | binds a guest tensor to an input slot of a context |
| `compute` | `WasiNNCompute::body`, 1211-1317 | runs inference on a context |
| `get_output` | `WasiNNGetOuput::body`, 985-1209 | copies an output of a context into a guest buffer and writes the byte count |

Every function first runs a common prologue:

1. Memory 0 must exist, or the call traps with HostFuncError.
2. The guest pointers must resolve.
3. The handle must be in range.

It then branches on the backend of the graph: OpenVINO, PyTorch,
TensorflowLite or Tensorflow. A backend compiled out of the build returns
InvalidArgument.

The two registries are shared by all backends and are append-only:

- a handle is an index into them;
- a call that fails after appending pops the entry it appended.

That rollback, and the indexing of a context's slots by guest-chosen
indices, are where most of the difficulty lies.

## Modules

| module | models |
|---|---|
| `WasiNNTypes` | Error codes, backends, tensor types and the type-size table. The guest tensor descriptor is abstracted (see below). `U32` and `MinOf` model the `uint32_t` byte count of get_output. |
| `WasiNNState` | The variables and the shared steps. `Fail` returns an error and changes nothing. `Abort` is undefined behaviour or an uncaught exception. `AddGraph`/`AddContext` are `emplace_back` plus writing `size() - 1` to the guest. `UpdateCtx` replaces a context. `WriteOutput` is get_output's copy and its `*BytesWritten` write. |
| `WasiNNOpenVINO`, `WasiNNTorch`, `WasiNNTFLite`, `WasiNNTF` | One operator per host function, for each backend's branch. |
| `WasiNN` | `Init`, the prologue (`Trap`, `ContextRejected`, `ContextAccepted`) and the five actions `Load`, `InitExecCtx`, `SetInput`, `GetOutput`, `Compute`. It also holds `Next` (the five functions `WasiNNModule` registers), `Spec` and the properties. |
| `WasiNNRegistry` | The abstract specification: two append-only arenas. A graph entry is its backend; a context entry is the handle of an existing graph. |
| `MC_WasiNN` | The models and tensors TLC enumerates. |
| `WasiNNProofs` | TLAPS proofs of type correctness and `SlotsMatchModel`. |
| `WasiNNRegistryProofs` | TLAPS proofs of `ReturnedHandleFresh` and of the refinement of `WasiNNRegistry`. |
| `WasiNNActionProofs` | TLAPS proofs of the two action properties `FailedCallsKeepRegistrySize` and `ComputeFailureKeepsOutputs`. |
| `WasiNNOutputProofs` | TLAPS proof of `GetOutputCurrent`, through the inductive invariant `OInv`. |

### State

The variables are declared in `WasiNNState`.

| variable | what it holds |
|---|---|
| `nnGraph` | `Env.NNGraph`: each graph's backend, its model (input and output counts, element counts and types, forward's result kind), whether its native objects are non-null, and whether its Tensorflow signature exists |
| `nnContext` | `Env.NNContext`: each context's 0-based graph handle, its input slots, its output slots and its count of successful computes. Each output slot is tagged with the compute that produced it. |
| `call`, `ret`, `written` | The last call with its arguments, what it returned, and what it wrote through guest pointers |
| `fault` | Set by undefined behaviour or an uncaught exception. After a fault no action is enabled, because the host does not go on. Every cfg therefore says `CHECK_DEADLOCK FALSE`. |
| `leakedBlobs` | OpenVINO input blobs allocated and never freed |

### Actions

Each host function is one action, which models the whole call: the prologue,
every check in the code's order, every native call that can fail, and the
rollback.

- A native call that can fail is a disjunct: the model chooses whether it
  succeeds.
- A sequence of checks is an `IF ... ELSE IF` chain in the code's order, for
  example `OVSetInputError` and `TFGetOutputError`.
- Guest-chosen inputs are `\E` over small constant sets: the encoding, the
  target, the builder count, the model, the handles and indices, the tensor,
  the buffer size, and whether memory 0 and each pointer resolve.

## Abstractions

- **Tensor descriptor.** A tensor is abstracted to what the checks read:
  - whether its pointer, dimensions and data resolve;
  - its rank;
  - its element count;
  - its type tag;
  - its data length;
  - one data value.

  The dimension values and the bytes are not modelled.
- **Model.** A model is a record, not a file:
  - input and output counts;
  - element counts;
  - input type;
  - the rank of its output (Tensorflow's `tensor<float, 2>()`);
  - whether PyTorch's `forward` returns a tensor, a list or something else.
- **Output data.** An output is the number of the compute that produced it.
  This is what `GetOutputFresh` compares.
- **Native libraries.** They are opaque: each call succeeds or fails, as the
  code's error paths allow.
- **Uninitialized reads.** In OpenVINO get_output, the status of
  `ie_blob_size` is ignored (1037). When that call fails, `int BlobSize` is
  read uninitialized. `OVGetOutput` therefore copies either the blob's real
  size or any value of the type (`OVCopyOutput`). A size past the blob is an
  `oob_read` fault, which `NoOutOfBoundsRead` names.
- **`uint32_t` arithmetic.** It is `% U32Mod`. The cfgs set `U32Mod = 64`,
  with byte counts below and around it.

## Runs

There are two passing runs, each checking the same seven properties:

| run | setup |
|---|---|
| `backends` (`MC_Backends.cfg`) | Every backend compiled in. An encoding no backend serves. Three models covering every forward result kind, with input and output counts of 1 and 2. Well-formed, short, long and malformed tensors. Two contexts, one compute per context. |
| `mixed` (`MC_Mixed.cfg`) | Two graphs of different backends sharing the registry. Tensorflow compiled out. No OpenVINO core. Callers with and without memory 0. |

The seven properties are:

- **`TypeOK`.**
- **`SlotsMatchModel`.** While no fault has happened:
  - every context is bound to an existing, ready graph;
  - its input slots number the model's inputs, and so do its output slots
    (Tensorflow: none before the first compute);
  - its outputs come from computes it ran.

  The adapters check a guest index only against the model's counts and then
  index the context's slots, so this invariant is what makes those checks
  enough.
- **`ReturnedHandleFresh`.** A successful load or init writes back the index
  of the entry it appended, and that entry is the one asked for.
- **`GetOutputCurrent`.** A get_output that returns Success on an OpenVINO,
  TensorflowLite or Tensorflow context copies the result of that context's
  latest compute (in the model an output slot holds the number of the
  compute that wrote it). Breaking it takes a compute, a second call on the
  same context and a get_output, and it fails if a compute refreshes only
  some outputs, if a failed compute touches them, or if get_output reads a
  slot it did not range-check. PyTorch is excluded. Its compute appends to
  `TorchOutputs`, so this property fails for it; that failure is the
  violation run `v_torch_stale_output` (`GetOutputFresh`).
- **`FailedCallsKeepRegistrySize`** (action property). A call that returns
  an error leaves both registries at their size: every `pop_back` is there.
- **`ComputeFailureKeepsOutputs`** (action property). A failed compute
  leaves every context's outputs as they were.
- **`RefinesRegistry`.** The host implements `WasiNNRegistry!RegSpec` under
  the mapping from graphs to backends and from contexts to graph handles.
  Every host call is an append of a graph, an append of a context to an
  existing graph, or a stutter.

**Why the bounds are enough.** Each bug the mutants plant is found within
these bounds: a missing pop, an off-by-one handle, swapped slot counts, a
missing compute count, outputs written before the failure check, unset
output slots, an OpenVINO infer never waited on. The bounds include:

- two registry entries of each kind, so that a handle can name the wrong one;
- indices 0 and 1 against models with one and two slots, so that an index
  past the end is tried;
- one compute per context, because compute numbers matter only for
  freshness.

### Violation runs

Ten violation runs each check one property that the spec states and the code
breaks. Each is a finding in `PROJECT.json`.

| run | property | what the code does |
|---|---|---|
| `v_tf_input_index` | `NoOutOfBoundsWrite` | `TFInputAlready[Index]` is written with no bound check (897) |
| `v_tf_output_before_compute` | `NoOutOfBoundsRead` | get_output reads `TFOutputTensors[Index]` before any compute (1123) |
| `v_ov_overflow` | `NoHeapOverflow` | A size mismatch is only logged, and `copy_n` overflows the blob (782) |
| `v_tflite_null_dims` | `NoNullDeref` | `DimensionBuf` is dereferenced before its null check (923) |
| `v_tf_type_tag` | `NoUnreachable` | An unmapped type tag reaches `assumingUnreachable` (876) |
| `v_tf_signature` | `NoUncaughtException` | `SigMap.at` throws out of init after the append (611) |
| `v_ov_blob_leak` | `NoLeakedBlobs` | The `ie_blob_size` failure path does not free the blob (766) |
| `v_torch_set_input_failure` | `SetInputFailureKeepsInputs` | `TorchInputs.resize` runs before the checks (806) |
| `v_torch_stale_output` | `GetOutputFresh` | compute appends to `TorchOutputs` and never clears it (1257) |
| `v_tflite_truncation` | `TruncationReported` | `TfLiteTensorCopyToBuffer` fails on a short buffer, and the size is reported anyway (1190) |

These divergences from the spec are modelled but have no run of their own:

- Tensorflow and TensorflowLite accept non-F32 inputs.
- OpenVINO and TensorflowLite compute with unbound inputs.
- PyTorch's `Index + 1` and `BlobSize * 4` wrap in `uint32_t`.
- Tensorflow's rank `CHECK` in the get_output debug loop. The model reaches
  it as fault `check_failure`.
- Tensorflow returns Busy for an unresolved output buffer.

### Mutants

`PROJECT.json` gives one mutant for every property of every passing run.
Each is an operator defined beside the one it replaces (named `...NoPop`,
`...SizeHandle`, `...Swapped` and so on). TLC finds the property violated
with each mutant in place.

## Fairness and liveness

None is assumed and none is checked. The guest decides whether and when to
call, so the host promises nothing about progress. Each host call is a single
step that always returns or faults, so there is no waiting inside the host.

## Proofs (`WasiNNProofs`, `WasiNNRegistryProofs`, `WasiNNActionProofs`, `WasiNNOutputProofs`)

Eight theorems are proved, for every value of the constants that satisfies
`ConstantsAssumption`:

- `IInvInvariant == Spec => []IInv`;
- `TypeCorrect == Spec => []TypeOK`;
- `SlotsMatchModelInvariant == Spec => []SlotsMatchModel`;
- `HandleFreshInvariant == Spec => []ReturnedHandleFresh` (in
  `WasiNNRegistryProofs`);
- `RegistryRefinement == Spec => RefinesRegistry` (in `WasiNNRegistryProofs`);
- `RollbackOnFailure == Spec => FailedCallsKeepRegistrySize` (in
  `WasiNNActionProofs`);
- `ComputeFailureKeepsOutputsHolds == Spec => ComputeFailureKeepsOutputs`
  (in `WasiNNActionProofs`);
- `GetOutputCurrentInvariant == Spec => []GetOutputCurrent` (in
  `WasiNNOutputProofs`).

Every property of the passing runs is stated by one of these theorems.

`ConstantsAssumption` states the following:

- the constant sets are of the right types;
- `Data` is non-empty and excludes `NoData`;
- `U32Mod` is positive;
- the bounds are naturals.

The inductive invariant is `IInv == TypeOK /\ SlotsMatchModel /\ GraphsReady`.
Neither `TypeOK` nor `SlotsMatchModel` is inductive alone:

- **Type correctness needs `SlotsMatchModel`.** For example, OpenVINO's
  get_output reads `outputs[i + 1]` after checking `i` only against the
  model's `nOut`. Only the slot invariant makes that read an element of the
  sequence.
- **`SlotsMatchModel` needs `GraphsReady`.** A context records its graph as
  ready. Graphs are only appended, and only ready ones, so the invariant has
  to carry that fact for the graphs that contexts can be bound to later.

### Layout of the proof

1. Lemmas about `Repeat`, slot updates and context records.
2. Generic step lemmas, one per shape of step: `FailStep`, `AbortStep`,
   `WriteStep`, `AddGraphStep`, `AddContextStep`, `UpdateCtxStep`.
3. One step lemma per backend and host function, such as `OVSetInputStep`
   and `TorchComputeStep`. Each splits on the disjuncts of the adapter's
   operator.
4. `PrologueStep` and one lemma per host action.
5. `InitIInv` and `NextIInv`.
6. The temporal theorems, each by `PTL`.

TLC checks `TypeOK` and `SlotsMatchModel` in both passing runs. The third
conjunct, `GraphsReady`, holds by the proof alone: every load branch appends a
graph whose `ready` field is TRUE, and no action changes a graph afterwards.

### The registry proofs

`WasiNNRegistryProofs` rests on one fact about a single step, `NextShape`.
From a state of `TypeOK`, every host call has one of three shapes
(`StepShape`):

- It keeps the registry (`KeepReg`): `nnGraph` is unchanged, and
  `nnContext` keeps its length and every context's graph. It does not
  return Success for load or init.
- It is a load that appends one graph of the requested encoding and writes
  back `Len(nnGraph)` (`GraphAppended`).
- It is an init_execution_context that appends one context bound to the
  requested graph, which exists. On success it writes back that context's
  index (`ContextAppended`). Tensorflow's abort after the append also has
  this shape.

The proof has one lemma per backend operation:

- set_input, get_output and compute only replace a context's inputs,
  outputs and count (`...Keeps`);
- each load and init branch either fails or appends (`LoadShape`,
  `InitExecCtxShape`).

Two lemmas follow from a step's shape:

- `ShapeFresh`: `ReturnedHandleFresh` holds after any step of one of these
  shapes. So `IInv /\ ReturnedHandleFresh` is inductive, and it gives
  `HandleFreshInvariant`.
- `ShapeRefines`: under the mapping `graphsBar`/`contextsBar`, a step of
  any shape is `RegNext` or a stutter. With `IInvInvariant` (which supplies
  `TypeOK` on both sides of the step), this gives `RegistryRefinement`.

### The action properties

`WasiNNActionProofs` proves both action properties from `TypeOK` and one
step lemma each.

- **`RollbackOnFailure`.** By `NextShape`, a step that returns an error code
  or the trap has the first shape, `KeepReg` (`ShapeRollback`). The append
  shapes return Success, or `"Abort"` for Tensorflow's init.
- **`ComputeFailureKeepsOutputsHolds`.** `OpOfCall` shows that only compute
  records the op `"compute"`. Then `ComputeBranchOutcome` shows that each
  backend's compute either leaves `nnContext` alone or returns Success.

Each theorem ends with `[]TypeOK /\ [][Next]_vars => [][A]_v`, by `PTL`.

### The freshness proof

`GetOutputCurrent` is not inductive. It speaks only of the state after a
get_output, and what get_output copies depends on what earlier computes left
in the slots. The inductive invariant `OInv` is `IInv` plus two conjuncts:

- **`OutputsCurrent`.** While no fault has happened, every output slot of a
  non-PyTorch context holds the context's compute count. Init creates slots
  holding 0 (`Repeat(0, nOut)`, or none for Tensorflow) with a count of 0.
  A successful OpenVINO, TensorflowLite or Tensorflow compute rewrites every
  slot with the new count (`RepeatComputed`). Every other step keeps the
  outputs and counts (`KeepOutputs`), or appends a graph whose index no
  context uses yet (`GraphAppendCurrent`).
- **`LastCopy`.** After a successful get_output, the host has not faulted,
  the handle and the index are in range, and `written.gen` is the slot it
  indexed. Each backend's get_output writes only after a range check
  (`GetOutputCopies`):
  - OpenVINO and TensorflowLite check against the model's `nOut`, which
    equals the slot count by `SlotsMatchModel`;
  - PyTorch checks against `Len(outputs)`;
  - for Tensorflow, `TFGetOutputError` is Success only when the index is
    below `Len(outputs)`.

`NextOInv` has one case per host action. `OInvCurrent` then combines
`LastCopy` with `OutputsCurrent` at the copied context. TLC checked
`OutputsCurrent` and `LastCopy` on both passing runs before the proof was
written.

### What is not proved

These stay with TLC:

- the violation properties. Each is a property the code breaks, so there is
  nothing to prove.

Liveness and `ENABLED` are out of the prover's reach, and none is checked
(see Fairness). No RECURSIVE operator is used in any module.

## Not modelled

- **`BackendsMapping`.** Plugin registration (`wasinnmodule.cpp`) adds the
  five host functions, and those are `Next`. The `BackendsMapping` entry it
  also adds is never read.
- **The counter example module.** It shares no state with WASI-NN. Its one
  hazard is that `already_count` has no initializer (`counterenv.h:20`); it
  is listed in `PROJECT.json`.
- **Allocation failure.** The guest sizes two allocations before any check:
  TensorflowLite's `TFDimension(DimensionLen)` (919) and PyTorch's
  `TorchInputs.resize(Index + 1)` (806). A huge size throws
  `std::bad_alloc`, uncaught.
- **The container type of `Env.NNGraph`.** Contexts keep a reference to
  their graph, and whether appends relocate graphs depends on this type. It
  is declared outside `src/`.
- **`CreateTemporaryDirectory`.** Its collision loop depends on the file
  system.
- **`TfLiteInterpreterAllocateTensors` failing (589).** The model treats it
  as always succeeding.

## Plan for further work

- Model `TfLiteInterpreterAllocateTensors` failing as a nondeterministic
  outcome.
- Give a run to the non-F32 and unbound-input divergences.
- Prove that `WasiNNRegistry`'s own invariants (every context names an
  existing graph) follow from the refinement.
