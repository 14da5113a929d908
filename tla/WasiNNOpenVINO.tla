---------------------------- MODULE WasiNNOpenVINO ----------------------------
(***************************************************************************)
(* The OpenVINO branches of the five host functions, each taken after    *)
(* the common prologue of the facade (WasiNN) has passed.  A native IE C  *)
(* API call that can fail is a disjunct; the failures that lead to the   *)
(* same state and code are one disjunct.                                  *)
(***************************************************************************)
EXTENDS WasiNNState

(* load: the checks before the graph is appended. *)
OVLoadError(n, bufOk) ==
  IF ~OpenVINOCoreReady THEN MissingMemory
  ELSE IF n # 2 THEN InvalidArgument
  ELSE IF ~bufOk THEN InvalidArgument
  ELSE Success

(* load: a native step after emplace_back fails and the graph is popped: *)
(* blob_make_memory, read_network, load_network (Busy), get_buffer,     *)
(* inputs/outputs number, input/output names, set_input_layout (Missing). *)
OVLoadNativeFailure == \E e \in {Busy, MissingMemory} : Fail(e)

OVLoad(n, m, bufOk) ==
  \/ OVLoadError(n, bufOk) # Success /\ Fail(OVLoadError(n, bufOk))
  \/ OVLoadError(n, bufOk) = Success /\ OVLoadNativeFailure
  \/ OVLoadError(n, bufOk) = Success
     /\ AddGraph([backend |-> OpenVINO, model |-> m, ready |-> TRUE, sigOk |-> TRUE])

(* Mutant: the output blobs start as unset tensors. *)
OVInitUnsetOutputs(g) ==
  LET m == nnGraph[g + 1].model IN
  \/ ~nnGraph[g + 1].ready /\ Fail(MissingMemory)
  \/ nnGraph[g + 1].ready /\ Fail(Busy)
  \/ nnGraph[g + 1].ready
     /\ AddContext(NewContext(g, Repeat(NoData, m.nIn), Repeat(NoData, m.nOut)))

(* Mutant: the input and output name counts swapped. *)
OVInitSwapped(g) ==
  LET m == nnGraph[g + 1].model IN
  \/ ~nnGraph[g + 1].ready /\ Fail(MissingMemory)
  \/ nnGraph[g + 1].ready /\ Fail(Busy)
  \/ nnGraph[g + 1].ready
     /\ AddContext(NewContext(g, Repeat(NoData, m.nOut), Repeat(0, m.nIn)))

(* init_execution_context: the context's constructor creates the infer   *)
(* request; the input blobs it allocates are not yet set (NoData) and    *)
(* its output blobs hold no computed result (0).                         *)
OVInit(g) ==
  LET m == nnGraph[g + 1].model IN
  \/ ~nnGraph[g + 1].ready /\ Fail(MissingMemory)
  \/ nnGraph[g + 1].ready /\ Fail(Busy)   \* no infer request: popped
  \/ nnGraph[g + 1].ready
     /\ AddContext(NewContext(g, Repeat(NoData, m.nIn), Repeat(0, m.nOut)))

(* set_input: the checks before the input blob is allocated. *)
OVSetInputError(c, i, t) ==
  IF ~GraphOf(c).ready \/ ~Ctx(c).ready THEN MissingMemory
  ELSE IF ModelOf(c).nIn <= i THEN InvalidArgument
  ELSE IF ~t.ptrOk THEN InvalidArgument
  ELSE IF t.dimLen > 8 THEN InvalidArgument
  ELSE IF ~t.dimOk \/ ~t.dataOk THEN InvalidArgument
  ELSE IF t.type # F32 THEN InvalidArgument
  ELSE Success

(* set_input after the checks.  The blob has t.elems FP32 elements; a    *)
(* size mismatch with t.dataLen is only logged and std::copy_n copies    *)
(* t.dataLen bytes into it.  ie_blob_size failing returns Busy without   *)
(* ie_blob_free.                                                          *)
OVSetInputBlob(c, i, t) ==
  \/ Fail(InvalidArgument)             \* resize algorithm, layout, precision
  \/ Fail(Busy)                        \* ie_blob_make_memory
  \/ /\ leakedBlobs < MaxLeaks         \* ie_blob_size
     /\ ret' = Busy
     /\ written' = NoWrite
     /\ leakedBlobs' = leakedBlobs + 1
     /\ UNCHANGED <<nnGraph, nnContext, fault>>
  \/ Fail(MissingMemory)               \* ie_blob_get_buffer, blob freed
  \/ t.dataLen > t.elems * 4 /\ Abort("heap_overflow")
  \/ t.dataLen <= t.elems * 4 /\ Fail(Busy)  \* ie_infer_request_set_blob
  \/ t.dataLen <= t.elems * 4
     /\ UpdateCtx(c, [Ctx(c) EXCEPT !.inputs[i + 1] = t.val])

OVSetInput(c, i, t) ==
  \/ OVSetInputError(c, i, t) # Success /\ Fail(OVSetInputError(c, i, t))
  \/ OVSetInputError(c, i, t) = Success /\ OVSetInputBlob(c, i, t)

(* get_output after the precision and get_blob calls: BytesToWrite is   *)
(* min(uint32(BlobSize * 4), max); the output buffer is resolved for it, *)
(* then copy_n reads it from the blob's outElems * 4 bytes.              *)
OVCopyOutput(c, i, max, outOk, bwOk, blobSize) ==
  LET n == MinOf(U32(blobSize * 4), max) IN
  \/ ~outOk /\ Fail(InvalidArgument)
  \/ outOk /\ n > ModelOf(c).outElems * 4 /\ Abort("oob_read")
  \/ outOk /\ n <= ModelOf(c).outElems * 4
     /\ WriteOutput(n, n, Ctx(c).outputs[i + 1], bwOk)

(* get_output.  The status of ie_blob_size is overwritten unchecked: when *)
(* it fails, BlobSize is the uninitialized int, any value the build      *)
(* leaves (uint32(BlobSize * 4) is then any multiple of 4).              *)
OVGetOutput(c, i, max, outOk, bwOk) ==
  \/ ModelOf(c).nOut <= i /\ Fail(InvalidArgument)
  \/ ModelOf(c).nOut > i
     /\ \/ Fail(InvalidArgument)       \* set_output_precision, get_blob
        \/ Fail(MissingMemory)         \* ie_blob_get_cbuffer
        \/ OVCopyOutput(c, i, max, outOk, bwOk, ModelOf(c).outElems)
        \/ \E garbage \in 0..(U32Mod \div 4 - 1) :
             OVCopyOutput(c, i, max, outOk, bwOk, garbage)

(* Mutant: ie_infer_request_infer_async with no ie_infer_request_wait:   *)
(* Success before the output blobs are written.                          *)
OVComputeNoWait(c) ==
  \/ Fail(Busy)
  \/ UpdateCtx(c, [Ctx(c) EXCEPT !.computes = Ctx(c).computes + 1])

(* compute: ie_infer_request_infer, whatever inputs have been set. *)
OVCompute(c) ==
  LET k == Ctx(c).computes + 1 IN
  \/ Fail(Busy)
  \/ UpdateCtx(c, [Ctx(c) EXCEPT !.outputs = Repeat(k, ModelOf(c).nOut),
                                 !.computes = k])
=============================================================================
