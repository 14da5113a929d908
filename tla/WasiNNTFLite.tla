----------------------------- MODULE WasiNNTFLite -----------------------------
(***************************************************************************)
(* The TensorflowLite branches of the five host functions.  A context's  *)
(* inputs and outputs are the interpreter's tensors, allocated when the  *)
(* context is created.                                                    *)
(***************************************************************************)
EXTENDS WasiNNState

(* load: one builder; TfLiteModelCreate returning null pops the graph. *)
TFLiteLoad(n, m, bufOk) ==
  \/ (n # 1 \/ ~bufOk) /\ Fail(InvalidArgument)
  \/ n = 1 /\ bufOk /\ Fail(InvalidArgument)
  \/ n = 1 /\ bufOk
     /\ AddGraph([backend |-> TFLite, model |-> m, ready |-> TRUE, sigOk |-> TRUE])

TFLiteInitNoPop(g) ==
  LET m == nnGraph[g + 1].model IN
  \/ ~nnGraph[g + 1].ready /\ Fail(MissingMemory)
  \/ /\ nnGraph[g + 1].ready
     /\ nnContext' = Append(nnContext, [NewContext(g, <<>>, <<>>) EXCEPT !.ready = FALSE])
     /\ ret' = Busy /\ written' = NoWrite
     /\ UNCHANGED <<nnGraph, fault, leakedBlobs>>
  \/ nnGraph[g + 1].ready
     /\ AddContext(NewContext(g, Repeat(NoData, m.nIn), Repeat(0, m.nOut)))

(* Mutant: the failure path pops Env.NNGraph instead of Env.NNContext. *)
TFLiteInitPopsGraph(g) ==
  LET m == nnGraph[g + 1].model IN
  \/ ~nnGraph[g + 1].ready /\ Fail(MissingMemory)
  \/ /\ nnGraph[g + 1].ready
     /\ nnGraph' = SubSeq(nnGraph, 1, Len(nnGraph) - 1)
     /\ ret' = Busy /\ written' = NoWrite
     /\ UNCHANGED <<nnContext, fault, leakedBlobs>>
  \/ nnGraph[g + 1].ready
     /\ AddContext(NewContext(g, Repeat(NoData, m.nIn), Repeat(0, m.nOut)))

(* init: TfLiteInterpreterCreate returning null pops the context. *)
TFLiteInit(g) ==
  LET m == nnGraph[g + 1].model IN
  \/ ~nnGraph[g + 1].ready /\ Fail(MissingMemory)
  \/ nnGraph[g + 1].ready /\ Fail(Busy)
  \/ nnGraph[g + 1].ready
     /\ AddContext(NewContext(g, Repeat(NoData, m.nIn), Repeat(0, m.nOut)))

(* set_input.  DimensionBuf is read in a loop before its null check, so *)
(* an unresolved dimension pointer of a non-empty shape is dereferenced. *)
(* TfLiteTensorCopyFromBuffer fails unless dataLen is the tensor's byte *)
(* size.                                                                  *)
TFLiteSetInputError(c, i, t) ==
  LET m == ModelOf(c) IN
  IF m.nIn <= i THEN InvalidArgument
  ELSE IF ~t.ptrOk THEN InvalidArgument
  ELSE IF ~t.dimOk /\ t.dimLen > 0 THEN "null_deref"
  ELSE IF ~t.dimOk \/ ~t.dataOk THEN InvalidArgument
  ELSE IF m.inType \notin TensorTypes THEN InvalidArgument
  ELSE IF m.inType # t.type THEN InvalidArgument
  ELSE IF t.dataLen # m.inElems * TypeSize(m.inType) THEN Busy
  ELSE Success

TFLiteSetInput(c, i, t) ==
  LET e == TFLiteSetInputError(c, i, t) IN
  \/ e = "null_deref" /\ Abort(e)
  \/ e \in ErrNo \ {Success} /\ Fail(e)
  \/ e = Success /\ UpdateCtx(c, [Ctx(c) EXCEPT !.inputs[i + 1] = t.val])

(* get_output: TfLiteTensorCopyToBuffer copies nothing unless asked for *)
(* exactly the tensor's byte size; its status is ignored and the        *)
(* truncated count is reported.                                          *)
TFLiteGetOutput(c, i, max, outOk, bwOk) ==
  LET bytes == U32(ModelOf(c).outElems * 4)
      n == MinOf(bytes, max)
  IN
  \/ ModelOf(c).nOut <= i /\ Fail(InvalidArgument)
  \/ ModelOf(c).nOut > i /\ ~outOk /\ Fail(InvalidArgument)
  \/ ModelOf(c).nOut > i /\ outOk
     /\ WriteOutput(n, IF n = bytes THEN n ELSE 0, Ctx(c).outputs[i + 1], bwOk)

(* Mutant: the output tensors are taken as refreshed before Invoke's status. *)
TFLiteComputeOutputsFirst(c) ==
  LET k == Ctx(c).computes + 1 IN
  \/ ~Ctx(c).ready /\ Fail(MissingMemory)
  \/ /\ Ctx(c).ready
     /\ nnContext' = [nnContext EXCEPT ![c + 1].outputs = Repeat(k, ModelOf(c).nOut)]
     /\ ret' = Busy /\ written' = NoWrite
     /\ UNCHANGED <<nnGraph, fault, leakedBlobs>>
  \/ Ctx(c).ready
     /\ UpdateCtx(c, [Ctx(c) EXCEPT !.outputs = Repeat(k, ModelOf(c).nOut),
                                    !.computes = k])

(* compute: TfLiteInterpreterInvoke on whatever the input tensors hold. *)
TFLiteCompute(c) ==
  LET k == Ctx(c).computes + 1 IN
  \/ ~Ctx(c).ready /\ Fail(MissingMemory)
  \/ Ctx(c).ready /\ Fail(Busy)
  \/ Ctx(c).ready
     /\ UpdateCtx(c, [Ctx(c) EXCEPT !.outputs = Repeat(k, ModelOf(c).nOut),
                                    !.computes = k])
=============================================================================
