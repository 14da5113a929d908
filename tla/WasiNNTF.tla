------------------------------- MODULE WasiNNTF -------------------------------
(***************************************************************************)
(* The Tensorflow branches of the five host functions.  A context's      *)
(* inputs are TFInputAlready, one (name, tensor) pair per sorted input    *)
(* name; its outputs are TFOutputTensors, filled by Session::Run.        *)
(***************************************************************************)
EXTENDS WasiNNState

(* load: three builders (weights, tag set, signature); the saved model  *)
(* is written to a fresh temporary directory and loaded; the signature  *)
(* name is stored without being checked against the model.              *)
TFLoad(n, m, bufOk, sigOk) ==
  \/ (n # 3 \/ ~bufOk) /\ Fail(InvalidArgument)
  \/ n = 3 /\ bufOk /\ Fail(InvalidArgument)  \* file open, MaybeSavedModelDirectory
  \/ n = 3 /\ bufOk /\ Fail(Busy)             \* bundle, LoadSavedModel
  \/ n = 3 /\ bufOk
     /\ AddGraph([backend |-> TF, model |-> m, ready |-> TRUE, sigOk |-> sigOk])

(* Mutant: the context is bound to GraphId + 1. *)
TFInitOffByOne(g) ==
  LET gr == nnGraph[g + 1] IN
  \/ ~gr.ready /\ Fail(Busy)
  \/ gr.ready /\ ~gr.sigOk
     /\ nnContext' = Append(nnContext, NewContext(g + 1, <<>>, <<>>))
     /\ fault' = "uncaught_exception"
     /\ ret' = "Abort"
     /\ written' = NoWrite
     /\ UNCHANGED <<nnGraph, leakedBlobs>>
  \/ gr.ready /\ gr.sigOk
     /\ AddContext(NewContext(g + 1, Repeat(NoData, gr.model.nIn), <<>>))

(* init: the context is appended before SigMap.at(TFSignature), which   *)
(* throws std::out_of_range, uncaught, for an unknown signature.         *)
TFInit(g) ==
  LET gr == nnGraph[g + 1] IN
  \/ ~gr.ready /\ Fail(Busy)
  \/ gr.ready /\ ~gr.sigOk
     /\ nnContext' = Append(nnContext, NewContext(g, <<>>, <<>>))
     /\ fault' = "uncaught_exception"
     /\ ret' = "Abort"
     /\ written' = NoWrite
     /\ UNCHANGED <<nnGraph, leakedBlobs>>
  \/ gr.ready /\ gr.sigOk
     /\ AddContext(NewContext(g, Repeat(NoData, gr.model.nIn), <<>>))

(* set_input.  TensorflowTypeMap of a tag outside the enum reaches       *)
(* assumingUnreachable; the debug loop prints the first 10 bytes of the *)
(* copied tensor; TFInputAlready[Index] is written with no bound check.  *)
TFSetInputError(c, i, t) ==
  IF ~t.ptrOk \/ ~t.dimOk \/ ~t.dataOk THEN InvalidArgument
  ELSE IF t.type \notin TensorTypes THEN "unreachable"
  ELSE IF t.elems * TypeSize(t.type) # t.dataLen THEN InvalidArgument
  ELSE IF t.dataLen < 10 THEN "oob_read"
  ELSE IF i >= Len(Ctx(c).inputs) THEN "oob_write"
  ELSE Success

TFSetInput(c, i, t) ==
  LET e == TFSetInputError(c, i, t) IN
  \/ e \in Faults /\ Abort(e)
  \/ e = InvalidArgument /\ Fail(e)
  \/ e = Success /\ UpdateCtx(c, [Ctx(c) EXCEPT !.inputs[i + 1] = t.val])

(* get_output.  The index is checked against TFOutputNames only, then   *)
(* TFOutputTensors[Index] is read; an unresolved output buffer is Busy; *)
(* the debug loops read tensor<float, 2>()(0, 0..9) and ten floats of   *)
(* the output buffer.                                                     *)
TFGetOutputError(c, i, n, outOk) ==
  LET m == ModelOf(c) IN
  IF m.nOut <= i THEN InvalidArgument
  ELSE IF Len(Ctx(c).outputs) <= i THEN "oob_read"
  ELSE IF ~outOk THEN Busy
  ELSE IF ~m.outRank2 THEN "check_failure"
  ELSE IF m.outElems < 10 \/ n < 40 THEN "oob_read"
  ELSE Success

TFGetOutput(c, i, max, outOk, bwOk) ==
  LET n == MinOf(U32(ModelOf(c).outElems * 4), max)
      e == TFGetOutputError(c, i, n, outOk)
  IN
  \/ e \in Faults /\ Abort(e)
  \/ e \in ErrNo \ {Success} /\ Fail(e)
  \/ e = Success /\ WriteOutput(n, n, Ctx(c).outputs[i + 1], bwOk)

(* compute: Session::Run fails when an input tensor was never set (an   *)
(* empty tensor is fed) or natively, returning before TFOutputTensors   *)
(* is filled.                                                           *)
TFCompute(c) ==
  LET x == Ctx(c)
      k == x.computes + 1
  IN
  \/ ~x.ready /\ Fail(MissingMemory)
  \/ x.ready /\ Fail(Busy)
  \/ /\ x.ready /\ \A j \in 1..Len(x.inputs) : x.inputs[j] # NoData
     /\ UpdateCtx(c, [x EXCEPT !.outputs = Repeat(k, ModelOf(c).nOut),
                               !.computes = k])
=============================================================================
