-------------------------- MODULE WasiNNActionProofs --------------------------
(***************************************************************************)
(* Proofs of the two action properties the passing runs check: a call     *)
(* that returns an error leaves both registries at their size (every      *)
(* emplace_back of load and init_execution_context popped on failure),   *)
(* and a compute that returns an error leaves every context's outputs as  *)
(* they were.                                                              *)
(***************************************************************************)
EXTENDS WasiNNRegistryProofs

-----------------------------------------------------------------------------
(* Rollback. *)

(* A step of one of the three shapes that returns an error code or the   *)
(* trap has the first shape: the append shapes return Success or abort.  *)
LEMMA ShapeRollback ==
  ASSUME StepShape, ret' \in (ErrNo \ {Success}) \cup {HostFuncError}
  PROVE  /\ Len(nnGraph') = Len(nnGraph)
         /\ Len(nnContext') = Len(nnContext)
<1>1. ret' # Success /\ ret' # "Abort"
  BY DEF ErrNo, Success, InvalidArgument, MissingMemory, Busy, HostFuncError
<1>2. KeepReg
  BY <1>1 DEF StepShape, GraphAppended, ContextAppended
<1>. QED  BY <1>2 DEF KeepReg

(* Whatever the guests call, for every value of the constants: a call    *)
(* that returns InvalidArgument, MissingMemory, Busy or the              *)
(* HostFuncError trap has left Env.NNGraph and Env.NNContext at the size *)
(* they had -- the pop_back after every failing native step of load and  *)
(* init_execution_context, and no append before a prologue check.        *)
THEOREM RollbackOnFailure == Spec => FailedCallsKeepRegistrySize
<1>1. TypeOK /\ [Next]_vars =>
        [ret' \in (ErrNo \ {Success}) \cup {HostFuncError} =>
           /\ Len(nnGraph') = Len(nnGraph)
           /\ Len(nnContext') = Len(nnContext)]_vars
  <2>. SUFFICES ASSUME TypeOK, [Next]_vars,
                       ret' \in (ErrNo \ {Success}) \cup {HostFuncError}
                PROVE  Len(nnGraph') = Len(nnGraph) /\ Len(nnContext') = Len(nnContext)
    OBVIOUS
  <2>1. CASE Next
    BY <2>1, NextShape, ShapeRollback
  <2>2. CASE UNCHANGED vars
    BY <2>2 DEF vars
  <2>. QED  BY <2>1, <2>2
<1>. QED  BY <1>1, TypeCorrect, PTL DEF Spec, FailedCallsKeepRegistrySize

-----------------------------------------------------------------------------
(* Failed computes. *)

(* Only compute records the op "compute". *)
LEMMA OpOfCall ==
  /\ Load => call'.op = "load"
  /\ InitExecCtx => call'.op = "init_execution_context"
  /\ SetInput => call'.op = "set_input"
  /\ GetOutput => call'.op = "get_output"
<1>1. Load => call'.op = "load"
  BY DEF Load, NoCall
<1>2. InitExecCtx => call'.op = "init_execution_context"
  BY DEF InitExecCtx, NoCall
<1>3. SetInput => call'.op = "set_input"
  BY DEF SetInput, NoCall
<1>4. GetOutput => call'.op = "get_output"
  BY DEF GetOutput, NoCall
<1>. QED  BY <1>1, <1>2, <1>3, <1>4

(* Every backend's compute either leaves the contexts alone (its error   *)
(* returns and PyTorch's uncaught forward exception) or returns Success. *)
LEMMA ComputeBranchOutcome ==
  ASSUME NEW c, \/ OVCompute(c) \/ TorchCompute(c) \/ TFLiteCompute(c) \/ TFCompute(c)
  PROVE  nnContext' = nnContext \/ ret' = Success
BY DEF OVCompute, TorchCompute, TFLiteCompute, TFCompute, Fail, Abort, UpdateCtx

(* A compute that returns an error code leaves Env.NNContext as it was. *)
LEMMA ComputeFailureUnchanged ==
  ASSUME Compute, ret' \in ErrNo \ {Success}
  PROVE  nnContext' = nnContext
<1>. PICK c \in Indices, mem \in CallerMemory :
       LET Branch(b) ==
             \/ b = OpenVINO /\ OVCompute(c)
             \/ b = PyTorch /\ TorchCompute(c)
             \/ b = TFLite /\ TFLiteCompute(c)
             \/ b = TF /\ TFCompute(c)
       IN /\ fault = "none"
          /\ \/ ContextRejected(c, mem)
             \/ ContextAccepted(c, mem) /\ Branch(GraphOf(c).backend)
  BY DEF Compute
<1>1. ret' # Success
  BY DEF ErrNo, Success, InvalidArgument, MissingMemory, Busy
<1>2. CASE ContextRejected(c, mem)
  BY <1>2 DEF ContextRejected, Trap, Fail
<1>3. CASE \/ OVCompute(c) \/ TorchCompute(c) \/ TFLiteCompute(c) \/ TFCompute(c)
  BY <1>1, <1>3, ComputeBranchOutcome
<1>. QED  BY <1>2, <1>3

(* Spec 8 -- compute never partially mutates the outputs on failure --    *)
(* holds for every value of the constants: in every backend the compute *)
(* result is stored (vector assignment, push_back, the Repeat of the      *)
(* output slots) only on the path that returns Success, never before a   *)
(* check or native call that can still fail.                              *)
THEOREM ComputeFailureKeepsOutputsHolds == Spec => ComputeFailureKeepsOutputs
<1>1. [Next]_vars =>
        [call'.op = "compute" /\ ret' \in ErrNo \ {Success} =>
           \A k \in 1..Len(nnContext) : nnContext'[k].outputs = nnContext[k].outputs]_vars
  <2>. SUFFICES ASSUME [Next]_vars, call'.op = "compute", ret' \in ErrNo \ {Success}
                PROVE  nnContext' = nnContext
    OBVIOUS
  <2>1. CASE Compute
    BY <2>1, ComputeFailureUnchanged
  <2>2. CASE Load \/ InitExecCtx \/ SetInput \/ GetOutput
    BY <2>2, OpOfCall
  <2>3. CASE UNCHANGED vars
    BY <2>3 DEF vars
  <2>. QED  BY <2>1, <2>2, <2>3 DEF Next
<1>. QED  BY <1>1, PTL DEF Spec, ComputeFailureKeepsOutputs
=============================================================================
