----------------------------- MODULE WasiNNTorch -----------------------------
(***************************************************************************)
(* The PyTorch branches of the five host functions.  A context's inputs  *)
(* are Ctx.TorchInputs, grown on demand by set_input; its outputs are    *)
(* Ctx.TorchOutputs, to which every compute appends.                     *)
(***************************************************************************)
EXTENDS WasiNNState

(* Mutant: the c10::Error handler returns without pop_back. *)
TorchLoadNoPop(n, m, bufOk) ==
  \/ (n # 1 \/ ~bufOk) /\ Fail(InvalidArgument)
  \/ /\ n = 1 /\ bufOk
     /\ nnGraph' = Append(nnGraph, [backend |-> PyTorch, model |-> m,
                                    ready |-> FALSE, sigOk |-> TRUE])
     /\ ret' = InvalidArgument /\ written' = NoWrite
     /\ UNCHANGED <<nnContext, fault, leakedBlobs>>
  \/ n = 1 /\ bufOk
     /\ AddGraph([backend |-> PyTorch, model |-> m, ready |-> TRUE, sigOk |-> TRUE])

(* load: one builder; torch::jit::load throwing c10::Error pops the graph. *)
TorchLoad(n, m, bufOk) ==
  \/ (n # 1 \/ ~bufOk) /\ Fail(InvalidArgument)
  \/ n = 1 /\ bufOk /\ Fail(InvalidArgument)
  \/ n = 1 /\ bufOk
     /\ AddGraph([backend |-> PyTorch, model |-> m, ready |-> TRUE, sigOk |-> TRUE])

TorchInit(g) == AddContext(NewContext(g, <<>>, <<>>))

(* std::vector::resize(k): truncate, or pad with None IValues. *)
Resize(s, k) == [j \in 1..k |-> IF j <= Len(s) THEN s[j] ELSE NoData]

(* set_input resizes TorchInputs to Index + 1 (uint32_t) before any check. *)
TorchResized(c, i) ==
  IF i >= Len(Ctx(c).inputs) THEN Resize(Ctx(c).inputs, U32(i + 1))
  ELSE Ctx(c).inputs

TorchSetInputError(t) ==
  IF ~t.ptrOk \/ ~t.dimOk \/ ~t.dataOk THEN InvalidArgument
  ELSE IF t.type # F32 THEN InvalidArgument
  ELSE Success

(* A failing check returns with the resized input list kept.  from_blob *)
(* reads elems * 4 bytes where only dataLen were resolved, and the      *)
(* clone is stored at TorchInputs[Index] without a bound check.          *)
TorchSetInput(c, i, t) ==
  LET ins == TorchResized(c, i) IN
  \/ /\ TorchSetInputError(t) # Success
     /\ nnContext' = [nnContext EXCEPT ![c + 1].inputs = ins]
     /\ ret' = TorchSetInputError(t)
     /\ written' = NoWrite
     /\ UNCHANGED <<nnGraph, fault, leakedBlobs>>
  \/ TorchSetInputError(t) = Success
     /\ \/ t.dataLen < t.elems * 4 /\ Abort("oob_read")
        \/ t.dataLen >= t.elems * 4 /\ i >= Len(ins) /\ Abort("oob_write")
        \/ t.dataLen >= t.elems * 4 /\ i < Len(ins)
           /\ UpdateCtx(c, [Ctx(c) EXCEPT !.inputs = [ins EXCEPT ![i + 1] = t.val]])

TorchGetOutput(c, i, max, outOk, bwOk) ==
  LET n == MinOf(U32(ModelOf(c).outElems * 4), max) IN
  \/ Len(Ctx(c).outputs) <= i /\ Fail(InvalidArgument)
  \/ Len(Ctx(c).outputs) > i /\ ~outOk /\ Fail(InvalidArgument)
  \/ Len(Ctx(c).outputs) > i /\ outOk
     /\ WriteOutput(n, n, Ctx(c).outputs[i + 1], bwOk)

(* Mutant: the compute counter is not advanced. *)
TorchComputeNoCount(c) ==
  LET x == Ctx(c)
      m == ModelOf(c)
      k == x.computes + 1
      produced == IF m.outKind = "list" THEN m.nOut ELSE 1
  IN
  \/ (Len(x.inputs) = 0 \/ \E j \in 1..Len(x.inputs) : x.inputs[j] = NoData)
     /\ Fail(InvalidArgument)
  \/ /\ Len(x.inputs) > 0 /\ \A j \in 1..Len(x.inputs) : x.inputs[j] # NoData
     /\ \/ Len(x.inputs) # m.nIn /\ Abort("uncaught_exception")
        \/ Len(x.inputs) = m.nIn /\ m.outKind = "other" /\ Fail(InvalidArgument)
        \/ Len(x.inputs) = m.nIn /\ m.outKind # "other"
           /\ UpdateCtx(c, [x EXCEPT !.outputs = @ \o Repeat(k, produced)])

(* Mutant: the forward result is appended before its kind is checked. *)
TorchComputeAppendFirst(c) ==
  LET x == Ctx(c)
      m == ModelOf(c)
      k == x.computes + 1
      produced == IF m.outKind = "list" THEN m.nOut ELSE 1
  IN
  \/ (Len(x.inputs) = 0 \/ \E j \in 1..Len(x.inputs) : x.inputs[j] = NoData)
     /\ Fail(InvalidArgument)
  \/ /\ Len(x.inputs) > 0 /\ \A j \in 1..Len(x.inputs) : x.inputs[j] # NoData
     /\ \/ Len(x.inputs) # m.nIn /\ Abort("uncaught_exception")
        \/ /\ Len(x.inputs) = m.nIn /\ m.outKind = "other"
           /\ nnContext' = [nnContext EXCEPT ![c + 1].outputs = @ \o <<k>>]
           /\ ret' = InvalidArgument /\ written' = NoWrite
           /\ UNCHANGED <<nnGraph, fault, leakedBlobs>>
        \/ Len(x.inputs) = m.nIn /\ m.outKind # "other"
           /\ UpdateCtx(c, [x EXCEPT !.outputs = @ \o Repeat(k, produced),
                                     !.computes = k])

(* compute: every slot must hold a tensor; forward throws c10::Error,    *)
(* which nothing catches, when the input count is not the model's; the  *)
(* result's tensors are appended to TorchOutputs.                        *)
TorchCompute(c) ==
  LET x == Ctx(c)
      m == ModelOf(c)
      k == x.computes + 1
      produced == IF m.outKind = "list" THEN m.nOut ELSE 1
  IN
  \/ (Len(x.inputs) = 0 \/ \E j \in 1..Len(x.inputs) : x.inputs[j] = NoData)
     /\ Fail(InvalidArgument)
  \/ /\ Len(x.inputs) > 0 /\ \A j \in 1..Len(x.inputs) : x.inputs[j] # NoData
     /\ \/ Len(x.inputs) # m.nIn /\ Abort("uncaught_exception")
        \/ Len(x.inputs) = m.nIn /\ m.outKind = "other" /\ Fail(InvalidArgument)
        \/ Len(x.inputs) = m.nIn /\ m.outKind # "other"
           /\ UpdateCtx(c, [x EXCEPT !.outputs = @ \o Repeat(k, produced),
                                     !.computes = k])
=============================================================================
