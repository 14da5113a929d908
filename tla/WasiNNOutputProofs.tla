-------------------------- MODULE WasiNNOutputProofs --------------------------
(***************************************************************************)
(* Proof that get_output on an OpenVINO, TensorflowLite or Tensorflow      *)
(* context returns the result of that context's latest compute            *)
(* (GetOutputCurrent).  The inductive invariant adds to IInv that every  *)
(* output slot of such a context holds its latest compute number          *)
(* (OutputsCurrent), and that a successful get_output copied the slot    *)
(* it indexed, which exists (LastCopy).                                   *)
(***************************************************************************)
EXTENDS WasiNNActionProofs

(* The last call, a successful get_output, copied slot call.idx of       *)
(* context call.handle, and the host has not faulted.                    *)
LastCopy ==
  ret = Success /\ call.op = "get_output" =>
    /\ fault = "none"
    /\ call.handle < Len(nnContext)
    /\ call.idx < Len(Ctx(call.handle).outputs)
    /\ written.gen = Ctx(call.handle).outputs[call.idx + 1]

OInv == IInv /\ OutputsCurrent /\ LastCopy

(* Context k's outputs all hold its latest compute number, unless it is *)
(* on a PyTorch graph.                                                    *)
CurrentAt(k) ==
  nnGraph[nnContext[k].graph + 1].backend # PyTorch =>
    \A j \in 1..Len(nnContext[k].outputs) :
      nnContext[k].outputs[j] = nnContext[k].computes

(* The step keeps every context's graph, outputs and compute count. *)
KeepOutputs ==
  /\ KeepReg
  /\ \A k \in 1..Len(nnContext) :
       /\ nnContext'[k].outputs = nnContext[k].outputs
       /\ nnContext'[k].computes = nnContext[k].computes

(* The step is a compute on context c: it keeps the other contexts and  *)
(* every binding, and leaves c's outputs current unless c is PyTorch's. *)
ComputedAt(c) ==
  /\ KeepReg
  /\ \A k \in 1..Len(nnContext) : k # c + 1 =>
       /\ nnContext'[k].outputs = nnContext[k].outputs
       /\ nnContext'[k].computes = nnContext[k].computes
  /\ GraphOf(c).backend # PyTorch =>
       \A j \in 1..Len(nnContext'[c + 1].outputs) :
         nnContext'[c + 1].outputs[j] = nnContext'[c + 1].computes

-----------------------------------------------------------------------------
(* How each kind of step keeps OutputsCurrent. *)

LEMMA CurrentDef ==
  OutputsCurrent <=> (fault = "none" => \A k \in 1..Len(nnContext) : CurrentAt(k))
BY DEF OutputsCurrent, CurrentAt

LEMMA KeepOutputsCurrent ==
  ASSUME fault = "none", OutputsCurrent, KeepOutputs
  PROVE  OutputsCurrent'
<1>. SUFFICES ASSUME NEW k \in 1..Len(nnContext') PROVE CurrentAt(k)'
  BY DEF OutputsCurrent, CurrentAt
<1>1. k \in 1..Len(nnContext) /\ CurrentAt(k)
  BY CurrentDef DEF KeepOutputs, KeepReg
<1>. QED  BY <1>1 DEF KeepOutputs, KeepReg, CurrentAt

LEMMA ComputedCurrent ==
  ASSUME fault = "none", OutputsCurrent, NEW c \in Nat, c < Len(nnContext),
         ComputedAt(c)
  PROVE  OutputsCurrent'
<1>. SUFFICES ASSUME NEW k \in 1..Len(nnContext') PROVE CurrentAt(k)'
  BY DEF OutputsCurrent, CurrentAt
<1>1. k \in 1..Len(nnContext)
  BY DEF ComputedAt, KeepReg
<1>2. CASE k = c + 1
  BY <1>1, <1>2 DEF ComputedAt, KeepReg, CurrentAt, GraphOf, Ctx
<1>3. CASE k # c + 1
  <2>1. CurrentAt(k)
    BY <1>1, CurrentDef
  <2>. QED  BY <1>1, <1>3, <2>1 DEF ComputedAt, KeepReg, CurrentAt
<1>. QED  BY <1>2, <1>3

(* load appends a graph: the contexts' graphs, all existing, keep their  *)
(* backends.                                                              *)
LEMMA GraphAppendCurrent ==
  ASSUME IInv, fault = "none", OutputsCurrent, nnContext' = nnContext,
         NEW g, nnGraph' = Append(nnGraph, g)
  PROVE  OutputsCurrent'
<1>. SUFFICES ASSUME NEW k \in 1..Len(nnContext') PROVE CurrentAt(k)'
  BY DEF OutputsCurrent, CurrentAt
<1>0. k \in 1..Len(nnContext)
  OBVIOUS
<1>1. nnContext[k].graph \in Nat /\ nnContext[k].graph < Len(nnGraph)
  <2>1. nnContext[k] \in ContextType
    BY <1>0 DEF IInv, TypeOK
  <2>2. ContextMatchesGraph(nnContext[k])
    BY <1>0 DEF IInv, SlotsMatchModel
  <2>. QED  BY <2>1, <2>2 DEF ContextType, ContextMatchesGraph
<1>2. nnGraph'[nnContext[k].graph + 1] = nnGraph[nnContext[k].graph + 1]
  BY <1>1 DEF IInv, TypeOK
<1>3. CurrentAt(k)
  BY <1>0, CurrentDef
<1>. QED  BY <1>2, <1>3 DEF CurrentAt

(* init_execution_context appends context r on graph g. *)
LEMMA ContextAppendCurrent ==
  ASSUME TypeOK, fault = "none", OutputsCurrent, nnGraph' = nnGraph,
         NEW r, nnContext' = Append(nnContext, r),
         nnGraph[r.graph + 1].backend # PyTorch =>
           \A j \in 1..Len(r.outputs) : r.outputs[j] = r.computes
  PROVE  OutputsCurrent'
<1>. SUFFICES ASSUME NEW k \in 1..Len(nnContext') PROVE CurrentAt(k)'
  BY DEF OutputsCurrent, CurrentAt
<1>1. Len(nnContext') = Len(nnContext) + 1
  BY DEF TypeOK
<1>2. CASE k = Len(nnContext) + 1
  BY <1>2 DEF TypeOK, CurrentAt
<1>3. CASE k # Len(nnContext) + 1
  <2>1. k \in 1..Len(nnContext) /\ nnContext'[k] = nnContext[k]
    BY <1>1, <1>3 DEF TypeOK
  <2>2. CurrentAt(k)
    BY <2>1, CurrentDef
  <2>. QED  BY <2>1, <2>2 DEF CurrentAt
<1>. QED  BY <1>2, <1>3

-----------------------------------------------------------------------------
(* The shared steps. *)

LEMMA FailKeepsOutputs ==
  ASSUME NEW e, Fail(e)
  PROVE  KeepOutputs
BY DEF Fail, KeepOutputs, KeepReg

LEMMA AbortKeepsOutputs ==
  ASSUME NEW f, Abort(f)
  PROVE  KeepOutputs
BY DEF Abort, KeepOutputs, KeepReg

LEMMA WriteKeepsOutputs ==
  ASSUME NEW n, NEW copied, NEW o, NEW bwOk, WriteOutput(n, copied, o, bwOk)
  PROVE  KeepOutputs
BY DEF WriteOutput, KeepOutputs, KeepReg

(* Replacing context c by a record with the same graph, outputs and     *)
(* compute count. *)
LEMMA ReplaceKeepsOutputs ==
  ASSUME TypeOK, NEW c \in Nat, c < Len(nnContext), NEW r,
         r.graph = Ctx(c).graph, r.outputs = Ctx(c).outputs,
         r.computes = Ctx(c).computes,
         nnContext' = [nnContext EXCEPT ![c + 1] = r], nnGraph' = nnGraph
  PROVE  KeepOutputs
<1>1. KeepReg
  BY ReplaceKeeps
<1>2. ASSUME NEW k \in 1..Len(nnContext)
      PROVE  /\ nnContext'[k].outputs = nnContext[k].outputs
             /\ nnContext'[k].computes = nnContext[k].computes
  BY DEF TypeOK, Ctx
<1>. QED  BY <1>1, <1>2 DEF KeepOutputs

(* Context c replaced by r, whose outputs are current unless c is on a *)
(* PyTorch graph. *)
LEMMA UpdateComputed ==
  ASSUME TypeOK, NEW c \in Nat, c < Len(nnContext), NEW r,
         r.graph = Ctx(c).graph, UpdateCtx(c, r),
         GraphOf(c).backend # PyTorch =>
           \A j \in 1..Len(r.outputs) : r.outputs[j] = r.computes
  PROVE  ComputedAt(c)
<1>1. KeepReg
  BY UpdateKeeps
<1>2. nnContext'[c + 1] = r
  BY DEF UpdateCtx, TypeOK
<1>3. ASSUME NEW k \in 1..Len(nnContext), k # c + 1
      PROVE  nnContext'[k] = nnContext[k]
  BY <1>3 DEF UpdateCtx
<1>. QED  BY <1>1, <1>2, <1>3 DEF ComputedAt

(* A context record with its inputs replaced keeps its other fields. *)
LEMMA InputsOnly ==
  ASSUME NEW x \in ContextType, NEW f, NEW i, NEW v
  PROVE  /\ [x EXCEPT !.inputs = f].graph = x.graph
         /\ [x EXCEPT !.inputs = f].outputs = x.outputs
         /\ [x EXCEPT !.inputs = f].computes = x.computes
         /\ [x EXCEPT !.inputs[i] = v].graph = x.graph
         /\ [x EXCEPT !.inputs[i] = v].outputs = x.outputs
         /\ [x EXCEPT !.inputs[i] = v].computes = x.computes
BY DEF ContextType

-----------------------------------------------------------------------------
(* set_input binds inputs only. *)

LEMMA SetInputKeepsOutputs ==
  ASSUME TypeOK, NEW c \in Nat, c < Len(nnContext), NEW i, NEW t,
         \/ OVSetInput(c, i, t) \/ TorchSetInput(c, i, t)
         \/ TFSetInput(c, i, t) \/ TFLiteSetInput(c, i, t)
  PROVE  KeepOutputs
<1>1. Ctx(c) \in ContextType
  BY CtxOf
<1>2. CASE UpdateCtx(c, [Ctx(c) EXCEPT !.inputs[i + 1] = t.val])
  BY <1>1, <1>2, InputsOnly, ReplaceKeepsOutputs DEF UpdateCtx
<1>3. CASE UNCHANGED <<nnGraph, nnContext>>
  BY <1>3 DEF KeepOutputs, KeepReg
<1>4. CASE nnContext' = [nnContext EXCEPT ![c + 1].inputs = TorchResized(c, i)]
           /\ nnGraph' = nnGraph
  <2>1. nnContext' = [nnContext EXCEPT ![c + 1] = [Ctx(c) EXCEPT !.inputs = TorchResized(c, i)]]
    BY <1>4 DEF Ctx
  <2>. QED  BY <1>1, <1>4, <2>1, InputsOnly, ReplaceKeepsOutputs
<1>5. CASE UpdateCtx(c, [Ctx(c) EXCEPT !.inputs = [TorchResized(c, i) EXCEPT ![i + 1] = t.val]])
  BY <1>1, <1>5, InputsOnly, ReplaceKeepsOutputs DEF UpdateCtx
<1>6. CASE OVSetInput(c, i, t)
  BY <1>2, <1>3, <1>6, FailKeepsOutputs, AbortKeepsOutputs DEF OVSetInput, OVSetInputBlob
<1>7. CASE TorchSetInput(c, i, t)
  BY <1>4, <1>5, <1>7, AbortKeepsOutputs DEF TorchSetInput
<1>8. CASE TFSetInput(c, i, t) \/ TFLiteSetInput(c, i, t)
  BY <1>2, <1>8, FailKeepsOutputs, AbortKeepsOutputs DEF TFSetInput, TFLiteSetInput
<1>. QED  BY <1>6, <1>7, <1>8

-----------------------------------------------------------------------------
(* compute rewrites the outputs of its context, every one of them. *)

(* OpenVINO, TensorflowLite and Tensorflow store one result per output, *)
(* each the new compute number, which the counter then holds.            *)
LEMMA RepeatComputed ==
  ASSUME IInv, fault = "none", NEW c \in Nat, c < Len(nnContext),
         UpdateCtx(c, [Ctx(c) EXCEPT !.outputs = Repeat(Ctx(c).computes + 1,
                                                        ModelOf(c).nOut),
                                     !.computes = Ctx(c).computes + 1])
  PROVE  ComputedAt(c)
<1>. DEFINE k == Ctx(c).computes + 1
            r == [Ctx(c) EXCEPT !.outputs = Repeat(k, ModelOf(c).nOut), !.computes = k]
<1>1. Ctx(c) \in ContextType /\ ModelOf(c) \in ModelType
  BY CtxFacts
<1>2. k \in Nat /\ ModelOf(c).nOut \in Nat
  BY <1>1 DEF ContextType, ModelType
<1>3. /\ r.graph = Ctx(c).graph
      /\ r.outputs = Repeat(k, ModelOf(c).nOut)
      /\ r.computes = k
  BY <1>1 DEF ContextType
<1>4. \A j \in 1..Len(r.outputs) : r.outputs[j] = r.computes
  <2>1. /\ Len(Repeat(k, ModelOf(c).nOut)) = ModelOf(c).nOut
        /\ \A j \in 1..ModelOf(c).nOut : Repeat(k, ModelOf(c).nOut)[j] = k
    BY <1>2, RepeatNat
  <2>. QED  BY <1>3, <2>1
<1>. QED  BY <1>3, <1>4, UpdateComputed DEF IInv

(* A step of the backend's compute either keeps every output or is a    *)
(* compute of context c.                                                 *)
LEMMA ComputeOutputsStep ==
  ASSUME IInv, fault = "none", NEW c \in Nat, c < Len(nnContext),
         \/ GraphOf(c).backend = OpenVINO /\ OVCompute(c)
         \/ GraphOf(c).backend = PyTorch /\ TorchCompute(c)
         \/ GraphOf(c).backend = TFLite /\ TFLiteCompute(c)
         \/ GraphOf(c).backend = TF /\ TFCompute(c)
  PROVE  KeepOutputs \/ ComputedAt(c)
<1>1. CASE GraphOf(c).backend = PyTorch /\ TorchCompute(c)
  <2>. DEFINE x == Ctx(c)
              produced == IF ModelOf(c).outKind = "list" THEN ModelOf(c).nOut ELSE 1
  <2>1. x \in ContextType
    BY CtxOf DEF IInv
  <2>2. CASE UpdateCtx(c, [x EXCEPT !.outputs = @ \o Repeat(x.computes + 1, produced),
                                    !.computes = x.computes + 1])
    <3>1. [x EXCEPT !.outputs = @ \o Repeat(x.computes + 1, produced),
                    !.computes = x.computes + 1].graph = x.graph
      BY <2>1 DEF ContextType
    <3>. QED  BY <1>1, <2>2, <3>1, UpdateComputed DEF IInv
  <2>. QED  BY <1>1, <2>2, FailKeepsOutputs, AbortKeepsOutputs DEF TorchCompute
<1>2. CASE \/ OVCompute(c) \/ TFLiteCompute(c) \/ TFCompute(c)
  BY <1>2, RepeatComputed, FailKeepsOutputs DEF OVCompute, TFLiteCompute, TFCompute
<1>. QED  BY <1>1, <1>2

-----------------------------------------------------------------------------
(* get_output copies the slot it indexes, which exists. *)

(* The step keeps every output, and a Success copied slot i of context c. *)
CopiedSlot(c, i) ==
  /\ KeepOutputs
  /\ ret' = Success =>
       /\ fault' = fault
       /\ i < Len(Ctx(c).outputs)
       /\ written'.gen = Ctx(c).outputs[i + 1]

LEMMA FailCopies ==
  ASSUME NEW e, e # Success, Fail(e), NEW c, NEW i
  PROVE  CopiedSlot(c, i)
BY FailKeepsOutputs DEF Fail, CopiedSlot

LEMMA AbortCopies ==
  ASSUME NEW f, Abort(f), NEW c, NEW i
  PROVE  CopiedSlot(c, i)
BY AbortKeepsOutputs DEF Abort, CopiedSlot, Success

LEMMA WriteCopies ==
  ASSUME NEW c, NEW i, i < Len(Ctx(c).outputs), NEW n, NEW copied, NEW bwOk,
         WriteOutput(n, copied, Ctx(c).outputs[i + 1], bwOk)
  PROVE  CopiedSlot(c, i)
BY WriteKeepsOutputs DEF WriteOutput, CopiedSlot

LEMMA GetOutputCopies ==
  ASSUME IInv, fault = "none", NEW c \in Nat, c < Len(nnContext),
         NEW i \in Nat, NEW max, NEW outOk, NEW bwOk,
         \/ GraphOf(c).backend = OpenVINO /\ OVGetOutput(c, i, max, outOk, bwOk)
         \/ GraphOf(c).backend = PyTorch /\ TorchGetOutput(c, i, max, outOk, bwOk)
         \/ GraphOf(c).backend = TF /\ TFGetOutput(c, i, max, outOk, bwOk)
         \/ GraphOf(c).backend = TFLite /\ TFLiteGetOutput(c, i, max, outOk, bwOk)
  PROVE  CopiedSlot(c, i)
<1>1. /\ Ctx(c) \in ContextType /\ ContextMatchesGraph(Ctx(c))
      /\ ModelOf(c) \in ModelType
  BY CtxFacts
<1>2. Len(Ctx(c).outputs) \in Nat /\ ModelOf(c).nOut \in Nat
  BY <1>1 DEF ContextType, ModelType
<1>3. GraphOf(c).backend \in {OpenVINO, TFLite} => Len(Ctx(c).outputs) = ModelOf(c).nOut
  BY <1>1 DEF ContextMatchesGraph, GraphOf, ModelOf, Ctx
<1>4. CASE GraphOf(c).backend = OpenVINO /\ OVGetOutput(c, i, max, outOk, bwOk)
  <2>1. ASSUME NEW blobSize, ModelOf(c).nOut > i,
               OVCopyOutput(c, i, max, outOk, bwOk, blobSize)
        PROVE  CopiedSlot(c, i)
    <3>1. i < Len(Ctx(c).outputs)
      BY <1>3, <1>4, <2>1
    <3>. QED  BY <2>1, <3>1, FailCopies, AbortCopies, WriteCopies
              DEF OVCopyOutput, InvalidArgument, Success
  <2>. QED  BY <1>4, <2>1, FailCopies DEF OVGetOutput, InvalidArgument,
               MissingMemory, Success
<1>5. CASE GraphOf(c).backend = PyTorch /\ TorchGetOutput(c, i, max, outOk, bwOk)
  BY <1>5, FailCopies, WriteCopies DEF TorchGetOutput, InvalidArgument, Success
<1>6. CASE GraphOf(c).backend = TFLite /\ TFLiteGetOutput(c, i, max, outOk, bwOk)
  <2>1. ModelOf(c).nOut > i => i < Len(Ctx(c).outputs)
    BY <1>3, <1>6
  <2>. QED  BY <1>6, <2>1, FailCopies, WriteCopies
            DEF TFLiteGetOutput, InvalidArgument, Success
<1>7. CASE GraphOf(c).backend = TF /\ TFGetOutput(c, i, max, outOk, bwOk)
  <2>. DEFINE n == MinOf(U32(ModelOf(c).outElems * 4), max)
              e == TFGetOutputError(c, i, n, outOk)
  <2>1. e = Success => i < Len(Ctx(c).outputs)
    BY <1>2 DEF TFGetOutputError, Success, InvalidArgument, Busy
  <2>2. CASE e \in Faults /\ Abort(e)
    BY <2>2, AbortCopies
  <2>3. CASE e \in ErrNo \ {Success} /\ Fail(e)
    BY <2>3, FailCopies
  <2>4. CASE e = Success /\ WriteOutput(n, n, Ctx(c).outputs[i + 1], bwOk)
    BY <2>1, <2>4, WriteCopies
  <2>. QED  BY <1>7, <2>2, <2>3, <2>4 DEF TFGetOutput
<1>. QED  BY <1>4, <1>5, <1>6, <1>7

-----------------------------------------------------------------------------
(* load and init_execution_context. *)

(* load leaves Env.NNContext alone; it appends a graph or keeps them.   *)
LEMMA LoadContexts ==
  ASSUME Load
  PROVE  /\ nnContext' = nnContext
         /\ nnGraph' = nnGraph \/ \E g : nnGraph' = Append(nnGraph, g)
<1>. PICK enc \in Encodings, t \in Targets, n \in BuilderLens, m \in Models,
          gidOk \in BOOLEAN, bufOk \in BOOLEAN, mem \in CallerMemory :
       /\ \/ Trap(mem)
          \/ Fail(InvalidArgument)
          \/ \/ OVLoad(n, m, bufOk)
             \/ TorchLoad(n, m, bufOk)
             \/ TFLiteLoad(n, m, bufOk)
             \/ \E sigOk \in BOOLEAN : TFLoad(n, m, bufOk, sigOk)
  BY DEF Load
<1>1. ASSUME NEW e, Fail(e) PROVE nnContext' = nnContext /\ nnGraph' = nnGraph
  BY <1>1 DEF Fail
<1>2. ASSUME NEW g, AddGraph(g) PROVE nnContext' = nnContext /\ nnGraph' = Append(nnGraph, g)
  BY <1>2 DEF AddGraph
<1>3. CASE OVLoad(n, m, bufOk)
  BY <1>1, <1>2, <1>3 DEF OVLoad, OVLoadNativeFailure
<1>4. CASE TorchLoad(n, m, bufOk) \/ TFLiteLoad(n, m, bufOk)
  BY <1>1, <1>2, <1>4 DEF TorchLoad, TFLiteLoad
<1>5. CASE \E sigOk \in BOOLEAN : TFLoad(n, m, bufOk, sigOk)
  BY <1>1, <1>2, <1>5 DEF TFLoad
<1>. QED  BY <1>1, <1>3, <1>4, <1>5 DEF Trap

LEMMA LoadOutputs ==
  ASSUME IInv, OutputsCurrent, Load
  PROVE  OutputsCurrent'
<1>1. fault = "none"
  BY DEF Load
<1>2. CASE nnGraph' = nnGraph
  BY <1>1, <1>2, LoadContexts, KeepOutputsCurrent DEF KeepOutputs, KeepReg
<1>3. CASE \E g : nnGraph' = Append(nnGraph, g)
  BY <1>1, <1>3, LoadContexts, GraphAppendCurrent
<1>. QED  BY <1>2, <1>3, LoadContexts

(* A fresh context's output slots hold compute number 0, its count. *)
LEMMA NewContextCurrent ==
  ASSUME TypeOK, fault = "none", OutputsCurrent, NEW g, NEW x, NEW y,
         \A j \in 1..Len(y) : y[j] = 0,
         AddContext(NewContext(g, x, y))
  PROVE  OutputsCurrent'
<1>1. NewContext(g, x, y).outputs = y /\ NewContext(g, x, y).computes = 0
  BY DEF NewContext
<1>. QED  BY <1>1, ContextAppendCurrent DEF AddContext

LEMMA InitOutputs ==
  ASSUME IInv, OutputsCurrent, InitExecCtx
  PROVE  OutputsCurrent'
<1>. PICK g \in Indices, ctxOk \in BOOLEAN, mem \in CallerMemory :
       /\ fault = "none"
       /\ Len(nnContext) < MaxContexts
       /\ call' = [NoCall EXCEPT !.op = "init_execution_context", !.handle = g]
       /\ \/ Trap(mem)
          \/ mem /\ (Len(nnGraph) <= g \/ ~ctxOk) /\ Fail(InvalidArgument)
          \/ mem /\ g < Len(nnGraph) /\ ctxOk
             /\ \/ nnGraph[g + 1].backend \notin Built /\ Fail(InvalidArgument)
                \/ nnGraph[g + 1].backend \in Built
                   /\ \/ nnGraph[g + 1].backend = OpenVINO /\ OVInit(g)
                      \/ nnGraph[g + 1].backend = PyTorch /\ TorchInit(g)
                      \/ nnGraph[g + 1].backend = TFLite /\ TFLiteInit(g)
                      \/ nnGraph[g + 1].backend = TF /\ TFInit(g)
  BY DEF InitExecCtx
<1>0. g \in Nat /\ mem \in BOOLEAN /\ TypeOK
  BY ConstantsAssumption DEF IInv
<1>1. ASSUME NEW e, Fail(e) PROVE OutputsCurrent'
  BY <1>1, FailKeepsOutputs, KeepOutputsCurrent
<1>2. ASSUME NEW x, NEW y, \A j \in 1..Len(y) : y[j] = 0,
             AddContext(NewContext(g, x, y))
      PROVE  OutputsCurrent'
  BY <1>0, <1>2, NewContextCurrent
<1>3. \A j \in 1..Len(<<>>) : <<>>[j] = 0
  OBVIOUS
<1>4. ASSUME g < Len(nnGraph)
      PROVE  \A j \in 1..Len(Repeat(0, nnGraph[g + 1].model.nOut)) :
               Repeat(0, nnGraph[g + 1].model.nOut)[j] = 0
  <2>1. nnGraph[g + 1].model.nOut \in Nat
    BY <1>0, <1>4, GraphFacts
  <2>. QED  BY <2>1, RepeatNat
<1>5. CASE mem /\ g < Len(nnGraph) /\ ctxOk /\ nnGraph[g + 1].backend \in Built
  <2>1. CASE OVInit(g)
    BY <1>1, <1>2, <1>4, <1>5, <2>1 DEF OVInit
  <2>2. CASE TorchInit(g)
    BY <1>2, <1>3, <2>2 DEF TorchInit
  <2>3. CASE TFLiteInit(g)
    BY <1>1, <1>2, <1>4, <1>5, <2>3 DEF TFLiteInit
  <2>4. CASE TFInit(g)
    <3>1. CASE fault' = "uncaught_exception"
      BY <3>1 DEF OutputsCurrent
    <3>. QED  BY <1>1, <1>2, <1>3, <2>4, <3>1 DEF TFInit
  <2>5. OVInit(g) \/ TorchInit(g) \/ TFLiteInit(g) \/ TFInit(g)
    BY <1>0, <1>5 DEF Trap
  <2>. QED  BY <2>1, <2>2, <2>3, <2>4, <2>5
<1>. QED  BY <1>0, <1>1, <1>5 DEF Trap

-----------------------------------------------------------------------------
(* set_input, get_output and compute. *)

LEMMA SetInputOutputs ==
  ASSUME IInv, OutputsCurrent, SetInput
  PROVE  OutputsCurrent'
<1>. PICK c \in Indices, i \in Indices, t \in Tensors, mem \in CallerMemory :
       LET Branch(b) ==
             \/ b = OpenVINO /\ OVSetInput(c, i, t)
             \/ b = PyTorch /\ TorchSetInput(c, i, t)
             \/ b = TF /\ TFSetInput(c, i, t)
             \/ b = TFLite /\ TFLiteSetInput(c, i, t)
       IN /\ fault = "none"
          /\ call' = [NoCall EXCEPT !.op = "set_input", !.handle = c, !.idx = i,
                                    !.tensor = t]
          /\ \/ ContextRejected(c, mem)
             \/ ContextAccepted(c, mem) /\ Branch(GraphOf(c).backend)
  BY DEF SetInput
<1>1. c \in Nat /\ TypeOK
  BY ConstantsAssumption DEF IInv
<1>2. KeepOutputs
  <2>1. CASE ContextRejected(c, mem)
    BY <2>1, FailKeepsOutputs DEF ContextRejected, Trap
  <2>2. CASE ContextAccepted(c, mem)
             /\ \/ OVSetInput(c, i, t) \/ TorchSetInput(c, i, t)
                \/ TFSetInput(c, i, t) \/ TFLiteSetInput(c, i, t)
    BY <1>1, <2>2, SetInputKeepsOutputs DEF ContextAccepted
  <2>. QED  BY <2>1, <2>2
<1>. QED  BY <1>2, KeepOutputsCurrent

(* get_output keeps OutputsCurrent and leaves LastCopy true. *)
LEMMA GetOutputOInv ==
  ASSUME IInv, OutputsCurrent, GetOutput
  PROVE  OutputsCurrent' /\ LastCopy'
<1>. PICK c \in Indices, i \in Indices, max \in MaxSizes,
          outOk \in BOOLEAN, bwOk \in BOOLEAN, mem \in CallerMemory :
       LET Branch(b) ==
             \/ b = OpenVINO /\ OVGetOutput(c, i, max, outOk, bwOk)
             \/ b = PyTorch /\ TorchGetOutput(c, i, max, outOk, bwOk)
             \/ b = TF /\ TFGetOutput(c, i, max, outOk, bwOk)
             \/ b = TFLite /\ TFLiteGetOutput(c, i, max, outOk, bwOk)
       IN /\ fault = "none"
          /\ call' = [NoCall EXCEPT !.op = "get_output", !.handle = c, !.idx = i,
                                    !.max = max]
          /\ \/ ContextRejected(c, mem)
             \/ ContextAccepted(c, mem) /\ Branch(GraphOf(c).backend)
  BY DEF GetOutput
<1>1. c \in Nat /\ i \in Nat /\ TypeOK
  BY ConstantsAssumption DEF IInv
<1>2. call'.handle = c /\ call'.idx = i
  BY DEF NoCall
<1>3. CASE ContextRejected(c, mem)
  <2>1. KeepOutputs /\ ret' # Success
    BY <1>3, FailKeepsOutputs
    DEF ContextRejected, Trap, Fail, Success, HostFuncError, InvalidArgument
  <2>. QED  BY <2>1, KeepOutputsCurrent DEF LastCopy
<1>4. CASE ContextAccepted(c, mem)
           /\ \/ GraphOf(c).backend = OpenVINO /\ OVGetOutput(c, i, max, outOk, bwOk)
              \/ GraphOf(c).backend = PyTorch /\ TorchGetOutput(c, i, max, outOk, bwOk)
              \/ GraphOf(c).backend = TF /\ TFGetOutput(c, i, max, outOk, bwOk)
              \/ GraphOf(c).backend = TFLite /\ TFLiteGetOutput(c, i, max, outOk, bwOk)
  <2>1. c < Len(nnContext)
    BY <1>4 DEF ContextAccepted
  <2>2. CopiedSlot(c, i)
    BY <1>1, <1>4, <2>1, GetOutputCopies
  <2>3. OutputsCurrent'
    BY <2>2, KeepOutputsCurrent DEF CopiedSlot
  <2>4. ASSUME ret' = Success PROVE LastCopy'
    <3>1. /\ Len(nnContext') = Len(nnContext)
          /\ nnContext'[c + 1].outputs = nnContext[c + 1].outputs
      BY <1>1, <2>1, <2>2 DEF CopiedSlot, KeepOutputs, KeepReg
    <3>2. /\ fault' = "none"
          /\ i < Len(Ctx(c).outputs)
          /\ written'.gen = Ctx(c).outputs[i + 1]
      BY <2>2, <2>4 DEF CopiedSlot
    <3>. QED  BY <1>2, <2>1, <3>1, <3>2 DEF LastCopy, Ctx
  <2>. QED  BY <2>3, <2>4 DEF LastCopy
<1>. QED  BY <1>3, <1>4

LEMMA ComputeKeepsCurrent ==
  ASSUME IInv, OutputsCurrent, Compute
  PROVE  OutputsCurrent' /\ call'.op = "compute"
<1>. PICK c \in Indices, mem \in CallerMemory :
       LET Branch(b) ==
             \/ b = OpenVINO /\ OVCompute(c)
             \/ b = PyTorch /\ TorchCompute(c)
             \/ b = TFLite /\ TFLiteCompute(c)
             \/ b = TF /\ TFCompute(c)
       IN /\ fault = "none"
          /\ c < Len(nnContext) => Ctx(c).computes < MaxComputes
          /\ call' = [NoCall EXCEPT !.op = "compute", !.handle = c]
          /\ \/ ContextRejected(c, mem)
             \/ ContextAccepted(c, mem) /\ Branch(GraphOf(c).backend)
  BY DEF Compute
<1>1. c \in Nat /\ TypeOK /\ call'.op = "compute"
  BY ConstantsAssumption DEF IInv, NoCall
<1>2. CASE ContextRejected(c, mem)
  BY <1>1, <1>2, FailKeepsOutputs, KeepOutputsCurrent DEF ContextRejected, Trap
<1>3. CASE ContextAccepted(c, mem)
           /\ \/ GraphOf(c).backend = OpenVINO /\ OVCompute(c)
              \/ GraphOf(c).backend = PyTorch /\ TorchCompute(c)
              \/ GraphOf(c).backend = TFLite /\ TFLiteCompute(c)
              \/ GraphOf(c).backend = TF /\ TFCompute(c)
  <2>1. c < Len(nnContext)
    BY <1>3 DEF ContextAccepted
  <2>2. KeepOutputs \/ ComputedAt(c)
    BY <1>1, <1>3, <2>1, ComputeOutputsStep
  <2>. QED  BY <1>1, <2>1, <2>2, KeepOutputsCurrent, ComputedCurrent
<1>. QED  BY <1>2, <1>3

-----------------------------------------------------------------------------
(* The induction. *)

(* In the initial state there is no context and no call has returned.  *)
LEMMA InitOInv == Init => OInv
<1>. SUFFICES ASSUME Init PROVE OInv
  OBVIOUS
<1>1. IInv
  BY InitIInv
<1>2. OutputsCurrent /\ LastCopy
  BY DEF Init, OutputsCurrent, LastCopy, NoCall, Success
<1>. QED  BY <1>1, <1>2 DEF OInv

(* Every host call, and every stutter, preserves OInv. *)
LEMMA NextOInv == OInv /\ [Next]_vars => OInv'
<1>. SUFFICES ASSUME OInv, [Next]_vars PROVE OInv'
  OBVIOUS
<1>1. IInv /\ OutputsCurrent
  BY DEF OInv
<1>2. IInv'
  BY <1>1, NextIInv DEF OInv
<1>3. ASSUME call'.op # "get_output" PROVE LastCopy'
  BY <1>3 DEF LastCopy
<1>4. OutputsCurrent' /\ LastCopy'
  <2>1. CASE Load
    BY <1>1, <2>1, LoadOutputs, OpOfCall, <1>3
  <2>2. CASE InitExecCtx
    BY <1>1, <2>2, InitOutputs, OpOfCall, <1>3
  <2>3. CASE SetInput
    BY <1>1, <2>3, SetInputOutputs, OpOfCall, <1>3
  <2>4. CASE GetOutput
    BY <1>1, <2>4, GetOutputOInv
  <2>5. CASE Compute
    BY <1>1, <2>5, ComputeKeepsCurrent, <1>3
  <2>6. CASE UNCHANGED vars
    BY <2>6 DEF vars, OInv, OutputsCurrent, LastCopy, Ctx
  <2>. QED  BY <2>1, <2>2, <2>3, <2>4, <2>5, <2>6 DEF Next
<1>. QED  BY <1>2, <1>4 DEF OInv

(* OInv holds in every reachable state. *)
LEMMA OInvInvariant == Spec => []OInv
BY InitOInv, NextOInv, PTL DEF Spec

(* OInv gives GetOutputCurrent: the slot copied holds the context's     *)
(* latest compute number.                                               *)
LEMMA OInvCurrent ==
  ASSUME OInv
  PROVE  GetOutputCurrent
<1>. SUFFICES ASSUME ret = Success, call.op = "get_output",
                     GraphOf(call.handle).backend # PyTorch
              PROVE  written.gen = Ctx(call.handle).computes
  BY DEF GetOutputCurrent
<1>1. /\ fault = "none"
      /\ call.handle < Len(nnContext)
      /\ call.idx < Len(Ctx(call.handle).outputs)
      /\ written.gen = Ctx(call.handle).outputs[call.idx + 1]
  BY DEF OInv, LastCopy
<1>2. call.handle \in Nat /\ call.idx \in Nat
  BY DEF OInv, IInv, TypeOK, CallType
<1>3. call.handle + 1 \in 1..Len(nnContext)
  BY <1>1, <1>2
<1>4. CurrentAt(call.handle + 1)
  BY <1>1, <1>3, CurrentDef DEF OInv
<1>5. call.idx + 1 \in 1..Len(nnContext[call.handle + 1].outputs)
  BY <1>1, <1>2 DEF Ctx
<1>. QED  BY <1>1, <1>4, <1>5 DEF CurrentAt, GraphOf, Ctx

(* For every value of the constants, a get_output that returns Success   *)
(* on an OpenVINO, TensorflowLite or Tensorflow context has copied the   *)
(* output of that context's latest compute: every successful compute     *)
(* rewrites all of the context's output slots (the blobs OpenVINO reads, *)
(* TfLiteInterpreterGetOutputTensor, TFOutputTensors), no failing one   *)
(* touches them, and get_output reads the slot it range-checked.          *)
THEOREM GetOutputCurrentInvariant == Spec => []GetOutputCurrent
BY OInvInvariant, OInvCurrent, PTL

=============================================================================
