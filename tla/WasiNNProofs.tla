----------------------------- MODULE WasiNNProofs -----------------------------
(***************************************************************************)
(* Proofs about the WASI-NN host module for every value of the constants. *)
(* TypeOK is not inductive by itself: get_output of OpenVINO and          *)
(* TensorflowLite reads Ctx.outputs[Index + 1] after checking Index only  *)
(* against the model's output count, and every context call reads the    *)
(* graph of its context.  Both are typed only while every context is     *)
(* bound to an existing graph whose model its slots follow, which is     *)
(* SlotsMatchModel; with GraphsReady they are inductive.                      *)
(***************************************************************************)
EXTENDS WasiNN, SequenceTheorems, TLAPS

(* Every loaded graph's native objects exist: each load appends a graph *)
(* only once they were created, and pops it when a later step fails.     *)
GraphsReady == \A k \in 1..Len(nnGraph) : nnGraph[k].ready

IInv == TypeOK /\ SlotsMatchModel /\ GraphsReady

-----------------------------------------------------------------------------
(* Lemmas about the helpers the model is built from. *)

(* Repeat(v, n), the vector::resize / per-name loop, is a sequence of n   *)
(* copies of v.                                                           *)
LEMMA RepeatNat ==
  ASSUME NEW v \in Nat, NEW n \in Nat
  PROVE  /\ Repeat(v, n) \in Seq(Nat)
         /\ Len(Repeat(v, n)) = n
         /\ \A j \in 1..n : Repeat(v, n)[j] = v
BY DEF Repeat

(* The uint32_t value of a count is a natural number. *)
LEMMA U32Nat ==
  ASSUME NEW n \in Int
  PROVE  U32(n) \in Nat
BY ConstantsAssumption DEF U32

(* Whether a context matches its graph depends on the graphs only. *)
LEMMA MatchGraphsUnchanged ==
  ASSUME nnGraph' = nnGraph, NEW x, ContextMatchesGraph(x)
  PROVE  ContextMatchesGraph(x)'
BY DEF ContextMatchesGraph

(* Appending a graph leaves every existing context matched to its graph. *)
LEMMA MatchAfterGraphAppend ==
  ASSUME nnGraph \in Seq(GraphType), NEW g \in GraphType,
         nnGraph' = Append(nnGraph, g),
         NEW x, x.graph \in Nat, ContextMatchesGraph(x)
  PROVE  ContextMatchesGraph(x)'
<1>1. /\ Len(nnGraph') = Len(nnGraph) + 1
      /\ nnGraph'[x.graph + 1] = nnGraph[x.graph + 1]
  BY AppendProperties DEF ContextMatchesGraph
<1>. QED  BY <1>1 DEF ContextMatchesGraph

-----------------------------------------------------------------------------
(* The generic steps every host call ends in preserve IInv. *)

(* A call that fails changes neither registry. *)
LEMMA FailStep ==
  ASSUME IInv, fault = "none", NEW e \in ErrNo \cup {HostFuncError}, Fail(e),
         call' \in CallType
  PROVE  IInv'
<1>1. TypeOK'
  BY DEF IInv, TypeOK, Fail, ErrNo, NoWrite, WrittenType
<1>2. SlotsMatchModel'
  BY DEF IInv, SlotsMatchModel, Fail, ContextMatchesGraph
<1>3. GraphsReady'
  BY DEF IInv, GraphsReady, Fail
<1>. QED  BY <1>1, <1>2, <1>3 DEF IInv

(* A call that aborts changes neither registry. *)
LEMMA AbortStep ==
  ASSUME IInv, fault = "none", NEW f \in Faults, Abort(f), call' \in CallType
  PROVE  IInv'
<1>1. TypeOK'
  BY DEF IInv, TypeOK, Abort, NoWrite, WrittenType
<1>2. SlotsMatchModel'
  BY DEF IInv, SlotsMatchModel, Abort, ContextMatchesGraph
<1>3. GraphsReady'
  BY DEF IInv, GraphsReady, Abort
<1>. QED  BY <1>1, <1>2, <1>3 DEF IInv

(* get_output's copy changes neither registry. *)
LEMMA WriteStep ==
  ASSUME IInv, fault = "none", NEW n \in Int, NEW cp \in Int, NEW o \in Int,
         NEW bwOk \in BOOLEAN,
         WriteOutput(n, cp, o, bwOk), call' \in CallType
  PROVE  IInv'
BY DEF IInv, TypeOK, SlotsMatchModel, GraphsReady, WriteOutput,
       ContextMatchesGraph, WrittenType, ErrNo

(* Appending a graph: no context changes and none loses its graph. *)
LEMMA AddGraphStep ==
  ASSUME IInv, fault = "none", NEW g \in GraphType, g.ready, AddGraph(g),
         call' \in CallType
  PROVE  IInv'
<1>. USE DEF IInv, TypeOK
<1>1. nnGraph' \in Seq(GraphType)
  BY AppendProperties DEF AddGraph
<1>2. written' \in WrittenType
  BY DEF AddGraph, NoWrite, WrittenType
<1>3. TypeOK'
  BY <1>1, <1>2 DEF AddGraph, ErrNo
<1>4. SlotsMatchModel'
  <2>. SUFFICES ASSUME fault' = "none", NEW k \in 1..Len(nnContext')
                PROVE  (ContextMatchesGraph(nnContext[k]))'
    BY DEF SlotsMatchModel
  <2>1. nnContext' = nnContext /\ fault = "none"
    BY DEF AddGraph
  <2>2. nnContext[k] \in ContextType
    BY <2>1, ElementOfSeq
  <2>3. ContextMatchesGraph(nnContext[k])
    BY <2>1 DEF SlotsMatchModel
  <2>. QED  BY <2>1, <2>2, <2>3, MatchAfterGraphAppend DEF AddGraph, ContextType
<1>5. GraphsReady'
  BY AppendProperties DEF AddGraph, GraphsReady
<1>. QED  BY <1>3, <1>4, <1>5

(* Appending a context that matches its graph. *)
LEMMA AddContextStep ==
  ASSUME IInv, fault = "none", NEW r \in ContextType, ContextMatchesGraph(r),
         AddContext(r), call' \in CallType
  PROVE  IInv'
<1>. USE DEF IInv, TypeOK
<1>1. nnContext' \in Seq(ContextType)
  BY AppendProperties DEF AddContext
<1>2. written' \in WrittenType
  BY DEF AddContext, NoWrite, WrittenType
<1>3. TypeOK'
  BY <1>1, <1>2 DEF AddContext, ErrNo
<1>4. SlotsMatchModel'
  <2>. SUFFICES ASSUME NEW k \in 1..Len(nnContext')
                PROVE  (ContextMatchesGraph(nnContext[k]))'
    BY DEF SlotsMatchModel
  <2>1. /\ Len(nnContext') = Len(nnContext) + 1
        /\ \A j \in 1..Len(nnContext) : nnContext'[j] = nnContext[j]
        /\ nnContext'[Len(nnContext) + 1] = r
    BY AppendProperties DEF AddContext
  <2>2. CASE k = Len(nnContext) + 1
    BY <2>1, <2>2, MatchGraphsUnchanged DEF AddContext
  <2>3. CASE k \in 1..Len(nnContext)
    BY <2>1, <2>3, MatchGraphsUnchanged DEF AddContext, SlotsMatchModel
  <2>. QED  BY <2>1, <2>2, <2>3
<1>5. GraphsReady'
  BY DEF AddContext, GraphsReady
<1>. QED  BY <1>3, <1>4, <1>5

(* Replacing context c by a record that matches its graph, as set_input *)
(* and compute do, with an error code or Success.                        *)
LEMMA ReplaceCtxStep ==
  ASSUME IInv, fault = "none", NEW c \in Nat, c < Len(nnContext),
         NEW r \in ContextType, ContextMatchesGraph(r),
         nnContext' = [nnContext EXCEPT ![c + 1] = r],
         ret' \in ErrNo, written' = NoWrite,
         UNCHANGED <<nnGraph, fault, leakedBlobs>>, call' \in CallType
  PROVE  IInv'
<1>. USE DEF IInv, TypeOK
<1>1. TypeOK'
  BY DEF NoWrite, WrittenType, ErrNo
<1>2. SlotsMatchModel'
  <2>. SUFFICES ASSUME NEW k \in 1..Len(nnContext')
                PROVE  (ContextMatchesGraph(nnContext[k]))'
    BY DEF SlotsMatchModel
  <2>1. CASE k = c + 1
    BY <2>1, MatchGraphsUnchanged
  <2>2. CASE k # c + 1
    BY <2>2, MatchGraphsUnchanged DEF SlotsMatchModel
  <2>. QED  BY <2>1, <2>2
<1>3. GraphsReady'
  BY DEF GraphsReady
<1>. QED  BY <1>1, <1>2, <1>3

(* UpdateCtx is such a replacement. *)
LEMMA UpdateCtxStep ==
  ASSUME IInv, fault = "none", NEW c \in Nat, c < Len(nnContext),
         NEW r \in ContextType, ContextMatchesGraph(r),
         UpdateCtx(c, r), call' \in CallType
  PROVE  IInv'
BY ReplaceCtxStep DEF UpdateCtx, ErrNo

(* What IInv gives of a graph handle init_execution_context has checked. *)
LEMMA GraphFacts ==
  ASSUME IInv, NEW g \in Nat, g < Len(nnGraph)
  PROVE  /\ nnGraph[g + 1] \in GraphType
         /\ nnGraph[g + 1].ready
         /\ nnGraph[g + 1].model \in ModelType
         /\ nnGraph[g + 1].model.nIn \in Nat /\ nnGraph[g + 1].model.nOut \in Nat
<1>1. nnGraph[g + 1] \in GraphType /\ nnGraph[g + 1].ready
  BY DEF IInv, TypeOK, GraphsReady
<1>2. nnGraph[g + 1].model \in ModelType
  BY <1>1, ConstantsAssumption DEF GraphType
<1>. QED  BY <1>1, <1>2 DEF ModelType

(* What IInv gives of a context handle the prologue has checked. *)
LEMMA CtxFacts ==
  ASSUME IInv, fault = "none", NEW c \in Nat, c < Len(nnContext)
  PROVE  /\ Ctx(c) \in ContextType
         /\ ContextMatchesGraph(Ctx(c))
         /\ Ctx(c).graph \in Nat /\ Ctx(c).graph < Len(nnGraph)
         /\ GraphOf(c) \in GraphType
         /\ ModelOf(c) \in ModelType
<1>1. Ctx(c) \in ContextType /\ ContextMatchesGraph(Ctx(c))
  BY DEF IInv, TypeOK, SlotsMatchModel, Ctx
<1>2. GraphOf(c) \in GraphType
  BY <1>1 DEF IInv, TypeOK, ContextMatchesGraph, ContextType, GraphOf
<1>. QED  BY <1>1, <1>2, ConstantsAssumption
          DEF ContextMatchesGraph, ContextType, GraphType, ModelOf

(* Storing into slot j of a sequence, inside or outside its domain (an   *)
(* EXCEPT outside the domain changes nothing), keeps it a sequence of    *)
(* the same length.                                                       *)
LEMMA SlotStore ==
  ASSUME NEW s \in Seq(Data \cup {NoData}), NEW j, NEW v \in Data \cup {NoData}
  PROVE  /\ [s EXCEPT ![j] = v] \in Seq(Data \cup {NoData})
         /\ Len([s EXCEPT ![j] = v]) = Len(s)
<1>1. CASE j \in 1..Len(s)
  BY <1>1, ExceptSeq
<1>2. CASE j \notin 1..Len(s)
  <2>1. [s EXCEPT ![j] = v] = s
    BY <1>2
  <2>. QED  BY <2>1
<1>. QED  BY <1>1, <1>2

(* A context record is the record of its five fields. *)
LEMMA CtxRecord ==
  ASSUME NEW x \in ContextType
  PROVE  x = [graph |-> x.graph, inputs |-> x.inputs, outputs |-> x.outputs,
              computes |-> x.computes, ready |-> x.ready]
BY DEF ContextType

(* Binding input slot i keeps a context's type, its slot counts and its *)
(* match with its graph.                                                 *)
LEMMA SetSlot ==
  ASSUME NEW x \in ContextType, NEW i \in Nat, NEW v \in Data,
         ContextMatchesGraph(x)
  PROVE  /\ [x EXCEPT !.inputs[i + 1] = v] \in ContextType
         /\ ContextMatchesGraph([x EXCEPT !.inputs[i + 1] = v])
<1>. DEFINE ins == [x.inputs EXCEPT ![i + 1] = v]
<1>1. x.inputs \in Seq(Data \cup {NoData})
  BY DEF ContextType
<1>2. ins \in Seq(Data \cup {NoData}) /\ Len(ins) = Len(x.inputs)
  BY <1>1, SlotStore
<1>3. [x EXCEPT !.inputs[i + 1] = v]
        = [graph |-> x.graph, inputs |-> ins, outputs |-> x.outputs,
           computes |-> x.computes, ready |-> x.ready]
  BY CtxRecord
<1>. QED  BY <1>2, <1>3 DEF ContextType, ContextMatchesGraph

-----------------------------------------------------------------------------
(* OpenVINO *)

LEMMA OVLoadStep ==
  ASSUME IInv, fault = "none", NEW n \in Nat, NEW m \in Models, NEW bufOk \in BOOLEAN,
         OVLoad(n, m, bufOk), call' \in CallType
  PROVE  IInv'
<1>1. CASE OVLoadError(n, bufOk) # Success /\ Fail(OVLoadError(n, bufOk))
  <2>. OVLoadError(n, bufOk) \in ErrNo  BY DEF OVLoadError, ErrNo
  <2>. QED  BY <1>1, FailStep
<1>2. CASE OVLoadNativeFailure
  BY <1>2, FailStep DEF OVLoadNativeFailure, ErrNo
<1>3. CASE AddGraph([backend |-> OpenVINO, model |-> m, ready |-> TRUE, sigOk |-> TRUE])
  BY <1>3, AddGraphStep DEF GraphType, Backends
<1>. QED  BY <1>1, <1>2, <1>3 DEF OVLoad

LEMMA OVInitStep ==
  ASSUME IInv, fault = "none", NEW g \in Nat, g < Len(nnGraph),
         nnGraph[g + 1].backend = OpenVINO, OVInit(g), call' \in CallType
  PROVE  IInv'
<1>. DEFINE m == nnGraph[g + 1].model
            r == NewContext(g, Repeat(NoData, m.nIn), Repeat(0, m.nOut))
<1>1. /\ m \in ModelType /\ m.nIn \in Nat /\ m.nOut \in Nat
      /\ nnGraph[g + 1].ready
  BY GraphFacts
<1>2. CASE AddContext(r)
  <2>1. /\ Repeat(NoData, m.nIn) \in Seq(Data \cup {NoData})
        /\ Len(Repeat(NoData, m.nIn)) = m.nIn
        /\ Repeat(0, m.nOut) \in Seq(Nat) /\ Len(Repeat(0, m.nOut)) = m.nOut
        /\ \A j \in 1..m.nOut : Repeat(0, m.nOut)[j] = 0
    BY <1>1 DEF Repeat
  <2>2. r \in ContextType
    BY <2>1 DEF NewContext, ContextType
  <2>3. ContextMatchesGraph(r)
    BY <1>1, <2>1 DEF NewContext, ContextMatchesGraph
  <2>. QED  BY <1>2, <2>2, <2>3, AddContextStep
<1>. QED  BY <1>2, FailStep DEF OVInit, ErrNo

LEMMA OVSetInputStep ==
  ASSUME IInv, fault = "none", NEW c \in Nat, c < Len(nnContext),
         NEW i \in Nat, NEW t \in Tensors,
         OVSetInput(c, i, t), call' \in CallType
  PROVE  IInv'
<1>1. /\ Ctx(c) \in ContextType /\ ContextMatchesGraph(Ctx(c))
      /\ t \in TensorType /\ t.val \in Data
  BY CtxFacts, ConstantsAssumption DEF TensorType
<1>2. CASE OVSetInputError(c, i, t) # Success /\ Fail(OVSetInputError(c, i, t))
  <2>. OVSetInputError(c, i, t) \in ErrNo  BY DEF OVSetInputError, ErrNo
  <2>. QED  BY <1>2, FailStep
<1>3. CASE OVSetInputBlob(c, i, t)
  <2>1. CASE /\ leakedBlobs < MaxLeaks /\ ret' = Busy /\ written' = NoWrite
             /\ leakedBlobs' = leakedBlobs + 1
             /\ UNCHANGED <<nnGraph, nnContext, fault>>
    <3>1. TypeOK'
      BY <2>1 DEF IInv, TypeOK, NoWrite, WrittenType, ErrNo
    <3>2. SlotsMatchModel' /\ GraphsReady'
      BY <2>1 DEF IInv, SlotsMatchModel, GraphsReady, ContextMatchesGraph
    <3>. QED  BY <3>1, <3>2 DEF IInv
  <2>2. CASE UpdateCtx(c, [Ctx(c) EXCEPT !.inputs[i + 1] = t.val])
    BY <1>1, <2>2, SetSlot, UpdateCtxStep
  <2>. QED  BY <1>3, <2>1, <2>2, FailStep, AbortStep DEF OVSetInputBlob, ErrNo, Faults
<1>. QED  BY <1>2, <1>3 DEF OVSetInput

(* The copy of an existing output preserves IInv, whatever BlobSize is. *)
LEMMA OVCopyOutputStep ==
  ASSUME IInv, fault = "none", NEW c \in Nat, c < Len(nnContext),
         GraphOf(c).backend = OpenVINO,
         NEW i \in Nat, NEW max \in Nat, NEW outOk \in BOOLEAN, NEW bwOk \in BOOLEAN,
         NEW blobSize \in Int, ModelOf(c).nOut > i,
         OVCopyOutput(c, i, max, outOk, bwOk, blobSize), call' \in CallType
  PROVE  IInv'
<1>. DEFINE n == MinOf(U32(blobSize * 4), max)
<1>1. /\ Ctx(c) \in ContextType /\ ContextMatchesGraph(Ctx(c))
      /\ ModelOf(c) \in ModelType
  BY CtxFacts
<1>2. n \in Int
  BY U32Nat DEF MinOf
<1>3. CASE outOk /\ n <= ModelOf(c).outElems * 4
           /\ WriteOutput(n, n, Ctx(c).outputs[i + 1], bwOk)
  <2>1. Len(Ctx(c).outputs) = ModelOf(c).nOut
    BY <1>1 DEF ContextMatchesGraph, GraphOf, ModelOf, Ctx
  <2>2. Ctx(c).outputs[i + 1] \in Nat
    <3>1. Ctx(c).outputs \in Seq(Nat) /\ ModelOf(c).nOut \in Nat
      BY <1>1 DEF ContextType, ModelType
    <3>2. i + 1 \in 1..Len(Ctx(c).outputs)
      BY <2>1, <3>1
    <3>. QED  BY <3>1, <3>2
  <2>. QED  BY <1>2, <1>3, <2>2, WriteStep
<1>. QED  BY <1>3, FailStep, AbortStep DEF OVCopyOutput, ErrNo, Faults

LEMMA OVGetOutputStep ==
  ASSUME IInv, fault = "none", NEW c \in Nat, c < Len(nnContext),
         GraphOf(c).backend = OpenVINO,
         NEW i \in Nat, NEW max \in Nat, NEW outOk \in BOOLEAN, NEW bwOk \in BOOLEAN,
         OVGetOutput(c, i, max, outOk, bwOk), call' \in CallType
  PROVE  IInv'
<1>1. ModelOf(c).outElems \in Int
  BY CtxFacts DEF ModelType
<1>2. CASE ModelOf(c).nOut > i
           /\ \E garbage \in 0..(U32Mod \div 4 - 1) :
                OVCopyOutput(c, i, max, outOk, bwOk, garbage)
  BY <1>2, OVCopyOutputStep
<1>3. CASE ModelOf(c).nOut > i /\ OVCopyOutput(c, i, max, outOk, bwOk, ModelOf(c).outElems)
  BY <1>1, <1>3, OVCopyOutputStep
<1>. QED  BY <1>2, <1>3, FailStep DEF OVGetOutput, ErrNo

(* A compute's outputs carry its number, which the counter now holds. *)
LEMMA ComputeOutputs ==
  ASSUME NEW x \in ContextType, ContextMatchesGraph(x), NEW outs \in Seq(Nat),
         \A j \in 1..Len(outs) : outs[j] <= x.computes + 1,
         nnGraph[x.graph + 1].backend \in {OpenVINO, TFLite}
           => Len(outs) = nnGraph[x.graph + 1].model.nOut,
         nnGraph[x.graph + 1].backend = TF
           => Len(outs) \in {0, nnGraph[x.graph + 1].model.nOut}
  PROVE  /\ [x EXCEPT !.outputs = outs, !.computes = x.computes + 1] \in ContextType
         /\ ContextMatchesGraph([x EXCEPT !.outputs = outs, !.computes = x.computes + 1])
<1>. DEFINE y == [x EXCEPT !.outputs = outs, !.computes = x.computes + 1]
<1>1. /\ y.graph = x.graph /\ y.inputs = x.inputs /\ y.ready = x.ready
      /\ y.outputs = outs /\ y.computes = x.computes + 1
  BY DEF ContextType
<1>2. y \in ContextType
  <2>1. x.computes + 1 \in Nat
    BY DEF ContextType
  <2>. QED  BY <2>1 DEF ContextType
<1>3. ContextMatchesGraph(y)
  BY <1>1 DEF ContextMatchesGraph
<1>. QED  BY <1>2, <1>3

LEMMA OVComputeStep ==
  ASSUME IInv, fault = "none", NEW c \in Nat, c < Len(nnContext),
         GraphOf(c).backend = OpenVINO,
         OVCompute(c), call' \in CallType
  PROVE  IInv'
<1>. DEFINE k == Ctx(c).computes + 1
            outs == Repeat(k, ModelOf(c).nOut)
<1>1. /\ Ctx(c) \in ContextType /\ ContextMatchesGraph(Ctx(c))
      /\ ModelOf(c) \in ModelType
  BY CtxFacts
<1>2. CASE UpdateCtx(c, [Ctx(c) EXCEPT !.outputs = outs, !.computes = k])
  <2>0. k \in Nat /\ ModelOf(c).nOut \in Nat
    BY <1>1 DEF ContextType, ModelType
  <2>1. /\ outs \in Seq(Nat) /\ Len(outs) = ModelOf(c).nOut
        /\ \A j \in 1..Len(outs) : outs[j] <= k
    <3>1. /\ Repeat(k, ModelOf(c).nOut) \in Seq(Nat)
          /\ Len(Repeat(k, ModelOf(c).nOut)) = ModelOf(c).nOut
          /\ \A j \in 1..ModelOf(c).nOut : Repeat(k, ModelOf(c).nOut)[j] = k
      BY <2>0, RepeatNat, Zenon
    <3>2. outs \in Seq(Nat) /\ Len(outs) = ModelOf(c).nOut
      BY <3>1 DEF outs
    <3>3. ASSUME NEW j \in 1..Len(outs) PROVE outs[j] <= k
      <4>1. outs[j] = k
        BY <3>1, <3>2 DEF outs
      <4>. QED  BY <2>0, <4>1
    <3>. QED  BY <3>2, <3>3
  <2>2. /\ [Ctx(c) EXCEPT !.outputs = outs, !.computes = k] \in ContextType
        /\ ContextMatchesGraph([Ctx(c) EXCEPT !.outputs = outs, !.computes = k])
    <3>1. /\ GraphOf(c).backend \in {OpenVINO, TFLite}
               => Len(outs) = GraphOf(c).model.nOut
          /\ GraphOf(c).backend = TF => Len(outs) \in {0, GraphOf(c).model.nOut}
          /\ \A j \in 1..Len(outs) : outs[j] <= Ctx(c).computes + 1
      BY <2>1 DEF ModelOf, k
    <3>. QED  BY <1>1, <2>1, <3>1, ComputeOutputs, Zenon DEF GraphOf, k
  <2>. QED  BY <1>2, <2>2, UpdateCtxStep
<1>. QED  BY <1>2, FailStep DEF OVCompute, ErrNo

-----------------------------------------------------------------------------
(* PyTorch *)

LEMMA TorchLoadStep ==
  ASSUME IInv, fault = "none", NEW n \in Nat, NEW m \in Models, NEW bufOk \in BOOLEAN,
         TorchLoad(n, m, bufOk), call' \in CallType
  PROVE  IInv'
<1>1. CASE AddGraph([backend |-> PyTorch, model |-> m, ready |-> TRUE, sigOk |-> TRUE])
  BY <1>1, AddGraphStep DEF GraphType, Backends
<1>. QED  BY <1>1, FailStep DEF TorchLoad, ErrNo

LEMMA TorchInitStep ==
  ASSUME IInv, fault = "none", NEW g \in Nat, g < Len(nnGraph),
         nnGraph[g + 1].backend = PyTorch, TorchInit(g), call' \in CallType
  PROVE  IInv'
<1>. DEFINE r == NewContext(g, << >>, << >>)
<1>1. r \in ContextType
  BY DEF NewContext, ContextType
<1>2. nnGraph[g + 1].ready
  BY DEF IInv, GraphsReady
<1>3. ContextMatchesGraph(r)
  BY <1>2 DEF NewContext, ContextMatchesGraph, PyTorch, OpenVINO, TFLite, TF
<1>. QED  BY <1>1, <1>3, AddContextStep DEF TorchInit

(* Resizing a list of tensors and None slots, padding with None, gives *)
(* one.                                                                 *)
LEMMA ResizeType ==
  ASSUME NEW s \in Seq(Data \cup {NoData}), NEW k \in Nat
  PROVE  Resize(s, k) \in Seq(Data \cup {NoData})
<1>1. \A j \in 1..k : (IF j <= Len(s) THEN s[j] ELSE NoData) \in Data \cup {NoData}
  OBVIOUS
<1>. QED  BY <1>1 DEF Resize

(* The resized TorchInputs is a list of tensors and None slots. *)
LEMMA TorchResizedType ==
  ASSUME NEW c \in Nat, Ctx(c) \in ContextType, NEW i \in Nat
  PROVE  TorchResized(c, i) \in Seq(Data \cup {NoData})
<1>1. U32(i + 1) \in Nat
  BY U32Nat
<1>2. Ctx(c).inputs \in Seq(Data \cup {NoData})
  BY DEF ContextType
<1>. QED  BY <1>1, <1>2, ResizeType DEF TorchResized

LEMMA TorchSetInputStep ==
  ASSUME IInv, fault = "none", NEW c \in Nat, c < Len(nnContext),
         GraphOf(c).backend = PyTorch,
         NEW i \in Nat, NEW t \in Tensors,
         TorchSetInput(c, i, t), call' \in CallType
  PROVE  IInv'
<1>. DEFINE ins == TorchResized(c, i)
<1>1. /\ Ctx(c) \in ContextType /\ ContextMatchesGraph(Ctx(c))
      /\ t \in TensorType /\ t.val \in Data
      /\ ins \in Seq(Data \cup {NoData})
  BY CtxFacts, TorchResizedType, ConstantsAssumption DEF TensorType
<1>2. ASSUME NEW s \in Seq(Data \cup {NoData})
      PROVE  /\ [Ctx(c) EXCEPT !.inputs = s] \in ContextType
             /\ ContextMatchesGraph([Ctx(c) EXCEPT !.inputs = s])
  BY <1>1 DEF ContextType, ContextMatchesGraph, GraphOf, Ctx,
              PyTorch, OpenVINO, TFLite, TF
<1>3. CASE /\ TorchSetInputError(t) # Success
           /\ nnContext' = [nnContext EXCEPT ![c + 1].inputs = ins]
           /\ ret' = TorchSetInputError(t)
           /\ written' = NoWrite
           /\ UNCHANGED <<nnGraph, fault, leakedBlobs>>
  <2>1. TorchSetInputError(t) \in ErrNo
    BY DEF TorchSetInputError, ErrNo
  <2>2. nnContext' = [nnContext EXCEPT ![c + 1] = [Ctx(c) EXCEPT !.inputs = ins]]
    BY <1>3 DEF Ctx
  <2>. QED  BY <1>1, <1>2, <1>3, <2>1, <2>2, ReplaceCtxStep
<1>4. CASE UpdateCtx(c, [Ctx(c) EXCEPT !.inputs = [ins EXCEPT ![i + 1] = t.val]])
  <2>1. [ins EXCEPT ![i + 1] = t.val] \in Seq(Data \cup {NoData})
    BY <1>1, SlotStore
  <2>. QED  BY <1>2, <1>4, <2>1, UpdateCtxStep
<1>. QED  BY <1>3, <1>4, AbortStep DEF TorchSetInput, Faults

LEMMA TorchGetOutputStep ==
  ASSUME IInv, fault = "none", NEW c \in Nat, c < Len(nnContext),
         NEW i \in Nat, NEW max \in Nat, NEW outOk \in BOOLEAN, NEW bwOk \in BOOLEAN,
         TorchGetOutput(c, i, max, outOk, bwOk), call' \in CallType
  PROVE  IInv'
<1>. DEFINE n == MinOf(U32(ModelOf(c).outElems * 4), max)
<1>1. Ctx(c) \in ContextType /\ ModelOf(c) \in ModelType
  BY CtxFacts
<1>2. n \in Int
  BY <1>1, U32Nat DEF ModelType, MinOf
<1>3. CASE Len(Ctx(c).outputs) > i /\ outOk
           /\ WriteOutput(n, n, Ctx(c).outputs[i + 1], bwOk)
  <2>1. Ctx(c).outputs[i + 1] \in Nat
    BY <1>1, <1>3 DEF ContextType
  <2>. QED  BY <1>2, <1>3, <2>1, WriteStep
<1>. QED  BY <1>3, FailStep DEF TorchGetOutput, ErrNo

(* An index past the first L elements of a sequence of length L + p is *)
(* an index of the last p.                                              *)
LEMMA TailIndex ==
  ASSUME NEW L \in Nat, NEW p \in Nat, NEW j \in 1..(L + p), j > L
  PROVE  j - L \in 1..p
  OBVIOUS

LEMMA TorchComputeStep ==
  ASSUME IInv, fault = "none", NEW c \in Nat, c < Len(nnContext),
         GraphOf(c).backend = PyTorch,
         TorchCompute(c), call' \in CallType
  PROVE  IInv'
<1>. DEFINE x == Ctx(c)
            m == ModelOf(c)
            k == x.computes + 1
            produced == IF m.outKind = "list" THEN m.nOut ELSE 1
            outs == x.outputs \o Repeat(k, produced)
<1>1. /\ x \in ContextType /\ ContextMatchesGraph(x) /\ m \in ModelType
  BY CtxFacts
<1>0. k \in Nat /\ produced \in Nat
  BY <1>1 DEF ContextType, ModelType
<1>2. /\ produced \in Nat
      /\ Repeat(k, produced) \in Seq(Nat)
      /\ Len(Repeat(k, produced)) = produced
      /\ \A j \in 1..produced : Repeat(k, produced)[j] = k
  BY <1>0 DEF Repeat
<1>3. /\ outs \in Seq(Nat)
      /\ Len(outs) = Len(x.outputs) + produced
      /\ \A j \in 1..Len(outs) :
            outs[j] = IF j <= Len(x.outputs) THEN x.outputs[j]
                      ELSE Repeat(k, produced)[j - Len(x.outputs)]
  BY <1>1, <1>2, ConcatProperties DEF ContextType
<1>4. \A j \in 1..Len(outs) : outs[j] <= k
  <2>. SUFFICES ASSUME NEW j \in 1..Len(outs) PROVE outs[j] <= k
    OBVIOUS
  <2>0. x.outputs \in Seq(Nat) /\ x.computes \in Nat
    BY <1>1 DEF ContextType
  <2>1. CASE j <= Len(x.outputs)
    <3>1. outs[j] = x.outputs[j]
      BY <1>3, <2>1
    <3>2. x.outputs[j] <= x.computes /\ x.outputs[j] \in Nat
      BY <1>1, <2>0, <2>1 DEF ContextMatchesGraph
    <3>. QED  BY <2>0, <3>1, <3>2
  <2>2. CASE j > Len(x.outputs)
    <3>0. Len(x.outputs) \in Nat /\ Len(outs) = Len(x.outputs) + produced
      <4>1. Len(x.outputs) \in Nat
        BY <2>0, LenProperties
      <4>. QED  BY <4>1, <1>3
    <3>1. j - Len(x.outputs) \in 1..produced
      BY <1>0, <2>2, <3>0, TailIndex
    <3>2. outs[j] = Repeat(k, produced)[j - Len(x.outputs)]
      BY <1>3, <2>2
    <3>. QED  BY <1>2, <3>1, <3>2
  <2>. QED  BY <2>0, <2>1, <2>2
<1>5. CASE UpdateCtx(c, [x EXCEPT !.outputs = @ \o Repeat(k, produced),
                                  !.computes = k])
  <2>1. [x EXCEPT !.outputs = @ \o Repeat(k, produced), !.computes = k]
          = [x EXCEPT !.outputs = outs, !.computes = x.computes + 1]
    OBVIOUS
  <2>2. nnGraph[x.graph + 1].backend = PyTorch
    BY DEF GraphOf, Ctx
  <2>. QED  BY <1>1, <1>3, <1>4, <1>5, <2>1, <2>2, ComputeOutputs, UpdateCtxStep
            DEF PyTorch, OpenVINO, TFLite, TF
<1>. QED  BY <1>5, FailStep, AbortStep DEF TorchCompute, ErrNo, Faults

-----------------------------------------------------------------------------
(* TensorflowLite *)

LEMMA TFLiteLoadStep ==
  ASSUME IInv, fault = "none", NEW n \in Nat, NEW m \in Models, NEW bufOk \in BOOLEAN,
         TFLiteLoad(n, m, bufOk), call' \in CallType
  PROVE  IInv'
<1>1. CASE AddGraph([backend |-> TFLite, model |-> m, ready |-> TRUE, sigOk |-> TRUE])
  BY <1>1, AddGraphStep DEF GraphType, Backends
<1>. QED  BY <1>1, FailStep DEF TFLiteLoad, ErrNo

LEMMA TFLiteInitStep ==
  ASSUME IInv, fault = "none", NEW g \in Nat, g < Len(nnGraph),
         nnGraph[g + 1].backend = TFLite, TFLiteInit(g), call' \in CallType
  PROVE  IInv'
<1>. DEFINE m == nnGraph[g + 1].model
            r == NewContext(g, Repeat(NoData, m.nIn), Repeat(0, m.nOut))
<1>1. /\ m \in ModelType /\ m.nIn \in Nat /\ m.nOut \in Nat
      /\ nnGraph[g + 1].ready
  BY GraphFacts
<1>2. CASE AddContext(r)
  <2>1. /\ Repeat(NoData, m.nIn) \in Seq(Data \cup {NoData})
        /\ Len(Repeat(NoData, m.nIn)) = m.nIn
        /\ Repeat(0, m.nOut) \in Seq(Nat) /\ Len(Repeat(0, m.nOut)) = m.nOut
        /\ \A j \in 1..m.nOut : Repeat(0, m.nOut)[j] = 0
    BY <1>1 DEF Repeat
  <2>2. r \in ContextType
    BY <2>1 DEF NewContext, ContextType
  <2>3. ContextMatchesGraph(r)
    BY <1>1, <2>1 DEF NewContext, ContextMatchesGraph
  <2>. QED  BY <1>2, <2>2, <2>3, AddContextStep
<1>. QED  BY <1>2, FailStep DEF TFLiteInit, ErrNo

LEMMA TFLiteSetInputStep ==
  ASSUME IInv, fault = "none", NEW c \in Nat, c < Len(nnContext),
         NEW i \in Nat, NEW t \in Tensors,
         TFLiteSetInput(c, i, t), call' \in CallType
  PROVE  IInv'
<1>1. /\ Ctx(c) \in ContextType /\ ContextMatchesGraph(Ctx(c))
      /\ t \in TensorType /\ t.val \in Data
  BY CtxFacts, ConstantsAssumption DEF TensorType
<1>2. CASE UpdateCtx(c, [Ctx(c) EXCEPT !.inputs[i + 1] = t.val])
  BY <1>1, <1>2, SetSlot, UpdateCtxStep
<1>. QED  BY <1>2, FailStep, AbortStep DEF TFLiteSetInput, Faults

LEMMA TFLiteGetOutputStep ==
  ASSUME IInv, fault = "none", NEW c \in Nat, c < Len(nnContext),
         GraphOf(c).backend = TFLite,
         NEW i \in Nat, NEW max \in Nat, NEW outOk \in BOOLEAN, NEW bwOk \in BOOLEAN,
         TFLiteGetOutput(c, i, max, outOk, bwOk), call' \in CallType
  PROVE  IInv'
<1>. DEFINE bytes == U32(ModelOf(c).outElems * 4)
            n == MinOf(bytes, max)
<1>1. /\ Ctx(c) \in ContextType /\ ContextMatchesGraph(Ctx(c))
      /\ ModelOf(c) \in ModelType
  BY CtxFacts
<1>2. bytes \in Nat
  <2>1. ModelOf(c).outElems * 4 \in Int
    BY <1>1 DEF ModelType
  <2>. QED  BY <2>1, U32Nat
<1>4. n \in Int /\ (IF n = bytes THEN n ELSE 0) \in Int
  BY <1>2 DEF MinOf
<1>3. CASE ModelOf(c).nOut > i /\ outOk
           /\ WriteOutput(n, IF n = bytes THEN n ELSE 0, Ctx(c).outputs[i + 1], bwOk)
  <2>1. Len(Ctx(c).outputs) = ModelOf(c).nOut
    BY <1>1 DEF ContextMatchesGraph, GraphOf, ModelOf, Ctx
  <2>2. Ctx(c).outputs[i + 1] \in Nat
    <3>1. Ctx(c).outputs \in Seq(Nat) /\ ModelOf(c).nOut \in Nat
      BY <1>1 DEF ContextType, ModelType
    <3>2. i + 1 \in 1..Len(Ctx(c).outputs)
      BY <1>3, <2>1, <3>1
    <3>. QED  BY <3>1, <3>2
  <2>. QED  BY <1>4, <1>3, <2>2, WriteStep
<1>. QED  BY <1>3, FailStep DEF TFLiteGetOutput, ErrNo

LEMMA TFLiteComputeStep ==
  ASSUME IInv, fault = "none", NEW c \in Nat, c < Len(nnContext),
         GraphOf(c).backend = TFLite,
         TFLiteCompute(c), call' \in CallType
  PROVE  IInv'
<1>. DEFINE k == Ctx(c).computes + 1
            outs == Repeat(k, ModelOf(c).nOut)
<1>1. /\ Ctx(c) \in ContextType /\ ContextMatchesGraph(Ctx(c))
      /\ ModelOf(c) \in ModelType
  BY CtxFacts
<1>2. CASE UpdateCtx(c, [Ctx(c) EXCEPT !.outputs = outs, !.computes = k])
  <2>0. k \in Nat /\ ModelOf(c).nOut \in Nat
    BY <1>1 DEF ContextType, ModelType
  <2>1. /\ outs \in Seq(Nat) /\ Len(outs) = ModelOf(c).nOut
        /\ \A j \in 1..Len(outs) : outs[j] <= k
    <3>1. /\ Repeat(k, ModelOf(c).nOut) \in Seq(Nat)
          /\ Len(Repeat(k, ModelOf(c).nOut)) = ModelOf(c).nOut
          /\ \A j \in 1..ModelOf(c).nOut : Repeat(k, ModelOf(c).nOut)[j] = k
      BY <2>0, RepeatNat, Zenon
    <3>2. outs \in Seq(Nat) /\ Len(outs) = ModelOf(c).nOut
      BY <3>1 DEF outs
    <3>3. ASSUME NEW j \in 1..Len(outs) PROVE outs[j] <= k
      <4>1. outs[j] = k
        BY <3>1, <3>2 DEF outs
      <4>. QED  BY <2>0, <4>1
    <3>. QED  BY <3>2, <3>3
  <2>2. /\ [Ctx(c) EXCEPT !.outputs = outs, !.computes = k] \in ContextType
        /\ ContextMatchesGraph([Ctx(c) EXCEPT !.outputs = outs, !.computes = k])
    <3>1. /\ GraphOf(c).backend \in {OpenVINO, TFLite}
               => Len(outs) = GraphOf(c).model.nOut
          /\ GraphOf(c).backend = TF => Len(outs) \in {0, GraphOf(c).model.nOut}
          /\ \A j \in 1..Len(outs) : outs[j] <= Ctx(c).computes + 1
      BY <2>1 DEF ModelOf, k
    <3>. QED  BY <1>1, <2>1, <3>1, ComputeOutputs, Zenon DEF GraphOf, k
  <2>. QED  BY <1>2, <2>2, UpdateCtxStep
<1>. QED  BY <1>2, FailStep DEF TFLiteCompute, ErrNo

-----------------------------------------------------------------------------
(* Tensorflow *)

LEMMA TFLoadStep ==
  ASSUME IInv, fault = "none", NEW n \in Nat, NEW m \in Models, NEW bufOk \in BOOLEAN,
         NEW sigOk \in BOOLEAN, TFLoad(n, m, bufOk, sigOk), call' \in CallType
  PROVE  IInv'
<1>1. CASE AddGraph([backend |-> TF, model |-> m, ready |-> TRUE, sigOk |-> sigOk])
  BY <1>1, AddGraphStep DEF GraphType, Backends
<1>. QED  BY <1>1, FailStep DEF TFLoad, ErrNo

LEMMA TFInitStep ==
  ASSUME IInv, fault = "none", NEW g \in Nat, g < Len(nnGraph),
         nnGraph[g + 1].backend = TF, TFInit(g), call' \in CallType
  PROVE  IInv'
<1>. DEFINE gr == nnGraph[g + 1]
            r == NewContext(g, Repeat(NoData, gr.model.nIn), << >>)
<1>1. /\ gr.model \in ModelType /\ gr.model.nIn \in Nat /\ gr.ready
  BY GraphFacts
<1>2. CASE /\ nnContext' = Append(nnContext, NewContext(g, << >>, << >>))
           /\ fault' = "uncaught_exception"
           /\ ret' = "Abort"
           /\ written' = NoWrite
           /\ UNCHANGED <<nnGraph, leakedBlobs>>
  <2>1. NewContext(g, << >>, << >>) \in ContextType
    BY DEF NewContext, ContextType
  <2>2. TypeOK'
    BY <1>2, <2>1, AppendProperties DEF IInv, TypeOK, NoWrite, WrittenType, Faults
  <2>. QED  BY <1>2, <2>2 DEF IInv, SlotsMatchModel, GraphsReady
<1>3. CASE gr.ready /\ AddContext(r)
  <2>0. /\ Repeat(NoData, gr.model.nIn) \in Seq(Data \cup {NoData})
        /\ Len(Repeat(NoData, gr.model.nIn)) = gr.model.nIn
    BY <1>1 DEF Repeat
  <2>1. r \in ContextType
    BY <2>0 DEF NewContext, ContextType
  <2>2. ContextMatchesGraph(r)
    BY <1>1, <2>0 DEF NewContext, ContextMatchesGraph, TF, OpenVINO, TFLite
  <2>. QED  BY <1>3, <2>1, <2>2, AddContextStep
<1>. QED  BY <1>2, <1>3, FailStep DEF TFInit, ErrNo

LEMMA TFSetInputStep ==
  ASSUME IInv, fault = "none", NEW c \in Nat, c < Len(nnContext),
         NEW i \in Nat, NEW t \in Tensors,
         TFSetInput(c, i, t), call' \in CallType
  PROVE  IInv'
<1>1. /\ Ctx(c) \in ContextType /\ ContextMatchesGraph(Ctx(c))
      /\ t \in TensorType /\ t.val \in Data
  BY CtxFacts, ConstantsAssumption DEF TensorType
<1>2. CASE UpdateCtx(c, [Ctx(c) EXCEPT !.inputs[i + 1] = t.val])
  BY <1>1, <1>2, SetSlot, UpdateCtxStep
<1>. QED  BY <1>2, FailStep, AbortStep DEF TFSetInput, ErrNo

LEMMA TFGetOutputStep ==
  ASSUME IInv, fault = "none", NEW c \in Nat, c < Len(nnContext),
         NEW i \in Nat, NEW max \in Nat, NEW outOk \in BOOLEAN, NEW bwOk \in BOOLEAN,
         TFGetOutput(c, i, max, outOk, bwOk), call' \in CallType
  PROVE  IInv'
<1>. DEFINE n == MinOf(U32(ModelOf(c).outElems * 4), max)
            e == TFGetOutputError(c, i, n, outOk)
<1>1. Ctx(c) \in ContextType /\ ModelOf(c) \in ModelType
  BY CtxFacts
<1>2. n \in Int
  BY <1>1, U32Nat DEF ModelType, MinOf
<1>3. CASE e = Success /\ WriteOutput(n, n, Ctx(c).outputs[i + 1], bwOk)
  <2>1. Len(Ctx(c).outputs) > i
    <3>1. Len(Ctx(c).outputs) \in Nat
      BY <1>1 DEF ContextType
    <3>. QED  BY <1>3, <3>1 DEF TFGetOutputError, Success, InvalidArgument
  <2>2. Ctx(c).outputs[i + 1] \in Nat
    BY <1>1, <2>1 DEF ContextType
  <2>. QED  BY <1>2, <1>3, <2>2, WriteStep
<1>. QED  BY <1>3, FailStep, AbortStep DEF TFGetOutput, ErrNo

LEMMA TFComputeStep ==
  ASSUME IInv, fault = "none", NEW c \in Nat, c < Len(nnContext),
         GraphOf(c).backend = TF,
         TFCompute(c), call' \in CallType
  PROVE  IInv'
<1>. DEFINE k == Ctx(c).computes + 1
            outs == Repeat(k, ModelOf(c).nOut)
<1>1. /\ Ctx(c) \in ContextType /\ ContextMatchesGraph(Ctx(c))
      /\ ModelOf(c) \in ModelType
  BY CtxFacts
<1>2. CASE UpdateCtx(c, [Ctx(c) EXCEPT !.outputs = outs, !.computes = k])
  <2>0. k \in Nat /\ ModelOf(c).nOut \in Nat
    BY <1>1 DEF ContextType, ModelType
  <2>1. /\ outs \in Seq(Nat) /\ Len(outs) = ModelOf(c).nOut
        /\ \A j \in 1..Len(outs) : outs[j] <= k
    <3>1. /\ Repeat(k, ModelOf(c).nOut) \in Seq(Nat)
          /\ Len(Repeat(k, ModelOf(c).nOut)) = ModelOf(c).nOut
          /\ \A j \in 1..ModelOf(c).nOut : Repeat(k, ModelOf(c).nOut)[j] = k
      BY <2>0, RepeatNat, Zenon
    <3>2. outs \in Seq(Nat) /\ Len(outs) = ModelOf(c).nOut
      BY <3>1 DEF outs
    <3>3. ASSUME NEW j \in 1..Len(outs) PROVE outs[j] <= k
      <4>1. outs[j] = k
        BY <3>1, <3>2 DEF outs
      <4>. QED  BY <2>0, <4>1
    <3>. QED  BY <3>2, <3>3
  <2>. QED  BY <1>1, <1>2, <2>1, ComputeOutputs, UpdateCtxStep
            DEF GraphOf, ModelOf, Ctx, TF, OpenVINO, TFLite
<1>. QED  BY <1>2, FailStep DEF TFCompute, ErrNo

-----------------------------------------------------------------------------
(* The host functions. *)

(* The record of a call is well typed. *)
LEMMA NoCallType == NoCall \in CallType
BY DEF NoCall, CallType, NoTensor, Ops

LEMMA LoadStep ==
  ASSUME IInv, Load
  PROVE  IInv'
<1>. PICK enc \in Encodings, t \in Targets, n \in BuilderLens, m \in Models,
          gidOk \in BOOLEAN, bufOk \in BOOLEAN, mem \in CallerMemory :
       /\ fault = "none"
       /\ Len(nnGraph) < MaxGraphs
       /\ call' = [NoCall EXCEPT !.op = "load", !.enc = enc]
       /\ \/ Trap(mem)
          \/ mem /\ (~gidOk \/ t # 0 \/ enc \notin Built)
             /\ Fail(InvalidArgument)
          \/ mem /\ gidOk /\ t = 0 /\ enc \in Built
             /\ \/ enc = OpenVINO /\ OVLoad(n, m, bufOk)
                \/ enc = PyTorch /\ TorchLoad(n, m, bufOk)
                \/ enc = TFLite /\ TFLiteLoad(n, m, bufOk)
                \/ enc = TF /\ \E sigOk \in BOOLEAN : TFLoad(n, m, bufOk, sigOk)
  BY DEF Load
<1>1. call' \in CallType /\ n \in Nat
  BY ConstantsAssumption DEF NoCall, CallType, Ops, NoTensor
<1>. QED  BY <1>1, FailStep, OVLoadStep, TorchLoadStep, TFLiteLoadStep, TFLoadStep
          DEF Trap, ErrNo

LEMMA InitExecCtxStep ==
  ASSUME IInv, InitExecCtx
  PROVE  IInv'
<1>. PICK g \in Indices, ctxOk \in BOOLEAN, mem \in CallerMemory :
       /\ fault = "none"
       /\ Len(nnContext) < MaxContexts
       /\ call' = [NoCall EXCEPT !.op = "init_execution_context", !.handle = g]
       /\ \/ Trap(mem)
          \/ mem /\ (Len(nnGraph) <= g \/ ~ctxOk) /\ Fail(InvalidArgument)
          \/ mem /\ g < Len(nnGraph) /\ ctxOk
             /\ \/ nnGraph[g + 1].backend \notin Built /\ Fail(InvalidArgument)
                \/ nnGraph[g + 1].backend \in Built
                   /\ \/ nnGraph[g + 1].backend = OpenVINO /\ OVInit(g)
                      \/ nnGraph[g + 1].backend = PyTorch /\ TorchInit(g)
                      \/ nnGraph[g + 1].backend = TFLite /\ TFLiteInit(g)
                      \/ nnGraph[g + 1].backend = TF /\ TFInit(g)
  BY DEF InitExecCtx
<1>1. g \in Nat /\ call' \in CallType
  BY ConstantsAssumption DEF NoCall, CallType, Ops, NoTensor
<1>. QED  BY <1>1, FailStep, OVInitStep, TorchInitStep, TFLiteInitStep, TFInitStep
          DEF Trap, ErrNo

(* The prologue of the context calls: a trap, a bad handle or a backend  *)
(* compiled out fails without touching the registries.                   *)
LEMMA PrologueStep ==
  ASSUME IInv, fault = "none", NEW c \in Nat, NEW mem \in BOOLEAN,
         call' \in CallType, ContextRejected(c, mem)
  PROVE  IInv'
BY FailStep DEF ContextRejected, Trap, ErrNo

LEMMA SetInputStep ==
  ASSUME IInv, SetInput
  PROVE  IInv'
<1>. PICK c \in Indices, i \in Indices, t \in Tensors, mem \in CallerMemory :
       LET Branch(b) ==
             \/ b = OpenVINO /\ OVSetInput(c, i, t)
             \/ b = PyTorch /\ TorchSetInput(c, i, t)
             \/ b = TF /\ TFSetInput(c, i, t)
             \/ b = TFLite /\ TFLiteSetInput(c, i, t)
       IN /\ fault = "none"
          /\ call' = [NoCall EXCEPT !.op = "set_input", !.handle = c, !.idx = i,
                                    !.tensor = t]
          /\ \/ ContextRejected(c, mem)
             \/ ContextAccepted(c, mem) /\ Branch(GraphOf(c).backend)
  BY DEF SetInput
<1>1. c \in Nat /\ i \in Nat /\ mem \in BOOLEAN /\ call' \in CallType
  BY ConstantsAssumption DEF NoCall, CallType, Ops, NoTensor
<1>. DEFINE Br(b) ==
       \/ b = OpenVINO /\ OVSetInput(c, i, t)
       \/ b = PyTorch /\ TorchSetInput(c, i, t)
       \/ b = TF /\ TFSetInput(c, i, t)
       \/ b = TFLite /\ TFLiteSetInput(c, i, t)
<1>2. CASE mem /\ c < Len(nnContext) /\ GraphOf(c).backend \in Built
           /\ Br(GraphOf(c).backend)
  BY <1>1, <1>2, OVSetInputStep, TorchSetInputStep, TFSetInputStep,
     TFLiteSetInputStep
<1>. QED  BY <1>1, <1>2, PrologueStep DEF ContextAccepted

LEMMA GetOutputStep ==
  ASSUME IInv, GetOutput
  PROVE  IInv'
<1>. PICK c \in Indices, i \in Indices, max \in MaxSizes,
          outOk \in BOOLEAN, bwOk \in BOOLEAN, mem \in CallerMemory :
       LET Branch(b) ==
             \/ b = OpenVINO /\ OVGetOutput(c, i, max, outOk, bwOk)
             \/ b = PyTorch /\ TorchGetOutput(c, i, max, outOk, bwOk)
             \/ b = TF /\ TFGetOutput(c, i, max, outOk, bwOk)
             \/ b = TFLite /\ TFLiteGetOutput(c, i, max, outOk, bwOk)
       IN /\ fault = "none"
          /\ call' = [NoCall EXCEPT !.op = "get_output", !.handle = c, !.idx = i,
                                    !.max = max]
          /\ \/ ContextRejected(c, mem)
             \/ ContextAccepted(c, mem) /\ Branch(GraphOf(c).backend)
  BY DEF GetOutput
<1>1. /\ c \in Nat /\ i \in Nat /\ max \in Nat /\ mem \in BOOLEAN
      /\ call' \in CallType
  BY ConstantsAssumption DEF NoCall, CallType, Ops, NoTensor
<1>. DEFINE Br(b) ==
       \/ b = OpenVINO /\ OVGetOutput(c, i, max, outOk, bwOk)
       \/ b = PyTorch /\ TorchGetOutput(c, i, max, outOk, bwOk)
       \/ b = TF /\ TFGetOutput(c, i, max, outOk, bwOk)
       \/ b = TFLite /\ TFLiteGetOutput(c, i, max, outOk, bwOk)
<1>2. CASE mem /\ c < Len(nnContext) /\ GraphOf(c).backend \in Built
           /\ Br(GraphOf(c).backend)
  BY <1>1, <1>2, OVGetOutputStep, TorchGetOutputStep, TFGetOutputStep,
     TFLiteGetOutputStep
<1>. QED  BY <1>1, <1>2, PrologueStep DEF ContextAccepted

LEMMA ComputeStep ==
  ASSUME IInv, Compute
  PROVE  IInv'
<1>. PICK c \in Indices, mem \in CallerMemory :
       LET Branch(b) ==
             \/ b = OpenVINO /\ OVCompute(c)
             \/ b = PyTorch /\ TorchCompute(c)
             \/ b = TFLite /\ TFLiteCompute(c)
             \/ b = TF /\ TFCompute(c)
       IN /\ fault = "none"
          /\ c < Len(nnContext) => Ctx(c).computes < MaxComputes
          /\ call' = [NoCall EXCEPT !.op = "compute", !.handle = c]
          /\ \/ ContextRejected(c, mem)
             \/ ContextAccepted(c, mem) /\ Branch(GraphOf(c).backend)
  BY DEF Compute
<1>1. c \in Nat /\ mem \in BOOLEAN /\ call' \in CallType
  BY ConstantsAssumption DEF NoCall, CallType, Ops, NoTensor
<1>. DEFINE Br(b) ==
       \/ b = OpenVINO /\ OVCompute(c)
       \/ b = PyTorch /\ TorchCompute(c)
       \/ b = TFLite /\ TFLiteCompute(c)
       \/ b = TF /\ TFCompute(c)
<1>2. CASE mem /\ c < Len(nnContext) /\ GraphOf(c).backend \in Built
           /\ Br(GraphOf(c).backend)
  BY <1>1, <1>2, OVComputeStep, TorchComputeStep, TFLiteComputeStep,
     TFComputeStep
<1>. QED  BY <1>1, <1>2, PrologueStep DEF ContextAccepted

-----------------------------------------------------------------------------
(* The theorems. *)

(* The initial state, where both registries are empty, satisfies IInv. *)
LEMMA InitIInv == Init => IInv
BY NoCallType DEF Init, IInv, TypeOK, SlotsMatchModel, GraphsReady, NoWrite,
                  WrittenType, Faults

(* Every host call, and every stutter, preserves IInv. *)
LEMMA NextIInv == IInv /\ [Next]_vars => IInv'
<1>. SUFFICES ASSUME IInv, [Next]_vars PROVE IInv'
  OBVIOUS
<1>1. CASE Load  BY <1>1, LoadStep
<1>2. CASE InitExecCtx  BY <1>2, InitExecCtxStep
<1>3. CASE SetInput  BY <1>3, SetInputStep
<1>4. CASE GetOutput  BY <1>4, GetOutputStep
<1>5. CASE Compute  BY <1>5, ComputeStep
<1>6. CASE UNCHANGED vars
  BY <1>6 DEF vars, IInv, TypeOK, SlotsMatchModel, GraphsReady, ContextMatchesGraph
<1>. QED  BY <1>1, <1>2, <1>3, <1>4, <1>5, <1>6 DEF Next

(* IInv holds in every reachable state of the host module. *)
THEOREM IInvInvariant == Spec => []IInv
BY InitIInv, NextIInv, PTL DEF Spec

(* Type correctness: whatever sequence of host calls the guests make,    *)
(* for any backends compiled in, models and bounds, the registries,     *)
(* the call record, the return code and what was written to the guest   *)
(* keep their types (no call indexes a context or graph that is not     *)
(* there, nor an output slot past the end).                             *)
THEOREM TypeCorrect == Spec => []TypeOK
BY IInvInvariant, PTL DEF IInv

(* Every context stays bound to an existing graph whose model its input  *)
(* and output slots follow: the index checks of set_input and get_output *)
(* against the model's counts are enough for OpenVINO and TensorflowLite *)
(* for every value of the constants.                                      *)
THEOREM SlotsMatchModelInvariant == Spec => []SlotsMatchModel
BY IInvInvariant, PTL DEF IInv
=============================================================================
