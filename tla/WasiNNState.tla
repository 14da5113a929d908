----------------------------- MODULE WasiNNState -----------------------------
(***************************************************************************)
(* The state of the WASI-NN environment (WasiNNEnvironment) shared by the *)
(* five host functions, and what the last call returned and wrote to     *)
(* guest memory.                                                          *)
(*                                                                         *)
(*  nnGraph     Env.NNGraph, the append-only vector of loaded graphs.     *)
(*  nnContext   Env.NNContext, the append-only vector of contexts; a      *)
(*              context keeps the 0-based handle of its graph (GraphRef). *)
(*  call        the last host call and its arguments.                    *)
(*  ret         the value it returned (an ErrNo, the HostFuncError trap,  *)
(*              or "Abort" when the call did not return).                 *)
(*  written     what it wrote through guest pointers: the handle, the     *)
(*              *BytesWritten word, the bytes copied to the output        *)
(*              buffer and which compute produced them (-1: nothing).     *)
(*  fault       "none", or the undefined behaviour / uncaught exception   *)
(*              the last call ran into; the host does not go on after it. *)
(*  leakedBlobs OpenVINO input blobs allocated and never freed.           *)
(***************************************************************************)
EXTENDS WasiNNTypes

VARIABLES nnGraph, nnContext, call, ret, written, fault, leakedBlobs

vars == <<nnGraph, nnContext, call, ret, written, fault, leakedBlobs>>

Faults == {"none", "oob_write", "oob_read", "heap_overflow", "null_deref",
           "unreachable", "uncaught_exception", "check_failure"}

Ops == {"none", "load", "init_execution_context", "set_input", "get_output",
        "compute"}

(* A Graph: its backend tag, its model, whether its backend-native       *)
(* objects are non-null, and (Tensorflow) whether its signature name is  *)
(* a key of the model's signature map.                                   *)
GraphType == [backend : Backends, model : Models, ready : BOOLEAN,
              sigOk : BOOLEAN]

(* A Context: its graph handle, its input slots, its output tensors, each *)
(* tagged with the compute call that produced it (0: none yet), the      *)
(* number of successful computes, and whether its native session object *)
(* (infer request, interpreter, bundle) is non-null.                     *)
ContextType == [graph : Nat, inputs : Seq(Data \cup {NoData}),
                outputs : Seq(Nat), computes : Nat, ready : BOOLEAN]

NoTensor == [ptrOk |-> FALSE, dimLen |-> 0, dimOk |-> FALSE, elems |-> 0,
             type |-> 0, dataOk |-> FALSE, dataLen |-> 0,
             val |-> CHOOSE d \in Data : TRUE]

CallType == [op : Ops, enc : Encodings \cup {"none"}, handle : Nat, idx : Nat,
             tensor : Tensors \cup {NoTensor}, max : Nat]

NoCall == [op |-> "none", enc |-> "none", handle |-> 0, idx |-> 0,
           tensor |-> NoTensor, max |-> 0]

WrittenType == [handle : Int, reported : Int, copied : Int, gen : Int]

NoWrite == [handle |-> -1, reported |-> -1, copied |-> -1, gen |-> -1]

(* The handle, graph and model of context c (0-based handles). *)
Ctx(c) == nnContext[c + 1]
GraphOf(c) == nnGraph[Ctx(c).graph + 1]
ModelOf(c) == GraphOf(c).model

(* The call returns error e and changes nothing. *)
Fail(e) ==
  /\ ret' = e
  /\ written' = NoWrite
  /\ UNCHANGED <<nnGraph, nnContext, fault, leakedBlobs>>

(* The call runs into undefined behaviour or an uncaught exception. *)
Abort(f) ==
  /\ fault' = f
  /\ ret' = "Abort"
  /\ written' = NoWrite
  /\ UNCHANGED <<nnGraph, nnContext, leakedBlobs>>

(* Context c's record is replaced by r and the call returns Success. *)
UpdateCtx(c, r) ==
  /\ nnContext' = [nnContext EXCEPT ![c + 1] = r]
  /\ ret' = Success
  /\ written' = NoWrite
  /\ UNCHANGED <<nnGraph, fault, leakedBlobs>>

(* Mutant: *GraphId = Env.NNGraph.size(), without the - 1. *)
AddGraphSizeHandle(g) ==
  /\ nnGraph' = Append(nnGraph, g)
  /\ ret' = Success
  /\ written' = [NoWrite EXCEPT !.handle = Len(nnGraph) + 1]
  /\ UNCHANGED <<nnContext, fault, leakedBlobs>>

(* emplace_back of graph g, whose index is written to *GraphId. *)
AddGraph(g) ==
  /\ nnGraph' = Append(nnGraph, g)
  /\ ret' = Success
  /\ written' = [NoWrite EXCEPT !.handle = Len(nnGraph)]
  /\ UNCHANGED <<nnContext, fault, leakedBlobs>>

(* Mutant: *Context = Env.NNContext.size(), without the - 1. *)
AddContextSizeHandle(r) ==
  /\ nnContext' = Append(nnContext, r)
  /\ ret' = Success
  /\ written' = [NoWrite EXCEPT !.handle = Len(nnContext) + 1]
  /\ UNCHANGED <<nnGraph, fault, leakedBlobs>>

(* emplace_back of context r, whose index is written to *Context. *)
AddContext(r) ==
  /\ nnContext' = Append(nnContext, r)
  /\ ret' = Success
  /\ written' = [NoWrite EXCEPT !.handle = Len(nnContext)]
  /\ UNCHANGED <<nnGraph, fault, leakedBlobs>>

(* A fresh context on graph g with the given input and output slots. *)
NewContext(g, ins, outs) ==
  [graph |-> g, inputs |-> ins, outputs |-> outs, computes |-> 0, ready |-> TRUE]

(* get_output's copy of n bytes of output o, then the *BytesWritten     *)
(* write, which only happens when that pointer resolves (bwOk).          *)
WriteOutput(n, copied, o, bwOk) ==
  /\ ret' = IF bwOk THEN Success ELSE InvalidArgument
  /\ written' = [handle |-> -1, reported |-> IF bwOk THEN n ELSE -1,
                 copied |-> copied, gen |-> o]
  /\ UNCHANGED <<nnGraph, nnContext, fault, leakedBlobs>>
=============================================================================
