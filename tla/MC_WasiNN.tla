------------------------------ MODULE MC_WasiNN ------------------------------
(***************************************************************************)
(* Instances of WasiNN for TLC.  Sizes are scaled: U32Mod stands for     *)
(* 2^32, and the models' byte counts (40 and 12) and the guest buffer    *)
(* sizes (16, 64) lie on both sides of one another below it.            *)
(***************************************************************************)
EXTENDS WasiNN, TLC

(* A single-input single-output model of 10 F32 elements each way, a   *)
(* rank-2 float output, whose forward returns one tensor.               *)
MCIdentity ==
  [nIn |-> 1, nOut |-> 1, inType |-> F32, inElems |-> 10, outElems |-> 10,
   outKind |-> "tensor", outRank2 |-> TRUE]

(* A two-input model returning a list of one output, with U8 inputs. *)
MCPair ==
  [nIn |-> 2, nOut |-> 1, inType |-> U8, inElems |-> 12, outElems |-> 10,
   outKind |-> "list", outRank2 |-> TRUE]

(* A model whose forward returns neither a tensor nor a list, whose    *)
(* output is small and of rank 1, and whose input type is not mapped.  *)
MCOdd ==
  [nIn |-> 1, nOut |-> 1, inType |-> 7, inElems |-> 3, outElems |-> 3,
   outKind |-> "other", outRank2 |-> FALSE]

MCTensor(type, elems, dataLen, dimOk) ==
  [ptrOk |-> TRUE, dimLen |-> 2, dimOk |-> dimOk, elems |-> elems,
   type |-> type, dataOk |-> TRUE, dataLen |-> dataLen, val |-> "d1"]

(* A well-formed [1,10] F32 tensor. *)
MCGood == MCTensor(F32, 10, 40, TRUE)
(* A [1,12] U8 tensor. *)
MCBytes == MCTensor(U8, 12, 12, TRUE)
(* A [1,10] F32 tensor whose data is longer than its shape. *)
MCLong == MCTensor(F32, 10, 48, TRUE)
(* A [1,10] F32 tensor whose data is shorter than its shape. *)
MCShort == MCTensor(F32, 10, 8, TRUE)
(* A tensor whose dimension pointer does not resolve. *)
MCBadDims == MCTensor(F32, 10, 40, FALSE)
(* A tensor with a type tag outside the enum. *)
MCBadType == MCTensor(9, 10, 40, TRUE)
(* A [2] F32 tensor of 8 bytes. *)
MCTiny == MCTensor(F32, 2, 8, TRUE)
(* A descriptor whose own pointer does not resolve. *)
MCBadPtr == [MCGood EXCEPT !.ptrOk = FALSE]
(* A rank-9 descriptor. *)
MCRank9 == [MCGood EXCEPT !.dimLen = 9]
MCOV_Models == {MCIdentity, MCPair}
MCOV_Tensors == {MCGood, MCLong, MCBadPtr}
MCTorch_Models == {MCIdentity, MCPair, MCOdd}
MCTorch_Tensors == {MCGood, MCBytes, MCShort, MCBadPtr}
MCTFLite_Models == {MCIdentity, MCPair, MCOdd}
MCTFLite_Tensors == {MCGood, MCBytes, MCBadDims, MCBadPtr}
MCTF_Models == {MCIdentity, MCOdd}
MCTF_Tensors == {MCGood, MCBytes, MCShort, MCTiny, MCBadType}
MCMixed_Models == {MCIdentity}
MCMixed_Tensors == {MCGood}
MCAll_Models == {MCIdentity, MCPair, MCOdd}
MCAll_Tensors ==
  {MCGood, MCBytes, MCLong, MCShort, MCBadDims, MCBadType, MCTiny, MCBadPtr, MCRank9}
=============================================================================
