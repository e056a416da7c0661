------------------------------ MODULE TorchDevices ------------------------------
(***************************************************************************)
(* Devices of Tensora and devices of LibTorch, on a machine with at most   *)
(* one kind of accelerator (native/src/training/torch_backend.cc).  A      *)
(* device is a kind and an index.                                          *)
(***************************************************************************)
EXTENDS Integers

DeviceKind == {"cpu", "cuda", "mps", "xpu", "hip"}
TorchKind == {"CPU", "CUDA", "MPS", "XPU", "HIP"}

\* What LibTorch says of the machine: its kind of accelerator, and how many.
NoAccelerator == [kind |-> "none", count |-> 0]

\* TorchDeviceFromSnapshot throws.
Unmapped == <<"refused", 0>>

MatchesAccelerator(kind, accelerator) ==
  <<kind, accelerator.kind>> \in
    {<<"cuda", "CUDA">>, <<"mps", "MPS">>, <<"xpu", "XPU">>, <<"hip", "HIP">>}

DeviceCount(kind, accelerator) ==
  IF kind = "cpu" THEN 1
  ELSE IF MatchesAccelerator(kind, accelerator) THEN accelerator.count
  ELSE 0

\* CPU and MPS have one device each.  An index that a c10::DeviceIndex has no
\* room for is refused as well; no count gets there.
Indexed(kind, index) == index >= 0 /\ (kind \in {"cpu", "mps"} => index = 0)

\* Where LibTorch keeps what is on device <<kind, index>>.  ROCm builds keep it
\* on CUDA devices, and MPS has one device, without an index.
TorchDevice(device, accelerator) ==
  LET kind == device[1]
      index == device[2] IN
  IF ~Indexed(kind, index) \/ index >= DeviceCount(kind, accelerator) THEN Unmapped
  ELSE CASE kind = "cpu" -> <<"CPU", -1>>
         [] kind = "mps" -> <<"MPS", -1>>
         [] kind = "xpu" -> <<"XPU", index>>
         [] kind \in {"cuda", "hip"} -> <<"CUDA", index>>

\* The name of the LibTorch device is taken at its word.
MapTorchDevice_ByName(device, accelerator) ==
  CASE device[1] = "CPU" -> <<"cpu", 0>>
    [] device[1] = "MPS" -> <<"mps", 0>>
    [] device[1] = "XPU" -> <<"xpu", device[2]>>
    [] device[1] = "HIP" -> <<"hip", device[2]>>
    [] device[1] = "CUDA" -> <<"cuda", device[2]>>

\* The device Tensora reports for a tensor LibTorch keeps on device.
MapTorchDevice(device, accelerator) ==
  CASE device[1] = "CPU" -> <<"cpu", 0>>
    [] device[1] = "MPS" -> <<"mps", 0>>
    [] device[1] = "XPU" -> <<"xpu", device[2]>>
    [] device[1] = "HIP" -> <<"hip", device[2]>>
    [] device[1] = "CUDA" ->
         <<IF accelerator.kind = "HIP" THEN "hip" ELSE "cuda", device[2]>>
=================================================================================
