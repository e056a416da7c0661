------------------------------ MODULE MCModuleMove ------------------------------
(* Two layers with a weight and a bias each; the CPU, two ROCm devices and one of
   each other kind, on machines with one kind of accelerator or none. *)
EXTENDS ModuleMove

MCDevice ==
  {<<"cpu", 0>>, <<"hip", 0>>, <<"hip", 1>>, <<"cuda", 0>>, <<"xpu", 0>>, <<"mps", 0>>}
MCAccelerators ==
  {NoAccelerator, [kind |-> "HIP", count |-> 2]}
    \cup {[kind |-> k, count |-> 1] : k \in {"HIP", "CUDA", "XPU", "MPS"}}
=================================================================================
