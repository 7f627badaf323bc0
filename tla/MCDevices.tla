----------------------------- MODULE MCDevices ------------------------------
(* A small instance of the device manager for TLC: the kernel's namespace, *)
(* and in it two devices of the same name.                                 *)
EXTENDS Devices, TLC

CONSTANTS r, n1, n2, n3, n4, e1, e2, kernel_ns, pit, twin

Interchangeable == Permutations({n1, n2, n3, n4}) \cup Permutations(Elems)

Names == [d \in Devs |-> CASE d = dev_root -> "device_root"
                           [] d = kernel_ns -> "kernel_ns"
                           [] d \in {pit, twin} -> "pit"]

InKernel == <<<<kernel_ns, dev_root>>, <<pit, kernel_ns>>, <<twin, kernel_ns>>>>

=============================================================================
