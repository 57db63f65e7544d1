-------------------------------- MODULE MCHeap ------------------------------
(* The layouts of the run of Heap; the sizes are those of the kernel. *)
EXTENDS Heap

KernelSizes == <<8, 16, 32, 64, 128, 256, 512, 1024, 2048>>

\* 1024 after rounding, 2048 for its alignment, the largest class, one page past
\* the largest class, two pages, and more than the largest order.
SomeLayouts ==
  {[size |-> 1000, align |-> 8],
   [size |-> 600, align |-> 2048],
   [size |-> 2048, align |-> 16],
   [size |-> 2049, align |-> 8],
   [size |-> 5000, align |-> 4096],
   [size |-> 20000, align |-> 8]}

\* Two ranges with a hole; the first starts at an odd frame, the second is one block of
\* the largest order.
TwoRegions == <<<<1, 4>>, <<8, 12>>>>

=============================================================================
