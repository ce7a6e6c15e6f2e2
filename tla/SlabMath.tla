------------------------------ MODULE SlabMath ------------------------------
(***************************************************************************)
(* Slab classes.  The write buffer, the RAM cache and the GPU cache round  *)
(* the length of a value up to one of eleven sizes, 1 KB to 1 MB.          *)
(***************************************************************************)
EXTENDS Integers

\* WriteBuffer::slab_size, in bytes, indexed by type 0..10.
slab_size == [t \in 0 .. 10 |->
    <<1024, 2048, 4096, 8192, 16384, 32768, 65536,
      131072, 262144, 524288, 1048576>>[t + 1]]

MaxLength == slab_size[10]

\* ceil(log2(length / 1024.0)), negative results replaced by 0: the smallest
\* type whose slab holds the value.  Defined for lengths up to MaxLength.
\* For length 0 the code converts minus infinity to int64_t, which on x86-64, the
\* build's target, is its least value: type 0 as well.
SlabType(length) ==
    CHOOSE t \in 0 .. 10 : /\ length <= slab_size[t]
                           /\ \A u \in 0 .. t - 1 : slab_size[u] < length

SlabBytes(length) == slab_size[SlabType(length)]
=============================================================================
