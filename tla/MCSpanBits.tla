------------------------------ MODULE MCSpanBits ------------------------------
(* A small instance of SpanBits for TLC, and one of the page arithmetic of    *)
(* memory_span.rs and memory_heap.rs, so that its assumptions are evaluated.  *)
EXTENDS SpanBitsInvariant, Arenas
===============================================================================
