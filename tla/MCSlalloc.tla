----------------------------- MODULE MCSlalloc -----------------------------
(* Slalloc with two objects per page and five bits per word: a block has two *)
(* pages and leaves one bit of its only word unused.                         *)
EXTENDS Slalloc

\* uintlog2(), whose table holds for powers of two
uintlog2(x) == CHOOSE k \in 0..x : 2^k = x

\* add_slalloc_page() asks fistful_of_pages() for 2^uintlog2(pagesperblock)
\* pages: that is a block, whatever the size of the objects.
ASSUME \A n \in 1..(2 * ObjsPerWord) : 2^uintlog2(PagesFor(n)) = PagesFor(n)
=============================================================================
