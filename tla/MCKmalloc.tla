------------------------------ MODULE MCKmalloc ------------------------------
EXTENDS Kmalloc

\* Two small sizes, a page and two pages.
MCSizes == {1, 2, U, 2 * U}
=============================================================================
