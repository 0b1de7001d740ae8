----------------------------- MODULE Arithmetic -----------------------------
(***************************************************************************)
(* Two arithmetic programs of test_progs: dft.c, which multiplies modulo   *)
(* 17 by a discrete Fourier transform of the bits, and                     *)
(* matrix_mult_rec.c, whose recursion keeps its place in static variables. *)
(***************************************************************************)
EXTENDS Integers, Sequences, FiniteSetsExt

n == 8
m == 17
w == 2
w_r == 9
n_r == 15

\* x as a short
Short(x) == ((x + 32768) % 65536) - 32768

\* modulo_m, of a short
modulo_m(x) == Short(x) % m

\* dft: even and odd places apart, until the root is 1.
RECURSIVE dft(_, _, _)
dft(a, len, root) ==
  IF root = 1 THEN a
  ELSE LET half == len \div 2
           squared == modulo_m(root * root)
           x == dft([i \in 0..half - 1 |-> a[2 * i]], half, squared)
           y == dft([i \in 0..half - 1 |-> a[2 * i + 1]], half, squared)
           base[i \in 0..half] == IF i = 0 THEN 1 ELSE modulo_m(base[i - 1] * root)
       IN  [i \in 0..len - 1 |->
              IF i < half THEN modulo_m(x[i] + base[i] * y[i])
              ELSE modulo_m(x[i - half] - base[i - half] * y[i - half])]

to_poly(x) == [i \in 0..n - 1 |-> (x \div 2 ^ i) % 2]

mult(x, y) ==
  LET a == dft(to_poly(x), n, w)
      b == dft(to_poly(y), n, w)
      c == dft([i \in 0..n - 1 |-> modulo_m(a[i] * b[i])], n, w_r)
      base[i \in 0..n] == IF i = 0 THEN 1 ELSE modulo_m(base[i - 1] * w)
      result[i \in 0..n] ==
        IF i = 0 THEN 0
        ELSE modulo_m(result[i - 1] + base[i - 1] * modulo_m(c[i - 1] * n_r))
  IN  result[n]
-----------------------------------------------------------------------------
\* multiplyMatrixRec, one call after the other: s holds the static variables and C.
\* What a call does after the call it makes returns sets them once more.
RECURSIVE multiplyMatrixRec(_, _, _, _, _, _)
multiplyMatrixRec(row1, col1, A, col2, B, s) ==
  LET call(t) == multiplyMatrixRec(row1, col1, A, col2, B, t)
      inner(t) == IF t.k < col1
                  THEN call([t EXCEPT !.C[t.i][t.j] = @ + A[t.i][t.k] * B[t.k][t.j],
                                      !.k = @ + 1])
                  ELSE t
      column(t) == IF t.j < col2
                   THEN LET u == inner(t) IN call([u EXCEPT !.k = 0, !.j = @ + 1])
                   ELSE t
  IN  IF s.i >= row1 THEN s
      ELSE LET t == column(s) IN call([t EXCEPT !.j = 0, !.i = @ + 1])

multiplyMatrix(row1, col1, A, col2, B) ==
  multiplyMatrixRec(row1, col1, A, col2, B,
    [i |-> 0, j |-> 0, k |-> 0,
     C |-> [i \in 0..row1 - 1 |-> [j \in 0..col2 - 1 |-> 0]]]).C

Product(row1, col1, A, col2, B) ==
  [i \in 0..row1 - 1 |-> [j \in 0..col2 - 1 |->
     MapThenSumSet(LAMBDA k : A[i][k] * B[k][j], 0..col1 - 1)]]
=============================================================================
