------------------------------ MODULE CsrAccess ------------------------------
(***************************************************************************)
(* firmware/hw/common.h: how a value wider than a bus word is cut into the *)
(* slices of a CSR and put together again.                                 *)
(*                                                                         *)
(* A value is the sequence of its bytes, the most significant one first;   *)
(* a CSR is the sequence of its slices in address order, each of dw bytes  *)
(* (CSR_DW_BYTES).  The bus word behind csr_read_simple is a uint32_t, so  *)
(* dw is 1, 2 or 4; soc.h sets 4.                                          *)
(***************************************************************************)
EXTENDS Integers, Sequences, SequencesExt

\* The low n bytes of a value, zero-extended; the value shifted down n bytes.
LowBytes(v, n) ==
  [i \in 1 .. n |-> IF i + Len(v) > n THEN v[i + Len(v) - n] ELSE 0]
ShiftDown(v, n) == SubSeq(v, 1, Len(v) - n)

num_subregs(dw, csr_bytes) == (csr_bytes - 1) \div dw + 1

\* csr_write_simple, csr_read_simple: the slice keeps dw bytes of the word.
csr_write_simple(dw, v) == LowBytes(v, dw)
csr_read_simple(csr, i) == csr[i]

\* Read a CSR of csr_bytes bytes that starts at slice a; csr_rd_uint8 to
\* csr_rd_uint64 are the instances for 1, 2, 4 and 8 bytes.
csr_rd(dw, csr, a, csr_bytes) ==
  LET r == FlattenSeq([i \in 1 .. num_subregs(dw, csr_bytes) |->
                         csr_read_simple(csr, a + i - 1)])
  IN LowBytes(r, csr_bytes)

\* The slices a write of v leaves, lowest address first.
csr_wr(dw, v) ==
  LET ns == num_subregs(dw, Len(v))
  IN [i \in 1 .. ns |-> csr_write_simple(dw, ShiftDown(v, dw * (ns - i)))]

\* Where element k of an array of cnt elements of size bytes lies when several
\* share a slice: << slice, place in the slice >>, right-justified.
Place(dw, size, cnt, k) ==
  LET nsubelems == dw \div size
      offset    == num_subregs(dw, size * cnt) * nsubelems - cnt
  IN << (k - 1 + offset) \div nsubelems + 1, ((k - 1 + offset) % nsubelems) + 1 >>

\* Mutant: the address moves on by one slice per element however wide it is.
BugCsrRdBuf(dw, csr, size, cnt) ==
  [k \in 1 .. cnt |->
     IF size >= dw
     THEN csr_rd(dw, csr, k, size)
     ELSE LET p == Place(dw, size, cnt, k)
          IN LowBytes(ShiftDown(csr_read_simple(csr, p[1]), size * (dw \div size - p[2])),
                      size)]

csr_rd_buf(dw, csr, size, cnt) ==
  [k \in 1 .. cnt |->
     IF size >= dw
     THEN csr_rd(dw, csr, num_subregs(dw, size) * (k - 1) + 1, size)
     ELSE LET p == Place(dw, size, cnt, k)
          IN LowBytes(ShiftDown(csr_read_simple(csr, p[1]), size * (dw \div size - p[2])),
                      size)]

csr_wr_buf(dw, buf) ==
  LET size == Len(buf[1])
  IN IF size >= dw
     THEN FlattenSeq([k \in 1 .. Len(buf) |-> csr_wr(dw, buf[k])])
     ELSE [i \in 1 .. num_subregs(dw, size * Len(buf)) |->
             csr_write_simple(dw,
               FlattenSeq([k \in 1 .. Len(buf) |->
                 IF Place(dw, size, Len(buf), k)[1] = i THEN buf[k] ELSE << >>]))]
=============================================================================
