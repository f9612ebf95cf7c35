------------------------------ MODULE SpiBytes ------------------------------
(***************************************************************************)
(* What the housekeeping SPI promises its user, one whole byte per step:   *)
(* the command table in the header of housekeeping_spi.v.                  *)
(*                                                                         *)
(*   wrnnn000  write and/or read, until CSB is raised (nnn = 0) or for     *)
(*             nnn bytes, after which a new command may follow             *)
(*   1100010x  pass-through to the management flash until CSB is raised    *)
(*   11000010  pass-through to the user flash until CSB is raised          *)
(***************************************************************************)
EXTENDS Integers

CONSTANTS Commands, Addresses, DataBytes, RegAddrs

VARIABLES
  phase,  \* the byte expected next, or the pass-through mode
  wmode, rmode, left,
  ptr,    \* the register the next data byte is for
  mem,    \* the registers
  got     \* the last byte read

bytesVars == << phase, wmode, rmode, left, ptr, mem, got >>

BitOf(b, i) == (b \div 2^i) % 2
Peek(a)     == IF a \in RegAddrs THEN mem[a] ELSE 0

BytesInit ==
  /\ phase = "COMMAND"
  /\ wmode = 0 /\ rmode = 0 /\ left = 0
  /\ ptr = 0
  /\ mem = [a \in RegAddrs |-> 0]
  /\ got = 0

Command(b) ==
  /\ phase = "COMMAND"
  /\ phase' = IF BitOf(b, 2) = 1 THEN "MGMTPASS"
              ELSE IF BitOf(b, 1) = 1 THEN "USERPASS" ELSE "ADDRESS"
  /\ wmode' = BitOf(b, 7)
  /\ rmode' = BitOf(b, 6)
  /\ left' = (b \div 8) % 8
  /\ UNCHANGED << ptr, mem, got >>

Address(a) ==
  /\ phase = "ADDRESS"
  /\ phase' = "DATA"
  /\ ptr' = a
  /\ UNCHANGED << wmode, rmode, left, mem, got >>

\* One data byte, read and written at the same register at once: a read sees
\* the value from before the write.
Data(b) ==
  /\ phase = "DATA"
  /\ mem' = IF wmode = 1 /\ ptr \in RegAddrs THEN [mem EXCEPT ![ptr] = b] ELSE mem
  /\ got' = IF rmode = 1 THEN Peek(ptr) ELSE got
  /\ IF left = 1
     THEN phase' = "COMMAND" /\ wmode' = 0 /\ rmode' = 0 /\ left' = 0 /\ ptr' = 0
     ELSE /\ ptr' = (ptr + 1) % 256
          /\ left' = IF left = 0 THEN 0 ELSE left - 1
          /\ UNCHANGED << phase, wmode, rmode >>

\* CSB raised: whatever was under way is dropped.
Deselect ==
  /\ phase' = "COMMAND"
  /\ wmode' = 0 /\ rmode' = 0 /\ left' = 0
  /\ ptr' = 0
  /\ UNCHANGED << mem, got >>

BytesNext ==
  \/ \E b \in Commands : Command(b)
  \/ \E a \in Addresses : Address(a)
  \/ \E b \in DataBytes : Data(b)
  \/ Deselect

BytesSpec == BytesInit /\ [][BytesNext]_bytesVars
=============================================================================
