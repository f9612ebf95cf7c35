--------------------------- MODULE HousekeepingSpi ---------------------------
(***************************************************************************)
(* housekeeping_spi.v: the bit-serial slave behind the housekeeping SPI    *)
(* pins.  Two clocked processes share the clock pin: PosedgeSck is the     *)
(* always block on the rising edge of SCK, NegedgeSck the one on the       *)
(* falling edge, CsbReset the asynchronous branch of both.                 *)
(*                                                                         *)
(* Bytes are numbers, so {a[6:0], b} is (2 * a + b) % 256.  The registers  *)
(* the slave reads and writes are the business of the modules that extend  *)
(* this one: they supply idata and look at oaddr, odata, rdstb and wrstb.  *)
(***************************************************************************)
EXTENDS Integers

Bit  == {0, 1}
Byte == 0 .. 255

VARIABLES
  state,      \* COMMAND, ADDRESS, DATA, USERPASS or MGMTPASS
  count,      \* bits of the current byte already received, modulo 8
  writemode, readmode,
  fixed,      \* bytes left of a fixed-length command, 0 when streaming
  addr,
  predata,    \* the first seven bits of a data byte
  rdstb, wrstb,
  ldata,      \* shift register to SDO
  sdoenb,
  pre_pass_thru_mgmt, pass_thru_mgmt_delay, pass_thru_mgmt,
  pre_pass_thru_user, pass_thru_user_delay, pass_thru_user

passVars == << pre_pass_thru_mgmt, pass_thru_mgmt_delay, pass_thru_mgmt,
               pre_pass_thru_user, pass_thru_user_delay, pass_thru_user >>
riseVars == << state, count, writemode, readmode, fixed, addr, predata, rdstb,
               passVars >>
fallVars == << wrstb, ldata, sdoenb >>
spiVars  == << riseVars, fallVars >>

SpiStates == {"COMMAND", "ADDRESS", "DATA", "USERPASS", "MGMTPASS"}

-----------------------------------------------------------------------------
(* The continuous assignments; sdi is the level of the data-in pin. *)

odata(sdi) == 2 * predata + sdi
oaddr(sdi) == IF state = "ADDRESS" THEN (2 * addr + sdi) % 256 ELSE addr
SDO        == ldata \div 128

pass_thru_mgmt_reset ==
  IF pass_thru_mgmt_delay = 1 \/ pre_pass_thru_mgmt = 1 THEN 1 ELSE 0
pass_thru_user_reset ==
  IF pass_thru_user_delay = 1 \/ pre_pass_thru_user = 1 THEN 1 ELSE 0

-----------------------------------------------------------------------------
SpiInit ==
  /\ state = "COMMAND"
  /\ count = 0
  /\ writemode = 0 /\ readmode = 0
  /\ fixed = 0
  /\ addr = 0
  /\ predata = 0
  /\ rdstb = 0 /\ wrstb = 0
  /\ ldata = 0
  /\ sdoenb = 1
  /\ pre_pass_thru_mgmt = 0 /\ pass_thru_mgmt_delay = 0 /\ pass_thru_mgmt = 0
  /\ pre_pass_thru_user = 0 /\ pass_thru_user_delay = 0 /\ pass_thru_user = 0

\* csb_reset: CSB high or the slave's reset.
CsbReset ==
  /\ state' = "COMMAND"
  /\ count' = 0
  /\ writemode' = 0 /\ readmode' = 0
  /\ fixed' = 0
  /\ addr' = 0
  /\ predata' = 0
  /\ rdstb' = 0 /\ wrstb' = 0
  /\ ldata' = 0
  /\ sdoenb' = 1
  /\ pre_pass_thru_mgmt' = 0 /\ pass_thru_mgmt_delay' = 0 /\ pass_thru_mgmt' = 0
  /\ pre_pass_thru_user' = 0 /\ pass_thru_user_delay' = 0 /\ pass_thru_user' = 0

-----------------------------------------------------------------------------
(* negedge SCK: read data and the write strobe. *)

NegedgeSck(idata) ==
  /\ wrstb' = IF state = "DATA" /\ count = 7
              THEN IF writemode = 1 THEN 1 ELSE wrstb
              ELSE 0
  /\ sdoenb' = IF \/ state \in {"MGMTPASS", "USERPASS"}
                  \/ state = "DATA" /\ readmode = 1
               THEN 0 ELSE 1
  /\ ldata' = IF state = "DATA" /\ readmode = 1
              THEN IF count = 0 THEN idata ELSE (2 * ldata) % 256
              ELSE ldata
  /\ UNCHANGED riseVars

-----------------------------------------------------------------------------
(* posedge SCK, one action per state. *)

\* Mutant: the pass-through bit moves the flash select at once, with no clock
\* of reset ahead of it.
BugCommandBitEarlySelect(sdi) ==
  /\ state = "COMMAND"
  /\ rdstb' = 0
  /\ count' = (count + 1) % 8
  /\ writemode' = IF count = 0 THEN sdi ELSE writemode
  /\ readmode' = IF count = 1 THEN sdi ELSE readmode
  /\ fixed' = IF count \in 2 .. 4 THEN (2 * fixed + sdi) % 8 ELSE fixed
  /\ pre_pass_thru_mgmt' = IF count = 5 THEN sdi
                           ELSE IF count = 7 THEN 0 ELSE pre_pass_thru_mgmt
  /\ pre_pass_thru_user' = IF count = 6 THEN sdi
                           ELSE IF count = 7 /\ pre_pass_thru_mgmt = 0 THEN 0
                           ELSE pre_pass_thru_user
  /\ pass_thru_mgmt_delay' = IF count = 5 THEN sdi ELSE pass_thru_mgmt_delay
  /\ pass_thru_user_delay' =
       IF count = 7 THEN pre_pass_thru_user ELSE pass_thru_user_delay
  /\ state' = IF count # 7 THEN "COMMAND"
              ELSE IF pre_pass_thru_mgmt = 1 THEN "MGMTPASS"
              ELSE IF pre_pass_thru_user = 1 THEN "USERPASS" ELSE "ADDRESS"
  /\ UNCHANGED << addr, predata, pass_thru_mgmt, pass_thru_user >>

CommandBit(sdi) ==
  /\ state = "COMMAND"
  /\ rdstb' = 0
  /\ count' = (count + 1) % 8
  /\ writemode' = IF count = 0 THEN sdi ELSE writemode
  /\ readmode' = IF count = 1 THEN sdi ELSE readmode
  /\ fixed' = IF count \in 2 .. 4 THEN (2 * fixed + sdi) % 8 ELSE fixed
  /\ pre_pass_thru_mgmt' = IF count = 5 THEN sdi
                           ELSE IF count = 7 THEN 0 ELSE pre_pass_thru_mgmt
  /\ pre_pass_thru_user' = IF count = 6 THEN sdi
                           ELSE IF count = 7 /\ pre_pass_thru_mgmt = 0 THEN 0
                           ELSE pre_pass_thru_user
  /\ pass_thru_mgmt_delay' =
       IF count = 6 THEN pre_pass_thru_mgmt ELSE pass_thru_mgmt_delay
  /\ pass_thru_user_delay' =
       IF count = 7 THEN pre_pass_thru_user ELSE pass_thru_user_delay
  /\ state' = IF count # 7 THEN "COMMAND"
              ELSE IF pre_pass_thru_mgmt = 1 THEN "MGMTPASS"
              ELSE IF pre_pass_thru_user = 1 THEN "USERPASS" ELSE "ADDRESS"
  /\ UNCHANGED << addr, predata, pass_thru_mgmt, pass_thru_user >>

AddressBit(sdi) ==
  /\ state = "ADDRESS"
  /\ count' = (count + 1) % 8
  /\ addr' = (2 * addr + sdi) % 256
  /\ state' = IF count = 7 THEN "DATA" ELSE "ADDRESS"
  /\ rdstb' = IF count = 7 THEN IF readmode = 1 THEN 1 ELSE rdstb ELSE 0
  /\ UNCHANGED << writemode, readmode, fixed, predata, passVars >>

\* Mutant: a fixed-length command runs one byte too long.
BugDataBitOneMore(sdi) ==
  /\ state = "DATA"
  /\ predata' = (2 * predata + sdi) % 128
  /\ count' = (count + 1) % 8
  /\ state' = "DATA"
  /\ fixed' = IF count = 7 /\ fixed # 0 THEN fixed - 1 ELSE fixed
  /\ addr' = IF count = 7 THEN (addr + 1) % 256 ELSE addr
  /\ rdstb' = IF count = 7 THEN IF readmode = 1 THEN 1 ELSE rdstb ELSE 0
  /\ UNCHANGED << writemode, readmode, passVars >>

\* The last bit of a byte ends a fixed-length command or moves on to the next
\* address.
DataBit(sdi) ==
  /\ state = "DATA"
  /\ predata' = (2 * predata + sdi) % 128
  /\ count' = (count + 1) % 8
  /\ state' = IF count = 7 /\ fixed = 1 THEN "COMMAND" ELSE "DATA"
  /\ fixed' = IF count = 7 /\ fixed \notin {0, 1} THEN fixed - 1 ELSE fixed
  /\ addr' = IF count = 7 /\ fixed # 1 THEN (addr + 1) % 256 ELSE addr
  /\ rdstb' = IF count = 7 THEN IF readmode = 1 THEN 1 ELSE rdstb ELSE 0
  /\ UNCHANGED << writemode, readmode, passVars >>

\* Mutant: entering the pass-through mode ends its reset.
BugPassBitDropsReset ==
  /\ state \in {"MGMTPASS", "USERPASS"}
  /\ pass_thru_mgmt' = IF state = "MGMTPASS" THEN 1 ELSE pass_thru_mgmt
  /\ pass_thru_user' = IF state = "USERPASS" THEN 1 ELSE pass_thru_user
  /\ pass_thru_mgmt_delay' = 0
  /\ UNCHANGED << state, count, writemode, readmode, fixed, addr, predata, rdstb,
                  pre_pass_thru_mgmt, pre_pass_thru_user, pass_thru_user_delay >>

PassBit ==
  /\ state \in {"MGMTPASS", "USERPASS"}
  /\ pass_thru_mgmt' = IF state = "MGMTPASS" THEN 1 ELSE pass_thru_mgmt
  /\ pass_thru_user' = IF state = "USERPASS" THEN 1 ELSE pass_thru_user
  /\ UNCHANGED << state, count, writemode, readmode, fixed, addr, predata, rdstb,
                  pre_pass_thru_mgmt, pass_thru_mgmt_delay,
                  pre_pass_thru_user, pass_thru_user_delay >>

PosedgeSck(sdi) ==
  /\ CommandBit(sdi) \/ AddressBit(sdi) \/ DataBit(sdi) \/ PassBit
  /\ UNCHANGED fallVars
=============================================================================
