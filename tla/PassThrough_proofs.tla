-------------------------- MODULE PassThrough_proofs --------------------------
(***************************************************************************)
(* The SPI slave and the flash behind it, for every set of commands,       *)
(* addresses and data bytes and whatever the core does with its flash.     *)
(* Of the slave alone: pass-through only under reset, for the three        *)
(* pass-through bits follow the bit count of the command byte (PassInv);   *)
(* the refinement of SpiBytes, for ByteInv says what the registers of the  *)
(* slave hold when count bits of a byte have passed.  With the flash: what *)
(* is proved of the slave carries over (PassImplementsFront), the core is  *)
(* idle whenever the SPI pins hold the select, and the flash is as far in  *)
(* a byte as the master (FlashInv).                                        *)
(***************************************************************************)
EXTENDS PassThrough, TLAPS

LEMMA PassInvInit ==
  ASSUME FrontInit PROVE PassInv
BY DEF FrontInit, SpiInit, PassInv, SpiStates

LEMMA PassReset ==
  ASSUME CsbReset PROVE PassInv'
BY DEF CsbReset, PassInv, SpiStates

\* One bit of a command: the reset bit at count 5, the select bit at count 6,
\* the mode at count 7.
LEMMA PassCommand ==
  ASSUME PassInv, NEW sdi, CommandBit(sdi) PROVE PassInv'
<1>1. state = "COMMAND" /\ count \in 0 .. 7
  BY DEF PassInv, CommandBit
<1>2. pass_thru_mgmt # 1 /\ pass_thru_user # 1
  BY <1>1 DEF PassInv
<1>3. pass_thru_mgmt' # 1 /\ pass_thru_user' # 1
  BY <1>2 DEF CommandBit
<1>4. CASE count = 7
  <2>1. pre_pass_thru_mgmt' = 0 /\ pass_thru_mgmt_delay' = pass_thru_mgmt_delay
    BY <1>4 DEF CommandBit
  <2>2. pass_thru_mgmt_delay = 1 <=> pre_pass_thru_mgmt = 1
    BY <1>1, <1>4 DEF PassInv
  <2>3. /\ count' = 0
        /\ state' = IF pre_pass_thru_mgmt = 1 THEN "MGMTPASS"
                    ELSE IF pre_pass_thru_user = 1 THEN "USERPASS" ELSE "ADDRESS"
    BY <1>4 DEF CommandBit
  <2> QED
    BY <1>3, <2>1, <2>2, <2>3 DEF PassInv, SpiStates
<1>5. CASE count \in 0 .. 6
  <2>1. state' = "COMMAND" /\ count' = count + 1
    BY <1>5 DEF CommandBit
  <2>2. pre_pass_thru_mgmt' = 1 => count' \in 6 .. 7
    BY <1>1, <1>5, <2>1 DEF CommandBit, PassInv
  <2>3. pass_thru_mgmt_delay' = 1 <=> count' = 7 /\ pre_pass_thru_mgmt' = 1
    BY <1>1, <1>5, <2>1 DEF CommandBit, PassInv
  <2> QED
    BY <1>3, <1>5, <2>1, <2>2, <2>3 DEF PassInv, SpiStates
<1> QED
  BY <1>1, <1>4, <1>5

LEMMA PassOtherBits ==
  ASSUME PassInv, NEW sdi, AddressBit(sdi) \/ DataBit(sdi) \/ PassBit
  PROVE  PassInv'
<1>1. CASE AddressBit(sdi)
  <2>1. /\ state = "ADDRESS" /\ state' \in {"ADDRESS", "DATA"}
        /\ count' = (count + 1) % 8 /\ UNCHANGED passVars
    BY <1>1 DEF AddressBit
  <2> QED
    BY <2>1 DEF PassInv, SpiStates, passVars
<1>2. CASE DataBit(sdi)
  <2>1. /\ state = "DATA" /\ state' \in {"COMMAND", "DATA"}
        /\ count' = (count + 1) % 8 /\ UNCHANGED passVars
    BY <1>2 DEF DataBit
  <2> QED
    BY <2>1 DEF PassInv, SpiStates, passVars
<1>3. CASE PassBit
  BY <1>3 DEF PassBit, PassInv, SpiStates
<1> QED
  BY <1>1, <1>2, <1>3

LEMMA PassStep ==
  ASSUME PassInv, [FrontNext]_frontVars PROVE PassInv'
<1>1. CASE CsbFall
  BY <1>1 DEF CsbFall, PassInv, spiVars, riseVars, passVars
<1>2. CASE CsbRise
  BY <1>2, PassReset DEF CsbRise
<1>3. CASE SckRise
  BY <1>3, PassCommand, PassOtherBits DEF SckRise, PosedgeSck
<1>4. CASE SckFall
  BY <1>4 DEF SckFall, NegedgeSck, PassInv, spiVars, riseVars, passVars
<1>5. CASE UNCHANGED frontVars
  BY <1>5 DEF PassInv, frontVars, spiVars, riseVars, passVars
<1> QED
  BY <1>1, <1>2, <1>3, <1>4, <1>5 DEF FrontNext

\* The bits of the pass-through modes follow the command byte, at every bit and
\* for every master (COMMAND to MGMTPASS in housekeeping_spi.v).
THEOREM PassInvariant == FrontSpec => []PassInv
<1>1. FrontInit => PassInv
  BY PassInvInit
<1>2. PassInv /\ [FrontNext]_frontVars => PassInv'
  BY PassStep
<1> QED
  BY <1>1, <1>2, PTL DEF FrontSpec

\* "Signals may only be applied when the core processor is in reset", for every
\* master: PassThroughInReset is an invariant.
THEOREM PassThroughSafe == FrontSpec => []PassThroughInReset
<1>1. PassInv => PassThroughInReset
  BY DEF PassInv, PassThroughInReset, pass_thru_mgmt_reset
<1> QED
  BY <1>1, PassInvariant, PTL

\* One step keeps the promise of ResetHeld.
LEMMA HeldStep ==
  ASSUME PassInv, [FrontNext]_frontVars
  PROVE  /\ pass_thru_mgmt_delay' = 1 => pass_thru_mgmt_reset = 1
         /\ pass_thru_mgmt_delay = 1 /\ CSB' = 0 => pass_thru_mgmt_reset' = 1
<1>1. CASE SckRise
  <2>1. pass_thru_mgmt_delay' = 1 => pass_thru_mgmt_delay = 1 \/ pre_pass_thru_mgmt = 1
    BY <1>1 DEF SckRise, PosedgeSck, CommandBit, AddressBit, DataBit, PassBit, passVars
  <2>2. pass_thru_mgmt_delay = 1 => pass_thru_mgmt_delay' = 1
    BY <1>1 DEF SckRise, PosedgeSck, CommandBit, AddressBit, DataBit, PassBit, passVars,
                PassInv
  <2> QED
    BY <2>1, <2>2 DEF pass_thru_mgmt_reset
<1>2. CASE CsbRise
  BY <1>2 DEF CsbRise, CsbReset
<1>3. CASE CsbFall \/ SckFall \/ UNCHANGED frontVars
  <2>1. pass_thru_mgmt_delay' = pass_thru_mgmt_delay
    BY <1>3 DEF CsbFall, SckFall, NegedgeSck, frontVars, spiVars, riseVars, passVars
  <2> QED
    BY <2>1 DEF pass_thru_mgmt_reset
<1> QED
  BY <1>1, <1>2, <1>3 DEF FrontNext

\* The reset of the core begins one SCK before the flash select moves and has
\* no gap until CSB is raised, for every master: ResetHeld holds.
THEOREM ResetIsHeld == FrontSpec => ResetHeld
<1>1. PassInv /\ [FrontNext]_frontVars =>
        [/\ pass_thru_mgmt_delay' = 1 => pass_thru_mgmt_reset = 1
         /\ pass_thru_mgmt_delay = 1 /\ CSB' = 0 => pass_thru_mgmt_reset' = 1]_frontVars
  BY HeldStep
<1> QED
  BY <1>1, PassInvariant, PTL DEF FrontSpec, ResetHeld

-----------------------------------------------------------------------------
(* Bits and bytes. *)

LEMMA Powers ==
  /\ 2^0 = 1 /\ 2^1 = 2 /\ 2^2 = 4 /\ 2^3 = 8 /\ 2^4 = 16
  /\ 2^5 = 32 /\ 2^6 = 64 /\ 2^7 = 128 /\ 2^8 = 256
  OBVIOUS

\* The bit of b that is on the wire when n have been sent.
BitSent(b, n) == (b \div 2^(7 - n)) % 2

\* One more bit of b, taken from the top.
LEMMA NextBit ==
  ASSUME NEW n \in 0 .. 7, NEW b \in Byte
  PROVE  /\ b \div 2^(7 - n) = 2 * (b \div 2^(8 - n)) + BitSent(b, n)
         /\ b \div 2^(8 - n) \in 0 .. 2^n - 1
         /\ BitSent(b, n) \in Bit
<1>1. CASE n = 0
  BY <1>1, Powers DEF BitSent, Byte, Bit
<1>2. CASE n = 1
  BY <1>2, Powers DEF BitSent, Byte, Bit
<1>3. CASE n = 2
  BY <1>3, Powers DEF BitSent, Byte, Bit
<1>4. CASE n = 3
  BY <1>4, Powers DEF BitSent, Byte, Bit
<1>5. CASE n = 4
  BY <1>5, Powers DEF BitSent, Byte, Bit
<1>6. CASE n = 5
  BY <1>6, Powers DEF BitSent, Byte, Bit
<1>7. CASE n = 6
  BY <1>7, Powers DEF BitSent, Byte, Bit
<1>8. CASE n = 7
  BY <1>8, Powers DEF BitSent, Byte, Bit
<1> QED
  BY <1>1, <1>2, <1>3, <1>4, <1>5, <1>6, <1>7, <1>8

\* A byte after one more bit has been shifted in, and its low n bits.
Shifted(r, s) == (2 * r + s) % 256
LowBits(r, n) == r % 2^n

\* Shifting a bit in doubles the low bits and adds the bit.
LEMMA LowBitsShifted ==
  ASSUME NEW n \in 0 .. 7, NEW r \in Byte, NEW s \in Bit
  PROVE  LowBits(Shifted(r, s), n + 1) = 2 * LowBits(r, n) + s
<1>a. Shifted(r, s) = 2 * r + s \/ Shifted(r, s) = 2 * r + s - 256
  BY DEF Byte, Bit, Shifted
<1>b. Shifted(r, s) \in Int
  BY DEF Byte, Bit, Shifted
<1>1. CASE n = 0
  BY <1>1, <1>a, <1>b, Powers DEF Byte, Bit, LowBits
<1>2. CASE n = 1
  BY <1>2, <1>a, <1>b, Powers DEF Byte, Bit, LowBits
<1>3. CASE n = 2
  BY <1>3, <1>a, <1>b, Powers DEF Byte, Bit, LowBits
<1>4. CASE n = 3
  BY <1>4, <1>a, <1>b, Powers DEF Byte, Bit, LowBits
<1>5. CASE n = 4
  BY <1>5, <1>a, <1>b, Powers DEF Byte, Bit, LowBits
<1>6. CASE n = 5
  BY <1>6, <1>a, <1>b, Powers DEF Byte, Bit, LowBits
<1>7. CASE n = 6
  BY <1>7, <1>a, <1>b, Powers DEF Byte, Bit, LowBits
<1>8. CASE n = 7
  BY <1>8, <1>a, <1>b, Powers DEF Byte, Bit, LowBits
<1> QED
  BY <1>1, <1>2, <1>3, <1>4, <1>5, <1>6, <1>7, <1>8

\* The first n bits of b are the low bits of r: one more bit is shifted in.
LEMMA ShiftIn ==
  ASSUME NEW n \in 0 .. 7, NEW b \in Byte, NEW r \in Byte,
         r % 2^n = b \div 2^(8 - n)
  PROVE  /\ ((2 * r + BitSent(b, n)) % 256) % 2^(n + 1) = b \div 2^(7 - n)
         /\ (2 * r + BitSent(b, n)) % 256 \in Byte
         /\ n = 7 => (2 * r + BitSent(b, n)) % 256 = b
<1>1. /\ b \div 2^(7 - n) = 2 * (b \div 2^(8 - n)) + BitSent(b, n)
      /\ BitSent(b, n) \in Bit
  BY NextBit
<1> DEFINE s == BitSent(b, n)
<1> HIDE DEF s
<1>2. s \in Bit
  BY <1>1 DEF s
<1>3. ((2 * r + s) % 256) % 2^(n + 1) = 2 * (r % 2^n) + s
  <2>1. LowBits(Shifted(r, s), n + 1) = 2 * LowBits(r, n) + s
    BY <1>2, LowBitsShifted
  <2> QED
    BY <2>1 DEF LowBits, Shifted
<1>4. (2 * r + s) % 256 \in Byte
  BY <1>2 DEF Bit, Byte
<1>5. ((2 * r + s) % 256) % 2^(n + 1) = b \div 2^(7 - n)
  BY <1>1, <1>3, r % 2^n = b \div 2^(8 - n) DEF s
<1>6. n = 7 => (2 * r + s) % 256 = b
  <2> SUFFICES ASSUME n = 7 PROVE (2 * r + s) % 256 = b
    OBVIOUS
  <2>1. ((2 * r + s) % 256) % 256 = b \div 1
    BY <1>5, Powers
  <2> QED
    BY <2>1, <1>4 DEF Byte
<1> QED
  BY <1>4, <1>5, <1>6 DEF s

\* The same in the seven bits of predata, which keeps no last bit.
LEMMA ShiftInData ==
  ASSUME NEW n \in 0 .. 7, NEW b \in Byte, NEW r \in 0 .. 127,
         r % 2^n = b \div 2^(8 - n)
  PROVE  /\ n < 7 => ((2 * r + BitSent(b, n)) % 128) % 2^(n + 1) = b \div 2^(7 - n)
         /\ (2 * r + BitSent(b, n)) % 128 \in 0 .. 127
         /\ n = 7 => 2 * r + BitSent(b, n) = b
<1>1. r \in Byte
  BY DEF Byte
<1>2. /\ b \div 2^(7 - n) = 2 * (b \div 2^(8 - n)) + BitSent(b, n)
      /\ BitSent(b, n) \in Bit
  BY NextBit
<1>3. LowBits(Shifted(r, BitSent(b, n)), n + 1) = 2 * LowBits(r, n) + BitSent(b, n)
  BY <1>1, <1>2, LowBitsShifted
<1> DEFINE s == BitSent(b, n)
           q == b \div 2^(7 - n)
<1>4. s \in Bit /\ ((2 * r + s) % 256) % 2^(n + 1) = q
  BY <1>2, <1>3, r % 2^n = b \div 2^(8 - n) DEF LowBits, Shifted
<1>5. n = 7 => q = b
  BY Powers DEF Byte
<1> HIDE DEF s, q
<1>6. (2 * r + s) % 256 = 2 * r + s /\ (2 * r + s) % 128 \in 0 .. 127
  BY <1>4 DEF Bit
<1>7. (2 * r + s) % 128 = 2 * r + s \/ (2 * r + s) % 128 = 2 * r + s - 128
  BY <1>4 DEF Bit
<1>8. n = 7 => 2 * r + s = b
  <2> SUFFICES ASSUME n = 7 PROVE 2 * r + s = b
    OBVIOUS
  <2>1. ((2 * r + s) % 256) % 256 = b
    BY <1>4, <1>5, Powers
  <2> QED
    BY <2>1, <1>4, <1>6 DEF Bit
<1>9. n < 7 => ((2 * r + s) % 128) % 2^(n + 1) = q
  <2> DEFINE e == (2 * r + s) % 128
  <2>0. /\ e \in Int /\ s \in Int /\ r \in Int /\ (2 * r + s) % 2^(n + 1) = q
        /\ e = 2 * r + s \/ e = 2 * r + s - 128
    BY <1>4, <1>6, <1>7 DEF Bit
  <2> HIDE DEF e
  <2>1. CASE n = 0
    BY <2>1, <2>0, Powers
  <2>2. CASE n = 1
    BY <2>2, <2>0, Powers
  <2>3. CASE n = 2
    BY <2>3, <2>0, Powers
  <2>4. CASE n = 3
    BY <2>4, <2>0, Powers
  <2>5. CASE n = 4
    BY <2>5, <2>0, Powers
  <2>6. CASE n = 5
    BY <2>6, <2>0, Powers
  <2>7. CASE n = 6
    BY <2>7, <2>0, Powers
  <2>8. CASE n = 7
    BY <2>8
  <2> QED
    BY <2>1, <2>2, <2>3, <2>4, <2>5, <2>6, <2>7, <2>8 DEF e
<1> QED
  BY <1>6, <1>9, <1>8 DEF s, q

\* A byte shifted out n times shows its bit n, counted from the top.
LEMMA ShiftOut ==
  ASSUME NEW n \in 0 .. 7, NEW b \in Byte
  PROVE  /\ ((b * 2^n) % 256) \div 128 = BitSent(b, n)
         /\ (2 * ((b * 2^n) % 256)) % 256 = (b * 2^(n + 1)) % 256
         /\ (b * 2^n) % 256 \in Byte
<1>1. CASE n = 0
  BY <1>1, Powers DEF BitSent, Byte
<1>2. CASE n = 1
  BY <1>2, Powers DEF BitSent, Byte
<1>3. CASE n = 2
  BY <1>3, Powers DEF BitSent, Byte
<1>4. CASE n = 3
  BY <1>4, Powers DEF BitSent, Byte
<1>5. CASE n = 4
  BY <1>5, Powers DEF BitSent, Byte
<1>6. CASE n = 5
  BY <1>6, Powers DEF BitSent, Byte
<1>7. CASE n = 6
  BY <1>7, Powers DEF BitSent, Byte
<1>8. CASE n = 7
  BY <1>8, Powers DEF BitSent, Byte
<1> QED
  BY <1>1, <1>2, <1>3, <1>4, <1>5, <1>6, <1>7, <1>8

LEMMA BitIsABit ==
  ASSUME NEW n \in 0 .. 7, NEW b \in Byte
  PROVE  BitSent(b, n) \in Bit
<1>1. CASE n \in 0 .. 3
  BY <1>1, Powers DEF BitSent, Byte, Bit
<1>2. CASE n \in 4 .. 7
  BY <1>2, Powers DEF BitSent, Byte, Bit
<1> QED
  BY <1>1, <1>2

\* No byte has been shifted in or out before the first bit.
LEMMA NoBits ==
  ASSUME NEW b \in Byte, NEW r \in Byte
  PROVE  r % 2^0 = b \div 2^(8 - 0) /\ (b * 2^0) % 256 = b
  BY Powers DEF Byte

-----------------------------------------------------------------------------
(* The slave between two whole bytes.  How far it is in a byte is said by   *)
(* count: the first count bits of the master's byte have been shifted in,   *)
(* and, of a byte that is read, out.                                        *)

Receiving == state \in {"COMMAND", "ADDRESS", "DATA"}

\* In the middle of a byte, or waiting for the first bit of one.
InByte == CSB = 0 /\ Receiving /\ (SCK = 0 \/ count # 0)

FrontTypeOK ==
  /\ state \in SpiStates /\ count \in 0 .. 7
  /\ writemode \in Bit /\ readmode \in Bit /\ fixed \in 0 .. 7
  /\ addr \in Byte /\ predata \in 0 .. 127
  /\ wrstb \in Bit /\ ldata \in Byte /\ sdoenb \in Bit
  /\ pre_pass_thru_mgmt \in Bit /\ pre_pass_thru_user \in Bit /\ pass_thru_mgmt_delay \in Bit
  /\ SCK \in Bit /\ CSB \in Bit
  /\ mbyte \in Byte /\ mbit \in 0 .. 7 /\ rbyte \in Byte
  /\ mem \in [RegAddrs -> Byte]

\* The master and the slave count the same bits.
CountsAgree ==
  /\ CSB = 1 => state = "COMMAND" /\ count = 0 /\ mbit = 0 /\ wrstb = 0
  /\ CSB = 0 /\ Receiving => count = IF SCK = 0 THEN mbit ELSE (mbit + 1) % 8

\* The byte on the wire has the role the state expects.
RoleOK ==
  InByte =>
    /\ state = "COMMAND" => mbyte \in Commands
    /\ state = "ADDRESS" => mbyte \in Addresses
    /\ state = "DATA" => mbyte \in DataBytes

\* The mode registers are set bit by bit.
CommandInv ==
  CSB = 0 /\ state = "COMMAND" =>
    /\ count >= 1 => writemode = BitSent(mbyte, 0)
    /\ count >= 2 => readmode = BitSent(mbyte, 1)
    /\ count = 3 => fixed % 2 = BitSent(mbyte, 2)
    /\ count = 4 => fixed % 4 = 2 * BitSent(mbyte, 2) + BitSent(mbyte, 3)
    /\ count >= 5 => fixed = (mbyte \div 8) % 8
    /\ count >= 6 => pre_pass_thru_mgmt = BitSent(mbyte, 5)
    /\ count = 7 => pre_pass_thru_user = BitSent(mbyte, 6)

AddressInv ==
  InByte /\ state = "ADDRESS" => addr % 2^count = mbyte \div 2^(8 - count)

DataInv ==
  InByte /\ state = "DATA" => predata % 2^count = mbyte \div 2^(8 - count)

\* The write strobe is up for the last bit of a byte to be written, and lasts
\* until the falling edge after it.
StrobeInv ==
  /\ SCK = 0 => (wrstb = 1 <=> state = "DATA" /\ count = 7 /\ writemode = 1)
  /\ SCK = 1 /\ count # 0 => wrstb = 0

\* The register is shifted out of ldata and into the master.
ReadOutInv ==
  InByte /\ state = "DATA" /\ readmode = 1 =>
    /\ sdoenb = 0
    /\ SCK = 0 => ldata = (Peek(addr) * 2^count) % 256
    /\ SCK = 1 => ldata = (Peek(addr) * 2^(count - 1)) % 256
    /\ rbyte % 2^count = Peek(addr) \div 2^(8 - count)

ByteInv ==
  /\ FrontTypeOK /\ CountsAgree /\ RoleOK
  /\ CommandInv /\ AddressInv /\ DataInv /\ StrobeInv /\ ReadOutInv

LEMMA PeekTyped ==
  ASSUME FrontTypeOK, NEW a
  PROVE  Peek(a) \in Byte
  BY DEF FrontTypeOK, Peek, Byte

LEMMA RolesAreBytes ==
  /\ Commands \subseteq Byte /\ Addresses \subseteq Byte /\ DataBytes \subseteq Byte
  BY BytesAssumption

LEMMA NextByteIs ==
  /\ state = "COMMAND" => NextByte = Commands
  /\ state = "ADDRESS" => NextByte = Addresses
  /\ state \notin {"COMMAND", "ADDRESS"} => NextByte = DataBytes
  BY DEF NextByte

LEMMA ByteInvInit ==
  ASSUME FrontInit PROVE ByteInv
<1>1. /\ state = "COMMAND" /\ count = 0 /\ CSB = 1 /\ SCK = 0 /\ wrstb = 0 /\ mbit = 0
  BY DEF FrontInit, SpiInit
<1>2. FrontTypeOK
  BY DEF FrontInit, SpiInit, FrontTypeOK, SpiStates, Bit, Byte
<1>3. CountsAgree /\ RoleOK /\ CommandInv /\ AddressInv /\ DataInv /\ StrobeInv /\ ReadOutInv
  BY <1>1 DEF CountsAgree, RoleOK, CommandInv, AddressInv, DataInv, StrobeInv, ReadOutInv, InByte
<1> QED
  BY <1>2, <1>3 DEF ByteInv

LEMMA ByteCsbFall ==
  ASSUME ByteInv, CsbFall PROVE ByteInv'
<1>1. /\ state = "COMMAND" /\ count = 0 /\ mbit = 0 /\ wrstb = 0 /\ SCK = 0
      /\ CSB' = 0 /\ mbit' = 0 /\ mbyte' \in Commands /\ mbyte' \in Byte
      /\ UNCHANGED << state, count, writemode, readmode, fixed, addr, predata, wrstb, ldata, sdoenb,
                      pre_pass_thru_mgmt, pre_pass_thru_user, pass_thru_mgmt_delay, SCK, rbyte, mem >>
  BY RolesAreBytes DEF CsbFall, ByteInv, CountsAgree, spiVars, riseVars, fallVars, passVars
<1>2. FrontTypeOK'
  BY <1>1 DEF ByteInv, FrontTypeOK, Bit
<1>3. CountsAgree' /\ RoleOK' /\ CommandInv' /\ AddressInv' /\ DataInv' /\ StrobeInv' /\ ReadOutInv'
  BY <1>1 DEF CountsAgree, RoleOK, CommandInv, AddressInv, DataInv, StrobeInv, ReadOutInv, InByte
<1> QED
  BY <1>2, <1>3 DEF ByteInv

LEMMA ByteCsbRise ==
  ASSUME ByteInv, CsbRise PROVE ByteInv'
<1>1. /\ state' = "COMMAND" /\ count' = 0 /\ CSB' = 1 /\ wrstb' = 0 /\ mbit' = 0
      /\ SCK' = SCK
  BY DEF CsbRise, CsbReset
<1>2. FrontTypeOK'
  BY DEF CsbRise, CsbReset, ByteInv, FrontTypeOK, SpiStates, Bit, Byte
<1>3. CountsAgree' /\ RoleOK' /\ CommandInv' /\ AddressInv' /\ DataInv' /\ StrobeInv' /\ ReadOutInv'
  BY <1>1 DEF CountsAgree, RoleOK, CommandInv, AddressInv, DataInv, StrobeInv, ReadOutInv, InByte
<1> QED
  BY <1>2, <1>3 DEF ByteInv

LEMMA ByteSckFall ==
  ASSUME ByteInv, SckFall PROVE ByteInv'
<1>1. /\ SCK = 1 /\ SCK' = 0 /\ CSB' = CSB /\ CSB \in Bit
      /\ UNCHANGED << riseVars, rbyte, mem >>
  BY DEF SckFall, NegedgeSck, spiVars, ByteInv, FrontTypeOK
<1>2. /\ UNCHANGED << state, count, writemode, readmode, fixed, addr, predata,
                      pre_pass_thru_mgmt, pre_pass_thru_user, pass_thru_mgmt_delay, rbyte, mem >>
      /\ Receiving' = Receiving /\ Peek(addr)' = Peek(addr)
  BY <1>1 DEF riseVars, passVars, Receiving, Peek
<1>3. CASE CSB = 1
  <2>1. UNCHANGED << wrstb, ldata, sdoenb, mbit, mbyte >>
        /\ state = "COMMAND" /\ count = 0 /\ mbit = 0 /\ wrstb = 0
    BY <1>3 DEF SckFall, spiVars, fallVars, ByteInv, CountsAgree
  <2>2. FrontTypeOK'
    BY <1>1, <1>2, <2>1 DEF ByteInv, FrontTypeOK, Bit
  <2> QED
    BY <1>1, <1>2, <1>3, <2>1, <2>2
       DEF ByteInv, CountsAgree, RoleOK, CommandInv, AddressInv, DataInv, StrobeInv, ReadOutInv, InByte
<1>4. CASE CSB = 0
  <2>1. /\ mbit' = (mbit + 1) % 8
        /\ mbit = 7 => mbyte' \in NextByte
        /\ mbit # 7 => mbyte' = mbyte
        /\ NegedgeSck(Peek(oaddr(SDI)))
    BY <1>4 DEF SckFall
  <2>2. mbyte' \in Byte /\ mbit' \in 0 .. 7 /\ mbyte \in Byte /\ mbit \in 0 .. 7
        /\ count \in 0 .. 7 /\ addr \in Byte /\ predata \in 0 .. 127 /\ rbyte \in Byte
    BY <2>1, NextByteIs, RolesAreBytes DEF ByteInv, FrontTypeOK
  <2>3. Peek(addr) \in Byte /\ Peek(oaddr(SDI)) \in Byte
    BY PeekTyped DEF ByteInv
  <2>4. FrontTypeOK'
    <3>1. wrstb' \in Bit /\ sdoenb' \in Bit /\ ldata' \in Byte
      BY <2>1, <2>3 DEF NegedgeSck, ByteInv, FrontTypeOK, Bit, Byte
    <3> QED
      BY <1>1, <1>2, <2>2, <3>1 DEF ByteInv, FrontTypeOK, Bit
  <2>5. Receiving => count' = mbit' /\ (count = 0 <=> mbit = 7)
    BY <1>1, <1>2, <1>4, <2>1, <2>2 DEF ByteInv, CountsAgree
  <2>6. CountsAgree'
    BY <1>1, <1>2, <1>4, <2>5 DEF CountsAgree
  \* Unless it is the first one, the bit is one more of the same byte.
  <2>7. Receiving /\ count # 0 => InByte /\ mbyte' = mbyte
    BY <1>4, <2>1, <2>5 DEF InByte
  <2>8. RoleOK'
    <3> SUFFICES ASSUME Receiving
                 PROVE  /\ state = "COMMAND" => mbyte' \in Commands
                        /\ state = "ADDRESS" => mbyte' \in Addresses
                        /\ state = "DATA" => mbyte' \in DataBytes
      BY <1>2 DEF RoleOK, InByte
    <3>1. CASE count = 0
      BY <2>1, <2>5, <3>1, NextByteIs
    <3>2. CASE count # 0
      BY <2>7, <3>2 DEF ByteInv, RoleOK
    <3> QED
      BY <3>1, <3>2
  <2>9. CommandInv'
    <3> SUFFICES ASSUME state = "COMMAND", count # 0 PROVE CommandInv'
      BY <1>2, <2>2 DEF CommandInv
    <3>1. mbyte' = mbyte
      BY <2>7 DEF Receiving
    <3> QED
      BY <1>1, <1>2, <3>1 DEF ByteInv, CommandInv
  <2>10. AddressInv' /\ DataInv'
    <3>1. CASE count = 0
      BY <1>2, <2>2, <3>1, NoBits DEF AddressInv, DataInv, Byte
    <3>2. CASE count # 0
      BY <1>2, <2>7, <3>2 DEF ByteInv, AddressInv, DataInv, InByte, Receiving
    <3> QED
      BY <3>1, <3>2
  <2>11. StrobeInv'
    BY <1>1, <1>2, <2>1 DEF NegedgeSck, ByteInv, StrobeInv, FrontTypeOK, Bit
  <2>12. ReadOutInv'
    <3> SUFFICES ASSUME state = "DATA", readmode = 1
                 PROVE  /\ sdoenb' = 0
                        /\ ldata' = (Peek(addr) * 2^count) % 256
                        /\ rbyte % 2^count = Peek(addr) \div 2^(8 - count)
      BY <1>1, <1>2 DEF ReadOutInv, InByte
    <3>1. /\ sdoenb' = 0
          /\ ldata' = IF count = 0 THEN Peek(addr) ELSE (2 * ldata) % 256
      BY <2>1 DEF NegedgeSck, oaddr
    <3>2. CASE count = 0
      BY <2>2, <2>3, <3>1, <3>2, NoBits
    <3>3. CASE count # 0
      <4>1. /\ ldata = (Peek(addr) * 2^(count - 1)) % 256
            /\ rbyte % 2^count = Peek(addr) \div 2^(8 - count)
        BY <1>1, <2>7, <3>3 DEF ByteInv, ReadOutInv, Receiving
      <4>2. PICK n \in 0 .. 7 : n = count - 1 /\ n + 1 = count
        BY <2>2, <3>3
      <4>3. (2 * ((Peek(addr) * 2^n) % 256)) % 256 = (Peek(addr) * 2^(n + 1)) % 256
        BY <2>3, ShiftOut
      <4> QED
        BY <3>1, <3>3, <4>1, <4>2, <4>3
    <3> QED
      BY <3>2, <3>3
  <2> QED
    BY <2>4, <2>6, <2>8, <2>9, <2>10, <2>11, <2>12 DEF ByteInv
<1> QED
  BY <1>1, <1>3, <1>4 DEF Bit

\* What a rising edge finds: the master and the slave at the same bit, no write
\* strobe but for the last bit of a byte to be written.
LEMMA BeforeRise ==
  ASSUME ByteInv, SckRise
  PROVE  /\ CSB = 0 /\ SCK = 0 /\ SCK' = 1 /\ CSB' = 0
         /\ UNCHANGED << wrstb, ldata, sdoenb, mbyte, mbit >>
         /\ Receiving => InByte /\ mbit = count /\ SDI = BitSent(mbyte, count)
         /\ SDI = BitSent(mbyte, mbit) /\ SDI \in Bit
         /\ count \in 0 .. 7 /\ mbyte \in Byte
         /\ rbyte' = (2 * rbyte + SDO) % 256 /\ rbyte' \in Byte
<1>1. /\ CSB = 0 /\ SCK = 0 /\ SCK' = 1 /\ CSB' = 0
      /\ UNCHANGED << wrstb, ldata, sdoenb, mbyte, mbit >>
      /\ rbyte' = (2 * rbyte + SDO) % 256
  BY DEF SckRise, PosedgeSck, fallVars
<1>2. mbit \in 0 .. 7 /\ count \in 0 .. 7 /\ mbyte \in Byte
  BY DEF ByteInv, FrontTypeOK
<1>3. Receiving => InByte /\ mbit = count
  BY <1>1 DEF InByte, ByteInv, CountsAgree
<1>4. SDI = BitSent(mbyte, mbit)
  BY DEF SDI, BitSent
<1>5. SDI \in Bit
  BY <1>2, <1>4, BitIsABit
<1>6. rbyte' \in Byte
  BY <1>1 DEF ByteInv, FrontTypeOK, Byte, SDO
<1> QED
  BY <1>1, <1>2, <1>3, <1>4, <1>5, <1>6

\* The parts of the invariant that a rising edge treats alike in every state.
LEMMA RiseCommon ==
  ASSUME ByteInv, SckRise,
         state' \in SpiStates, count' \in 0 .. 7,
         writemode' \in Bit, readmode' \in Bit, fixed' \in 0 .. 7,
         addr' \in Byte, predata' \in 0 .. 127,
         pre_pass_thru_mgmt' \in Bit, pre_pass_thru_user' \in Bit, pass_thru_mgmt_delay' \in Bit,
         Receiving' => Receiving /\ count' = (count + 1) % 8 /\ (count # 7 => state' = state),
         state = "DATA" => Receiving'
  PROVE  FrontTypeOK' /\ CountsAgree' /\ RoleOK' /\ StrobeInv'
<1>1. /\ CSB = 0 /\ SCK = 0 /\ SCK' = 1 /\ CSB' = 0
      /\ UNCHANGED << wrstb, ldata, sdoenb, mbyte, mbit >>
      /\ Receiving => InByte /\ mbit = count
      /\ count \in 0 .. 7 /\ mbyte \in Byte /\ rbyte' \in Byte
  BY BeforeRise
<1>2. mem' \in [RegAddrs -> Byte]
  <2>1. wrstb = 1 => oaddr(SDI) = addr /\ odata(SDI) \in Byte
    <3> SUFFICES ASSUME wrstb = 1 PROVE oaddr(SDI) = addr /\ odata(SDI) \in Byte
      OBVIOUS
    <3>1. state = "DATA"
      BY <1>1 DEF ByteInv, StrobeInv
    <3>2. SDI \in Bit /\ predata \in 0 .. 127
      BY BeforeRise DEF ByteInv, FrontTypeOK
    <3> QED
      BY <3>1, <3>2 DEF oaddr, odata, Bit, Byte
  <2>2. mem' = IF wrstb = 1 /\ oaddr(SDI) \in RegAddrs
               THEN [mem EXCEPT ![oaddr(SDI)] = odata(SDI)] ELSE mem
    BY DEF SckRise
  <2> QED
    BY <2>1, <2>2 DEF ByteInv, FrontTypeOK
<1>3. FrontTypeOK'
  BY <1>1, <1>2 DEF ByteInv, FrontTypeOK, Bit
<1>4. CountsAgree'
  BY <1>1 DEF CountsAgree
<1>5. RoleOK'
  <2> SUFFICES ASSUME Receiving', count' # 0
               PROVE  /\ state' = "COMMAND" => mbyte' \in Commands
                      /\ state' = "ADDRESS" => mbyte' \in Addresses
                      /\ state' = "DATA" => mbyte' \in DataBytes
    BY <1>1 DEF RoleOK, InByte
  <2>1. count # 7
    BY <1>1
  <2> QED
    BY <1>1, <2>1 DEF ByteInv, RoleOK
<1>6. StrobeInv'
  <2>1. wrstb = 1 => state = "DATA" /\ count = 7
    BY <1>1 DEF ByteInv, StrobeInv
  <2>2. wrstb = 1 => count' = 0
    BY <2>1
  <2> QED
    BY <1>1, <2>2 DEF StrobeInv, Bit, FrontTypeOK, ByteInv
<1> QED
  BY <1>3, <1>4, <1>5, <1>6

LEMMA ByteCommandBit ==
  ASSUME ByteInv, SckRise, CommandBit(SDI) PROVE ByteInv'
<1>1. /\ CSB = 0 /\ SCK = 0 /\ SCK' = 1 /\ CSB' = 0
      /\ UNCHANGED << mbyte, mbit >>
      /\ SDI = BitSent(mbyte, count) /\ SDI \in Bit
      /\ count \in 0 .. 7 /\ mbyte \in Byte /\ Receiving /\ state = "COMMAND"
  BY BeforeRise DEF CommandBit, Receiving
<1>2. FrontTypeOK' /\ CountsAgree' /\ RoleOK' /\ StrobeInv'
  <2>1. /\ state' \in SpiStates /\ count' \in 0 .. 7
        /\ count' = (count + 1) % 8 /\ (count # 7 => state' = state)
    BY <1>1 DEF CommandBit, SpiStates
  <2>2. /\ writemode' \in Bit /\ readmode' \in Bit /\ fixed' \in 0 .. 7
        /\ addr' \in Byte /\ predata' \in 0 .. 127
        /\ pre_pass_thru_mgmt' \in Bit /\ pre_pass_thru_user' \in Bit /\ pass_thru_mgmt_delay' \in Bit
    BY <1>1 DEF CommandBit, ByteInv, FrontTypeOK, Bit, Byte
  <2>3. state # "DATA"
    BY <1>1
  <2> QED
    BY <1>1, <2>1, <2>2, <2>3, RiseCommon
<1>3. CommandInv'
  <2> SUFFICES ASSUME count # 7 PROVE CommandInv'
    <3>1. count = 7 => state' # "COMMAND"
      BY DEF CommandBit
    <3> QED
      BY <3>1 DEF CommandInv
  <2>1. count' = count + 1 /\ count \in 0 .. 6
    BY <1>1 DEF CommandBit
  <2> DEFINE b == mbyte
  <2>2. /\ count >= 1 => writemode = BitSent(b, 0)
        /\ count >= 2 => readmode = BitSent(b, 1)
        /\ count = 3 => fixed % 2 = BitSent(b, 2)
        /\ count = 4 => fixed % 4 = 2 * BitSent(b, 2) + BitSent(b, 3)
        /\ count >= 5 => fixed = (b \div 8) % 8
        /\ count >= 6 => pre_pass_thru_mgmt = BitSent(b, 5)
        /\ count = 7 => pre_pass_thru_user = BitSent(b, 6)
    BY <1>1 DEF ByteInv, CommandInv
  <2>3. /\ count' >= 1 => writemode' = BitSent(b, 0)
        /\ count' >= 2 => readmode' = BitSent(b, 1)
    BY <1>1, <2>1, <2>2 DEF CommandBit
  <2>4. /\ count' >= 6 => pre_pass_thru_mgmt' = BitSent(b, 5)
        /\ count' = 7 => pre_pass_thru_user' = BitSent(b, 6)
    BY <1>1, <2>1, <2>2 DEF CommandBit
  <2>5. fixed \in 0 .. 7 /\ fixed' = IF count \in 2 .. 4 THEN (2 * fixed + SDI) % 8 ELSE fixed
    BY DEF CommandBit, ByteInv, FrontTypeOK
  <2>6. count' = 3 => fixed' % 2 = BitSent(b, 2)
    BY <1>1, <2>1, <2>5 DEF Bit
  <2>7. count' = 4 => fixed' % 4 = 2 * BitSent(b, 2) + BitSent(b, 3)
    <3> SUFFICES ASSUME count = 3 PROVE fixed' % 4 = 2 * BitSent(b, 2) + BitSent(b, 3)
      BY <2>1
    <3>1. fixed % 2 = BitSent(b, 2) /\ SDI = BitSent(b, 3)
          /\ fixed' = (2 * fixed + SDI) % 8
      BY <1>1, <2>2, <2>5
    <3> QED
      BY <1>1, <2>5, <3>1 DEF Bit
  <2>8. count' >= 5 => fixed' = (b \div 8) % 8
    <3>1. CASE count = 4
      <4>1. fixed % 4 = 2 * BitSent(b, 2) + BitSent(b, 3) /\ SDI = BitSent(b, 4)
            /\ fixed' = (2 * fixed + SDI) % 8
        BY <1>1, <2>2, <2>5, <3>1
      <4>2. 4 * BitSent(b, 2) + 2 * BitSent(b, 3) + BitSent(b, 4) = (b \div 8) % 8
        BY <1>1, Powers DEF BitSent, Byte
      <4>3. (2 * fixed + SDI) % 8 = 2 * (fixed % 4) + SDI
        BY <1>1, <2>5 DEF Bit
      <4>4. BitSent(b, 2) \in Bit /\ BitSent(b, 3) \in Bit /\ BitSent(b, 4) \in Bit
        BY <1>1, BitIsABit
      <4> HIDE DEF b
      <4> QED
        BY <4>1, <4>2, <4>3, <4>4 DEF Bit
    <3>2. CASE count # 4
      BY <2>1, <2>2, <2>5, <3>2
    <3> QED
      BY <3>1, <3>2
  <2>9. b' = b
    BY <1>1
  <2> QED
    BY <2>3, <2>4, <2>6, <2>7, <2>8, <2>9 DEF CommandInv
<1>4. AddressInv' /\ DataInv' /\ ReadOutInv'
  <2>1. state' \notin {"ADDRESS", "DATA"} \/ count' = 0
    BY DEF CommandBit
  <2> QED
    BY <1>1, <2>1 DEF AddressInv, DataInv, ReadOutInv, InByte
<1> QED
  BY <1>2, <1>3, <1>4 DEF ByteInv

LEMMA ByteAddressBit ==
  ASSUME ByteInv, SckRise, AddressBit(SDI) PROVE ByteInv'
<1>1. /\ CSB = 0 /\ SCK = 0 /\ SCK' = 1 /\ CSB' = 0
      /\ UNCHANGED << mbyte, mbit >>
      /\ SDI = BitSent(mbyte, count)
      /\ count \in 0 .. 7 /\ mbyte \in Byte /\ Receiving /\ InByte /\ state = "ADDRESS"
  BY BeforeRise DEF AddressBit, Receiving
<1>2. /\ addr' = (2 * addr + SDI) % 256 /\ count' = (count + 1) % 8
      /\ state' = IF count = 7 THEN "DATA" ELSE "ADDRESS"
      /\ UNCHANGED << writemode, readmode, fixed, predata, passVars >>
  BY DEF AddressBit
<1>3. addr \in Byte /\ addr % 2^count = mbyte \div 2^(8 - count)
  BY <1>1 DEF ByteInv, AddressInv, FrontTypeOK
<1>4. addr' \in Byte /\ addr' % 2^(count + 1) = mbyte \div 2^(7 - count)
  BY <1>1, <1>2, <1>3, ShiftIn
<1>5. FrontTypeOK' /\ CountsAgree' /\ RoleOK' /\ StrobeInv'
  <2>1. /\ state' \in SpiStates /\ count' \in 0 .. 7 /\ Receiving'
        /\ (count # 7 => state' = state)
    BY <1>1, <1>2 DEF SpiStates, Receiving
  <2>2. /\ writemode' \in Bit /\ readmode' \in Bit /\ fixed' \in 0 .. 7 /\ predata' \in 0 .. 127
        /\ pre_pass_thru_mgmt' \in Bit /\ pre_pass_thru_user' \in Bit /\ pass_thru_mgmt_delay' \in Bit
    BY <1>2 DEF ByteInv, FrontTypeOK, passVars
  <2>3. state # "DATA"
    BY <1>1
  <2> QED
    BY <1>1, <1>2, <1>4, <2>1, <2>2, <2>3, RiseCommon
<1>6. AddressInv'
  <2> SUFFICES ASSUME count # 7 PROVE AddressInv'
    BY <1>2 DEF AddressInv
  <2>1. PICK n \in 0 .. 6 : n = count
    BY <1>1
  <2>2. count' = n + 1 /\ 8 - count' = 7 - n /\ mbyte' = mbyte
    BY <1>1, <1>2, <2>1
  <2>3. addr' % 2^(n + 1) = mbyte \div 2^(7 - n)
    BY <1>4, <2>1
  <2> QED
    BY <2>2, <2>3 DEF AddressInv
<1>7. CommandInv' /\ DataInv' /\ ReadOutInv'
  <2>1. state' # "COMMAND" /\ (state' = "DATA" => count' = 0)
    BY <1>1, <1>2
  <2> QED
    BY <1>1, <2>1 DEF CommandInv, DataInv, ReadOutInv, InByte
<1> QED
  BY <1>5, <1>6, <1>7 DEF ByteInv

LEMMA ByteDataBit ==
  ASSUME ByteInv, SckRise, DataBit(SDI) PROVE ByteInv'
<1>1. /\ CSB = 0 /\ SCK = 0 /\ SCK' = 1 /\ CSB' = 0
      /\ UNCHANGED << wrstb, ldata, sdoenb, mbyte, mbit >>
      /\ SDI = BitSent(mbyte, count)
      /\ count \in 0 .. 7 /\ mbyte \in Byte /\ Receiving /\ InByte /\ state = "DATA"
      /\ rbyte' = (2 * rbyte + SDO) % 256
  BY BeforeRise DEF DataBit, Receiving
<1>2. /\ predata' = (2 * predata + SDI) % 128 /\ count' = (count + 1) % 8
      /\ state' = IF count = 7 /\ fixed = 1 THEN "COMMAND" ELSE "DATA"
      /\ fixed' = IF count = 7 /\ fixed \notin {0, 1} THEN fixed - 1 ELSE fixed
      /\ addr' = IF count = 7 /\ fixed # 1 THEN (addr + 1) % 256 ELSE addr
      /\ UNCHANGED << writemode, readmode, passVars >>
  BY DEF DataBit
<1>3. predata \in 0 .. 127 /\ predata % 2^count = mbyte \div 2^(8 - count)
  BY <1>1 DEF ByteInv, DataInv, FrontTypeOK
<1>4. /\ predata' \in 0 .. 127
      /\ count < 7 => predata' % 2^(count + 1) = mbyte \div 2^(7 - count)
  BY <1>1, <1>2, <1>3, ShiftInData
<1>5. FrontTypeOK' /\ CountsAgree' /\ RoleOK' /\ StrobeInv'
  <2>1. /\ state' \in SpiStates /\ count' \in 0 .. 7 /\ Receiving'
        /\ (count # 7 => state' = state)
    BY <1>1, <1>2 DEF SpiStates, Receiving
  <2>2. /\ writemode' \in Bit /\ readmode' \in Bit /\ fixed' \in 0 .. 7 /\ addr' \in Byte
        /\ pre_pass_thru_mgmt' \in Bit /\ pre_pass_thru_user' \in Bit /\ pass_thru_mgmt_delay' \in Bit
    BY <1>2 DEF ByteInv, FrontTypeOK, passVars, Byte
  <2> QED
    BY <1>1, <1>2, <1>4, <2>1, <2>2, RiseCommon
<1>6. CASE count = 7
  <2>1. count' = 0 /\ SCK' = 1 /\ state' \in {"COMMAND", "DATA"} /\ ~InByte'
    BY <1>1, <1>2, <1>6 DEF InByte
  <2>2. CommandInv'
    BY <2>1 DEF CommandInv
  <2>3. AddressInv' /\ DataInv' /\ ReadOutInv'
    BY <2>1 DEF AddressInv, DataInv, ReadOutInv
  <2> QED
    BY <1>5, <2>2, <2>3 DEF ByteInv
<1>7. CASE count # 7
  <2>1. PICK n \in 0 .. 7 : n = count /\ n < 7
    BY <1>1, <1>7
  <2>2. /\ count' = n + 1 /\ 8 - count' = 7 - n /\ count' - 1 = n
        /\ state' = "DATA" /\ addr' = addr /\ mbyte' = mbyte
    BY <1>1, <1>2, <2>1
  <2>3. DataInv'
    BY <1>4, <2>1, <2>2 DEF DataInv
  <2>4. Peek(addr)' = Peek(addr)
    <3>1. wrstb # 1
      BY <1>1, <1>7 DEF ByteInv, StrobeInv
    <3>2. mem' = mem
      BY <3>1 DEF SckRise
    <3> QED
      BY <2>2, <3>2 DEF Peek
  <2>5. ReadOutInv'
    <3> SUFFICES ASSUME readmode = 1 PROVE ReadOutInv'
      BY <1>2 DEF ReadOutInv
    <3>1. PICK d \in Byte : d = Peek(addr)
      BY PeekTyped DEF ByteInv
    <3>2. /\ sdoenb = 0 /\ ldata = (d * 2^n) % 256
          /\ rbyte % 2^n = d \div 2^(8 - n) /\ rbyte \in Byte
      BY <1>1, <2>1, <3>1 DEF ByteInv, ReadOutInv, FrontTypeOK
    <3>3. SDO = BitSent(d, n)
      BY <3>2, ShiftOut DEF SDO
    <3>4. ((2 * rbyte + BitSent(d, n)) % 256) % 2^(n + 1) = d \div 2^(7 - n)
      BY <3>2, ShiftIn
    <3>5. rbyte' % 2^(n + 1) = d \div 2^(7 - n)
      BY <1>1, <3>3, <3>4
    <3>6. sdoenb' = 0 /\ ldata' = (Peek(addr)' * 2^(count' - 1)) % 256
      BY <1>1, <2>2, <2>4, <3>1, <3>2
    <3>7. rbyte' % 2^count' = Peek(addr)' \div 2^(8 - count')
      BY <2>2, <2>4, <3>1, <3>5
    <3>8. SCK' = 1
      BY <1>1
    <3> QED
      BY <3>6, <3>7, <3>8 DEF ReadOutInv
  <2>6. CommandInv' /\ AddressInv'
    BY <2>2 DEF CommandInv, AddressInv
  <2> QED
    BY <1>5, <2>3, <2>5, <2>6 DEF ByteInv
<1> QED
  BY <1>6, <1>7

LEMMA BytePassBit ==
  ASSUME ByteInv, SckRise, PassBit PROVE ByteInv'
<1>1. /\ SCK' = 1 /\ CSB' = 0 /\ ~Receiving /\ ~Receiving' /\ state' = state
      /\ UNCHANGED << count, writemode, readmode, fixed, addr, predata,
                      pre_pass_thru_mgmt, pre_pass_thru_user, pass_thru_mgmt_delay >>
  BY BeforeRise DEF PassBit, Receiving
<1>2. FrontTypeOK' /\ CountsAgree' /\ RoleOK' /\ StrobeInv'
  <2>1. state # "DATA"
    BY <1>1 DEF Receiving
  <2> QED
    BY <1>1, <2>1, RiseCommon DEF ByteInv, FrontTypeOK
<1> QED
  BY <1>1, <1>2 DEF ByteInv, CommandInv, AddressInv, DataInv, ReadOutInv, InByte, Receiving

LEMMA ByteStep ==
  ASSUME ByteInv, [FrontNext]_frontVars PROVE ByteInv'
<1>1. CASE SckRise
  BY <1>1, ByteCommandBit, ByteAddressBit, ByteDataBit, BytePassBit DEF SckRise, PosedgeSck
<1>2. CASE UNCHANGED frontVars
  <2>1. UNCHANGED << state, count, writemode, readmode, fixed, addr, predata, wrstb, ldata, sdoenb,
                     pre_pass_thru_mgmt, pre_pass_thru_user, pass_thru_mgmt_delay, SCK, CSB, mbyte, mbit, rbyte, mem >>
    BY <1>2 DEF frontVars, spiVars, riseVars, fallVars, passVars, masterVars
  <2> QED
    BY <2>1 DEF ByteInv, FrontTypeOK, CountsAgree, RoleOK, CommandInv, AddressInv, DataInv,
                StrobeInv, ReadOutInv, InByte, Receiving, Peek
<1> QED
  BY <1>1, <1>2, ByteCsbFall, ByteCsbRise, ByteSckFall DEF FrontNext

-----------------------------------------------------------------------------
(* The bit-serial slave implements the command table. *)

\* In the middle of a byte nothing happens to what SpiBytes speaks of.
LEMMA Stutters ==
  ASSUME UNCHANGED << state, mem, got >>,
         state # "COMMAND" => UNCHANGED << writemode, readmode, fixed >>,
         state = "DATA" => addr' = addr
  PROVE  UNCHANGED Bytes!bytesVars
  BY DEF Bytes!bytesVars

\* Registers are written, and read data is complete, with the last bit of a
\* data byte only.
LEMMA NoRegister ==
  ASSUME ByteInv, SckRise, ~(state = "DATA" /\ count = 7)
  PROVE  mem' = mem /\ got' = got
<1>1. SCK = 0 /\ (Receiving => mbit = count)
  BY BeforeRise
<1>2. wrstb # 1
  BY <1>1 DEF ByteInv, StrobeInv
<1> QED
  BY <1>1, <1>2 DEF SckRise, Receiving

LEMMA ImplementsCommand ==
  ASSUME ByteInv, SckRise, CommandBit(SDI)
  PROVE  [Bytes!BytesNext]_Bytes!bytesVars
<1>1. /\ CSB = 0 /\ state = "COMMAND" /\ InByte /\ SDI = BitSent(mbyte, count)
      /\ count \in 0 .. 7 /\ mbyte \in Byte
  BY BeforeRise DEF CommandBit, Receiving
<1>2. mem' = mem /\ got' = got
  BY <1>1, NoRegister
<1>3. CASE count # 7
  <2>1. state' = state
    BY <1>1, <1>3 DEF CommandBit
  <2> QED
    BY <1>1, <1>2, <2>1, Stutters
<1>4. CASE count = 7
  <2>1. mbyte \in Commands
    BY <1>1 DEF ByteInv, RoleOK
  <2>2. /\ writemode' = BitSent(mbyte, 0) /\ readmode' = BitSent(mbyte, 1)
        /\ fixed' = (mbyte \div 8) % 8
        /\ pre_pass_thru_mgmt = BitSent(mbyte, 5) /\ pre_pass_thru_user = BitSent(mbyte, 6)
    BY <1>1, <1>4 DEF CommandBit, ByteInv, CommandInv
  <2>3. /\ BitSent(mbyte, 0) = Bytes!BitOf(mbyte, 7) /\ BitSent(mbyte, 1) = Bytes!BitOf(mbyte, 6)
        /\ BitSent(mbyte, 5) = Bytes!BitOf(mbyte, 2) /\ BitSent(mbyte, 6) = Bytes!BitOf(mbyte, 1)
    BY DEF BitSent, Bytes!BitOf
  <2>4. state' = IF pre_pass_thru_mgmt = 1 THEN "MGMTPASS"
                 ELSE IF pre_pass_thru_user = 1 THEN "USERPASS" ELSE "ADDRESS"
    BY <1>4 DEF CommandBit
  <2>5. Bytes!Command(mbyte)
    BY <1>1, <1>2, <2>2, <2>3, <2>4 DEF Bytes!Command
  <2> QED
    BY <2>1, <2>5 DEF Bytes!BytesNext
<1> QED
  BY <1>3, <1>4

LEMMA ImplementsAddress ==
  ASSUME ByteInv, SckRise, AddressBit(SDI)
  PROVE  [Bytes!BytesNext]_Bytes!bytesVars
<1>1. /\ state = "ADDRESS" /\ InByte /\ SDI = BitSent(mbyte, count)
      /\ count \in 0 .. 7 /\ mbyte \in Byte
      /\ UNCHANGED << writemode, readmode, fixed >>
  BY BeforeRise DEF AddressBit, Receiving
<1>2. mem' = mem /\ got' = got
  BY <1>1, NoRegister
<1>3. CASE count # 7
  <2>1. state' = state
    BY <1>1, <1>3 DEF AddressBit
  <2> QED
    BY <1>1, <1>2, <2>1, Stutters
<1>4. CASE count = 7
  <2>1. mbyte \in Addresses
    BY <1>1 DEF ByteInv, RoleOK
  <2>2. addr' = mbyte
    <3>1. addr' = (2 * addr + SDI) % 256 /\ addr \in Byte
          /\ addr % 2^count = mbyte \div 2^(8 - count)
      BY <1>1 DEF AddressBit, ByteInv, AddressInv, FrontTypeOK
    <3> QED
      BY <1>1, <1>4, <3>1, ShiftIn
  <2>3. state' = "DATA"
    BY <1>4 DEF AddressBit
  <2>4. Bytes!Address(mbyte)
    BY <1>1, <1>2, <2>2, <2>3 DEF Bytes!Address
  <2> QED
    BY <2>1, <2>4 DEF Bytes!BytesNext
<1> QED
  BY <1>3, <1>4

LEMMA ImplementsData ==
  ASSUME ByteInv, SckRise, DataBit(SDI)
  PROVE  [Bytes!BytesNext]_Bytes!bytesVars
<1>1. /\ state = "DATA" /\ SCK = 0 /\ InByte /\ mbit = count /\ SDI = BitSent(mbyte, count)
      /\ count \in 0 .. 7 /\ mbyte \in Byte
      /\ UNCHANGED << writemode, readmode >>
      /\ rbyte' = (2 * rbyte + SDO) % 256
  BY BeforeRise DEF DataBit, Receiving
<1>2. CASE count # 7
  <2>1. mem' = mem /\ got' = got
    BY <1>2, NoRegister
  <2>2. state' = state /\ fixed' = fixed /\ addr' = addr
    BY <1>1, <1>2 DEF DataBit
  <2> QED
    BY <1>1, <2>1, <2>2, Stutters
<1>3. CASE count = 7
  <2>1. mbyte \in DataBytes
    BY <1>1 DEF ByteInv, RoleOK
  <2>2. odata(SDI) = mbyte /\ oaddr(SDI) = addr
    <3>1. predata \in 0 .. 127 /\ predata % 2^count = mbyte \div 2^(8 - count)
      BY <1>1 DEF ByteInv, DataInv, FrontTypeOK
    <3> QED
      BY <1>1, <1>3, <3>1, ShiftInData DEF odata, oaddr
  <2>3. mem' = IF writemode = 1 /\ addr \in RegAddrs THEN [mem EXCEPT ![addr] = mbyte] ELSE mem
    <3>1. wrstb = 1 <=> writemode = 1
      BY <1>1, <1>3 DEF ByteInv, StrobeInv
    <3> QED
      BY <2>2, <3>1 DEF SckRise
  <2>4. got' = IF readmode = 1 THEN Peek(addr) ELSE got
    <3>1. CASE readmode = 1
      <4>1. PICK d \in Byte : d = Peek(addr)
        BY PeekTyped DEF ByteInv
      <4>2. /\ sdoenb = 0 /\ ldata = (d * 2^count) % 256
            /\ rbyte % 2^count = d \div 2^(8 - count) /\ rbyte \in Byte
        BY <1>1, <3>1, <4>1 DEF ByteInv, ReadOutInv, FrontTypeOK
      <4>3. SDO = BitSent(d, count)
        BY <1>1, <4>2, ShiftOut DEF SDO
      <4>4. (2 * rbyte + BitSent(d, count)) % 256 = d
        BY <1>1, <1>3, <4>2, ShiftIn
      <4>5. got' = rbyte'
        BY <1>1, <1>3, <3>1, <4>2 DEF SckRise
      <4> QED
        BY <1>1, <3>1, <4>1, <4>3, <4>4, <4>5
    <3>2. CASE readmode # 1
      BY <3>2 DEF SckRise
    <3> QED
      BY <3>1, <3>2
  <2>5. /\ state' = IF fixed = 1 THEN "COMMAND" ELSE "DATA"
        /\ fixed' = IF fixed \notin {0, 1} THEN fixed - 1 ELSE fixed
        /\ addr' = IF fixed # 1 THEN (addr + 1) % 256 ELSE addr
    BY <1>3 DEF DataBit
  <2>6. Peek(addr) = Bytes!Peek(addr)
    BY DEF Peek, Bytes!Peek
  <2>7. Bytes!Data(mbyte)
    <3>1. CASE fixed = 1
      BY <1>1, <2>3, <2>4, <2>5, <2>6, <3>1 DEF Bytes!Data, Bytes!Peek
    <3>2. CASE fixed # 1
      BY <1>1, <2>3, <2>4, <2>5, <2>6, <3>2 DEF Bytes!Data, Bytes!Peek
    <3> QED
      BY <3>1, <3>2
  <2> QED
    BY <2>1, <2>7 DEF Bytes!BytesNext
<1> QED
  BY <1>2, <1>3

LEMMA BytesStep ==
  ASSUME ByteInv, [FrontNext]_frontVars
  PROVE  [Bytes!BytesNext]_Bytes!bytesVars
<1>1. CASE SckRise /\ PassBit
  <2>1. state \in {"MGMTPASS", "USERPASS"} /\ UNCHANGED << state, writemode, readmode, fixed, addr >>
    BY <1>1 DEF PassBit
  <2> QED
    BY <1>1, <2>1, NoRegister, Stutters
<1>2. CASE SckRise /\ ~PassBit
  BY <1>2, ImplementsCommand, ImplementsAddress, ImplementsData DEF SckRise, PosedgeSck
<1>3. CASE CsbRise
  <2>1. Bytes!Deselect
    BY <1>3 DEF CsbRise, CsbReset, Bytes!Deselect
  <2> QED
    BY <2>1 DEF Bytes!BytesNext
<1>4. CASE CsbFall \/ SckFall \/ UNCHANGED frontVars
  <2>1. UNCHANGED << state, writemode, readmode, fixed, addr, mem, got >>
    BY <1>4 DEF CsbFall, SckFall, NegedgeSck, frontVars, masterVars, spiVars, riseVars
  <2> QED
    BY <2>1, Stutters
<1> QED
  BY <1>1, <1>2, <1>3, <1>4 DEF FrontNext

LEMMA ByteInvariant == FrontSpec => []ByteInv
<1>1. FrontInit => ByteInv
  BY ByteInvInit
<1>2. ByteInv /\ [FrontNext]_frontVars => ByteInv'
  BY ByteStep
<1> QED
  BY <1>1, <1>2, PTL DEF FrontSpec

\* The slave does bit by bit what the command table in the header of
\* housekeeping_spi.v says of whole bytes, for every master: writes and reads
\* land at the register addressed, byte after byte, fixed-length commands end
\* where they should, and CSB drops what is unfinished.
THEOREM SlaveImplementsBytes == FrontSpec => ImplementsBytes
<1>1. FrontInit => Bytes!BytesInit
  BY DEF FrontInit, SpiInit, Bytes!BytesInit
<1>2. ByteInv /\ [FrontNext]_frontVars => [Bytes!BytesNext]_Bytes!bytesVars
  BY BytesStep
<1> QED
  BY <1>1, <1>2, ByteInvariant, PTL DEF FrontSpec, ImplementsBytes, Bytes!BytesSpec

-----------------------------------------------------------------------------
(* The flash behind the slave. *)

\* A step of the whole is a step of the front door, or none.
LEMMA PassImplementsFront == PassSpec => FrontSpec
<1>1. PassInit => FrontInit
  BY DEF PassInit
<1>2. [PassNext]_passThruVars => [FrontNext]_frontVars
  BY DEF PassNext, CoreFlash, CoreStops, SpiPins, passThruVars
<1> QED
  BY <1>1, <1>2, PTL DEF PassSpec, FrontSpec

\* The promises of the SPI slave, reset around the select of the flash and the
\* command table, hold with the flash and the core around it too.
THEOREM FrontDoorPromises ==
  PassSpec => []PassThroughInReset /\ ResetHeld /\ ImplementsBytes
  BY PassImplementsFront, PassThroughSafe, ResetIsHeld, SlaveImplementsBytes, PTL

FlashTypeOK ==
  /\ spimemio_flash_csb \in Bit /\ spimemio_flash_clk \in Bit
  /\ fcount \in 0 .. 7 /\ fbyte \in Byte

\* From the first edge of the clock the SPI pins drive, the flash has taken the
\* bits of the byte the master is sending, and no others.
FlashInv ==
  /\ FlashTypeOK
  /\ pad_flash_csb = 1 => fcount = 0
  /\ pass_thru_mgmt_delay = 1 => CoreIdle
  /\ state = "MGMTPASS" /\ SCK = 0 => sdoenb = 0
  /\ state = "MGMTPASS" /\ pass_thru_mgmt # 1 => mbit = IF SCK = 0 THEN 0 ELSE 7
  /\ pass_thru_mgmt_delay = 1 /\ pass_thru_mgmt # 1 => fcount = 0
  /\ pass_thru_mgmt = 1 =>
       /\ sdoenb = 0
       /\ SCK = 0 => fcount = mbit /\ fbyte % 2^mbit = mbyte \div 2^(8 - mbit)
       /\ SCK = 1 => fcount = (mbit + 1) % 8
                     /\ fbyte % 2^(mbit + 1) = mbyte \div 2^(7 - mbit)

\* Whoever has the flash, its select and its clock are levels.
LEMMA PadsAreBits ==
  ASSUME FlashTypeOK, FrontTypeOK
  PROVE  pad_flash_csb \in Bit /\ pad_flash_clk \in Bit
  BY DEF FlashTypeOK, FrontTypeOK, pad_flash_csb, pad_flash_clk

\* While the select is with the SPI pins CSB is low, and the core in reset.
LEMMA SelectHeld ==
  ASSUME PassInv, ByteInv
  PROVE  /\ pass_thru_mgmt_delay = 1 => CSB = 0 /\ pass_thru_mgmt_reset = 1
         /\ pass_thru_mgmt = 1 => pass_thru_mgmt_delay = 1 /\ state = "MGMTPASS" /\ CSB = 0
         /\ state = "MGMTPASS" => pass_thru_mgmt_delay = 1 /\ CSB = 0
  BY DEF PassInv, ByteInv, CountsAgree, FrontTypeOK, Bit, pass_thru_mgmt_reset

LEMMA FlashTyped ==
  ASSUME FlashTypeOK, FlashPins, SDI \in Bit
  PROVE  /\ fcount' \in 0 .. 7 /\ fbyte' \in Byte
         /\ pad_flash_csb' = 1 => fcount' = 0
<1>1. pad_flash_io0_do \in Bit
  BY DEF pad_flash_io0_do, Bit
<1> QED
  BY <1>1 DEF FlashPins, FlashTypeOK, flashVars, Bit, Byte

\* The core moves only outside of its reset, where the flash is its own.
LEMMA CoreStep ==
  ASSUME PassInv, ByteInv, FlashInv, CoreFlash \/ CoreStops
  PROVE  FlashInv'
<1>1. UNCHANGED << state, SCK, CSB, mbit, mbyte, sdoenb, pass_thru_mgmt_delay, pass_thru_mgmt,
                   pre_pass_thru_mgmt >>
  BY DEF CoreFlash, CoreStops, frontVars, spiVars, riseVars, fallVars, passVars, masterVars
<1>2. pass_thru_mgmt_delay # 1
  <2>1. CASE CoreFlash
    BY <2>1, SelectHeld DEF CoreFlash
  <2>2. CASE CoreStops
    BY <2>2 DEF CoreStops, Resetting, FlashInv
  <2> QED
    BY <2>1, <2>2
<1>3. pass_thru_mgmt # 1 /\ state # "MGMTPASS"
  BY <1>2, SelectHeld
<1>4. spimemio_flash_csb' \in Bit /\ spimemio_flash_clk' \in Bit
  BY DEF CoreFlash, CoreStops, FlashInv, FlashTypeOK, Bit
<1>5. SDI \in Bit
  BY BitIsABit DEF SDI, BitSent, ByteInv, FrontTypeOK
<1>6. fcount' \in 0 .. 7 /\ fbyte' \in Byte /\ (pad_flash_csb' = 1 => fcount' = 0)
  BY <1>5, FlashTyped DEF CoreFlash, CoreStops, FlashInv
<1> QED
  BY <1>1, <1>2, <1>3, <1>4, <1>6 DEF FlashInv, FlashTypeOK

\* What the SPI pins find: in reset the core has gone idle.
LEMMA BeforePins ==
  ASSUME PassInv, ByteInv, FlashInv, SpiPins
  PROVE  /\ FrontNext /\ FlashPins /\ PassInv' /\ ByteInv'
         /\ UNCHANGED << spimemio_flash_csb, spimemio_flash_clk >>
         /\ CoreIdle' = CoreIdle
         /\ pass_thru_mgmt_reset = 1 => CoreIdle
         /\ pass_thru_mgmt_delay' = 1 => CoreIdle'
         /\ FlashTypeOK' /\ (pad_flash_csb' = 1 => fcount' = 0)
         /\ SDI = BitSent(mbyte, mbit) /\ SDI \in Bit
<1>1. /\ FrontNext /\ FlashPins /\ ~Resetting
      /\ UNCHANGED << spimemio_flash_csb, spimemio_flash_clk >>
  BY DEF SpiPins, coreVars
<1>2. PassInv' /\ ByteInv'
  BY <1>1, PassStep, ByteStep
<1>3. pass_thru_mgmt_reset = 1 => CoreIdle
  BY <1>1 DEF Resetting
<1>4. pass_thru_mgmt_delay' = 1 => pass_thru_mgmt_reset = 1
  BY <1>1, HeldStep
<1>5. CoreIdle' = CoreIdle
  BY <1>1 DEF CoreIdle
<1>6. SDI = BitSent(mbyte, mbit) /\ SDI \in Bit
  BY BitIsABit DEF SDI, BitSent, ByteInv, FrontTypeOK
<1>7. FlashTypeOK' /\ (pad_flash_csb' = 1 => fcount' = 0)
  BY <1>1, <1>6, FlashTyped DEF FlashInv, FlashTypeOK
<1> QED
  BY <1>1, <1>2, <1>3, <1>4, <1>5, <1>6, <1>7

LEMMA RiseStep ==
  ASSUME PassInv, ByteInv, FlashInv, SpiPins, SckRise
  PROVE  FlashInv'
<1>1. /\ FlashPins /\ FlashTypeOK' /\ (pad_flash_csb' = 1 => fcount' = 0)
      /\ CoreIdle' = CoreIdle /\ (pass_thru_mgmt_reset = 1 => CoreIdle)
      /\ pass_thru_mgmt_delay' = 1 => CoreIdle'
      /\ UNCHANGED << spimemio_flash_csb, spimemio_flash_clk >>
      /\ SDI = BitSent(mbyte, mbit) /\ SDI \in Bit
  BY BeforePins
<1>2. /\ CSB = 0 /\ SCK = 0 /\ SCK' = 1 /\ CSB' = 0
      /\ UNCHANGED << sdoenb, mbyte, mbit >> /\ PosedgeSck(SDI)
      /\ mbit \in 0 .. 7 /\ mbyte \in Byte
      /\ Receiving => mbit = count
  BY BeforeRise DEF SckRise, ByteInv, FrontTypeOK
<1>3. CASE state = "MGMTPASS"
  <2>1. /\ PassBit /\ pass_thru_mgmt' = 1 /\ state' = state
        /\ pass_thru_mgmt_delay = 1 /\ pass_thru_mgmt_delay' = 1
    BY <1>2, <1>3, SelectHeld DEF PosedgeSck, CommandBit, AddressBit, DataBit, PassBit
  <2>2. CoreIdle /\ sdoenb = 0
    BY <1>2, <1>3, <2>1 DEF FlashInv
  <2>3. /\ pad_flash_csb = 0 /\ pad_flash_csb' = 0
        /\ pad_flash_clk = 0 /\ pad_flash_clk' = 1 /\ pad_flash_io0_do = SDI
    BY <1>2, <2>1, <2>2 DEF pad_flash_csb, pad_flash_clk, pad_flash_io0_do, CoreIdle
  <2>4. /\ fcount' = (fcount + 1) % 8
        /\ fbyte' = (2 * fbyte + BitSent(mbyte, mbit)) % 256
    BY <1>1, <2>3 DEF FlashPins
  <2>5. fcount = mbit /\ fbyte % 2^mbit = mbyte \div 2^(8 - mbit) /\ fbyte \in Byte
    <3>1. fbyte \in Byte
      BY DEF FlashInv, FlashTypeOK
    <3>2. CASE pass_thru_mgmt = 1
      BY <1>2, <3>1, <3>2 DEF FlashInv
    <3>3. CASE pass_thru_mgmt # 1
      <4>1. fcount = 0 /\ mbit = 0
        BY <1>2, <1>3, <2>1, <3>3 DEF FlashInv
      <4> QED
        BY <1>2, <3>1, <4>1, NoBits
    <3> QED
      BY <3>2, <3>3
  <2>6. fbyte' % 2^(mbit + 1) = mbyte \div 2^(7 - mbit)
    BY <1>2, <2>4, <2>5, ShiftIn
  <2> QED
    BY <1>1, <1>2, <2>1, <2>2, <2>4, <2>5, <2>6 DEF FlashInv
<1>4. CASE state # "MGMTPASS"
  <2>1. pass_thru_mgmt # 1 /\ pass_thru_mgmt' # 1
    BY <1>2, <1>4, SelectHeld
       DEF PosedgeSck, CommandBit, AddressBit, DataBit, PassBit, passVars
  <2>2. pad_flash_clk' = pad_flash_clk
    BY <1>1, <2>1 DEF pad_flash_clk
  <2>3. fcount' = fcount \/ fcount' = 0
    BY <1>1, <2>2 DEF FlashPins, flashVars
  <2>4. pass_thru_mgmt_delay' = 1 => fcount' = 0
    <3> SUFFICES ASSUME pass_thru_mgmt_delay' = 1 PROVE fcount = 0
      BY <2>3
    <3>1. CASE pass_thru_mgmt_delay = 1
      BY <2>1, <3>1 DEF FlashInv
    <3>2. CASE pass_thru_mgmt_delay # 1
      BY <1>1, <3>2 DEF FlashInv, CoreIdle, pad_flash_csb
    <3> QED
      BY <3>1, <3>2
  <2>5. state' = "MGMTPASS" => mbit = 7
    BY <1>2, <1>4 DEF PosedgeSck, CommandBit, AddressBit, DataBit, PassBit, Receiving
  <2> QED
    BY <1>1, <1>2, <2>1, <2>4, <2>5 DEF FlashInv
<1> QED
  BY <1>3, <1>4

LEMMA FallStep ==
  ASSUME PassInv, ByteInv, FlashInv, SpiPins, SckFall
  PROVE  FlashInv'
<1>1. /\ FlashPins /\ FlashTypeOK' /\ (pad_flash_csb' = 1 => fcount' = 0)
      /\ pass_thru_mgmt_delay' = 1 => CoreIdle'
      /\ UNCHANGED << spimemio_flash_csb, spimemio_flash_clk >>
  BY BeforePins
<1>2. /\ SCK = 1 /\ SCK' = 0 /\ CSB' = CSB
      /\ UNCHANGED << state, pass_thru_mgmt_delay, pass_thru_mgmt >>
  BY DEF SckFall, NegedgeSck, spiVars, riseVars, passVars
<1>3. ~(pad_flash_clk = 0 /\ pad_flash_clk' = 1)
  BY <1>1, <1>2 DEF pad_flash_clk
<1>4. fcount' = 0 \/ UNCHANGED << fcount, fbyte >>
  BY <1>1, <1>3 DEF FlashPins, flashVars
<1>5. CASE state = "MGMTPASS"
  <2>1. CSB = 0 /\ pass_thru_mgmt_delay = 1
    BY <1>5, SelectHeld
  <2>2. /\ sdoenb' = 0 /\ mbit' = (mbit + 1) % 8 /\ mbit \in 0 .. 7
        /\ mbit # 7 => mbyte' = mbyte
        /\ mbyte' \in Byte
    BY <1>5, <2>1, BeforePins DEF SckFall, NegedgeSck, ByteInv, FrontTypeOK
  <2>3. UNCHANGED << fcount, fbyte >>
    <3>1. pad_flash_csb' = 0
      BY <1>2, <2>1 DEF pad_flash_csb
    <3> QED
      BY <1>1, <1>3, <3>1 DEF FlashPins, flashVars
  <2>4. pass_thru_mgmt = 1 => fcount' = mbit' /\ fbyte' % 2^mbit' = mbyte' \div 2^(8 - mbit')
    <3> SUFFICES ASSUME pass_thru_mgmt = 1
                 PROVE  fcount' = mbit' /\ fbyte' % 2^mbit' = mbyte' \div 2^(8 - mbit')
      OBVIOUS
    <3>1. fcount' = mbit'
      BY <1>2, <2>2, <2>3 DEF FlashInv
    <3>2. CASE mbit = 7
      <4>1. mbit' = 0 /\ fbyte' \in Byte
        BY <1>1, <2>2, <3>2 DEF FlashTypeOK
      <4>2. fbyte' % 2^0 = mbyte' \div 2^(8 - 0)
        BY <2>2, <4>1, NoBits
      <4> QED
        BY <3>1, <4>1, <4>2
    <3>3. CASE mbit # 7
      <4>1. PICK n \in 0 .. 6 : n = mbit
        BY <2>2, <3>3
      <4>2. mbit' = n + 1 /\ 8 - mbit' = 7 - n /\ mbyte' = mbyte /\ fbyte' = fbyte
        BY <2>2, <2>3, <4>1
      <4>3. fbyte % 2^(n + 1) = mbyte \div 2^(7 - n)
        BY <1>2, <4>1 DEF FlashInv
      <4> QED
        BY <3>1, <4>2, <4>3
    <3> QED
      BY <3>2, <3>3
  <2>5. pass_thru_mgmt # 1 => mbit' = 0 /\ fcount' = 0
    BY <1>2, <1>5, <2>1, <2>2, <2>3 DEF FlashInv
  <2> QED
    BY <1>1, <1>2, <2>2, <2>4, <2>5 DEF FlashInv
<1>6. CASE state # "MGMTPASS"
  <2>1. pass_thru_mgmt # 1
    BY <1>6, SelectHeld
  <2>2. pass_thru_mgmt_delay = 1 => fcount' = 0
    BY <1>4, <2>1 DEF FlashInv
  <2> QED
    BY <1>1, <1>2, <1>6, <2>1, <2>2 DEF FlashInv
<1> QED
  BY <1>5, <1>6

LEMMA SelectStep ==
  ASSUME PassInv, ByteInv, FlashInv, SpiPins, CsbFall \/ CsbRise
  PROVE  FlashInv'
<1>1. FlashTypeOK' /\ (pad_flash_csb' = 1 => fcount' = 0)
  BY BeforePins
<1>2. state' = "COMMAND" /\ pass_thru_mgmt_delay' # 1 /\ pass_thru_mgmt' # 1
  <2>1. CASE CsbRise
    BY <2>1 DEF CsbRise, CsbReset
  <2>2. CASE CsbFall
    <3>1. CSB = 1 /\ UNCHANGED << state, pass_thru_mgmt_delay, pass_thru_mgmt >>
      BY <2>2 DEF CsbFall, spiVars, riseVars, passVars
    <3> QED
      BY <3>1, SelectHeld DEF ByteInv, CountsAgree
  <2> QED
    BY <2>1, <2>2
<1> QED
  BY <1>1, <1>2 DEF FlashInv

LEMMA FlashInvariant == PassSpec => [](PassInv /\ ByteInv /\ FlashInv)
<1>1. PassInit => PassInv /\ ByteInv /\ FlashInv
  <2>1. PassInit => PassInv /\ ByteInv
    BY PassInvInit, ByteInvInit DEF PassInit
  <2>2. PassInit => FlashInv
    BY DEF PassInit, FrontInit, SpiInit, FlashInv, FlashTypeOK, Bit, Byte
  <2> QED
    BY <2>1, <2>2
<1>2. PassInv /\ ByteInv /\ FlashInv /\ [PassNext]_passThruVars
        => PassInv' /\ ByteInv' /\ FlashInv'
  <2> SUFFICES ASSUME PassInv, ByteInv, FlashInv, [PassNext]_passThruVars
               PROVE  PassInv' /\ ByteInv' /\ FlashInv'
    OBVIOUS
  <2>1. PassInv' /\ ByteInv'
    <3>1. [FrontNext]_frontVars
      BY DEF PassNext, CoreFlash, CoreStops, SpiPins, passThruVars
    <3> QED
      BY <3>1, PassStep, ByteStep
  <2>2. CASE CoreFlash \/ CoreStops
    BY <2>1, <2>2, CoreStep
  <2>3. CASE SpiPins
    BY <2>1, <2>3, RiseStep, FallStep, SelectStep DEF SpiPins, FrontNext
  <2>4. CASE UNCHANGED passThruVars
    <3>1. UNCHANGED << spimemio_flash_csb, spimemio_flash_clk, fcount, fbyte, state, sdoenb, SCK, CSB,
                       mbit, mbyte, pass_thru_mgmt_delay, pass_thru_mgmt >>
      BY <2>4 DEF passThruVars, coreVars, flashVars, frontVars, masterVars, spiVars, riseVars,
                  fallVars, passVars
    <3> QED
      BY <2>1, <3>1 DEF FlashInv, FlashTypeOK, CoreIdle, pad_flash_csb
  <2> QED
    BY <2>1, <2>2, <2>3, <2>4 DEF PassNext
<1> QED
  BY <1>1, <1>2, PTL DEF PassSpec

\* The flash hears what the master sends after the command byte, bit for bit
\* and aligned to its own selection, and answers on the SDO pin: whatever the
\* core was doing with the flash when the command came (housekeeping.v).
THEOREM FlashIsHeard == PassSpec => []FlashHearsMaster
<1>1. PassInv /\ ByteInv /\ FlashInv => FlashHearsMaster
  <2> SUFFICES ASSUME PassInv, ByteInv, FlashInv PROVE FlashHearsMaster
    OBVIOUS
  <2> QED
    BY DEF FlashHearsMaster, FlashInv, SdoFromFlash
<1> QED
  BY <1>1, FlashInvariant, PTL

LEMMA OwnerStep ==
  ASSUME PassInv, ByteInv, FlashInv, PassNext, pad_flash_clk = 0, pad_flash_clk' = 1
  PROVE  IF SCK # SCK' THEN pass_thru_mgmt_delay = 1 /\ CoreIdle
                       ELSE pass_thru_mgmt_delay = 0
<1>0. pass_thru_mgmt_delay \in Bit
  BY DEF ByteInv, FrontTypeOK
<1>1. CASE CoreFlash
  <2>1. pass_thru_mgmt_delay # 1 /\ SCK' = SCK
    BY <1>1, SelectHeld DEF CoreFlash, frontVars, masterVars
  <2> QED
    BY <1>0, <2>1 DEF Bit
<1>2. CASE CoreStops
  <2>1. UNCHANGED << SCK, pass_thru_mgmt >> /\ spimemio_flash_clk' = 0
    BY <1>2 DEF CoreStops, frontVars, masterVars, spiVars, riseVars, passVars
  <2> QED
    BY <2>1 DEF pad_flash_clk
<1>3. CASE SpiPins
  <2>1. /\ FrontNext /\ spimemio_flash_clk' = spimemio_flash_clk
        /\ pass_thru_mgmt_reset = 1 => CoreIdle
    BY <1>3, BeforePins
  <2>2. CASE SckRise
    <3>1. state = "MGMTPASS"
      <4> SUFFICES ASSUME state # "MGMTPASS" PROVE FALSE
        OBVIOUS
      <4>1. pass_thru_mgmt # 1 /\ pass_thru_mgmt' # 1
        BY <2>2, SelectHeld
           DEF SckRise, PosedgeSck, CommandBit, AddressBit, DataBit, PassBit, passVars
      <4> QED
        BY <2>1, <4>1 DEF pad_flash_clk
    <3> QED
      BY <2>1, <2>2, <3>1, SelectHeld DEF SckRise
  \* A falling edge of SCK, and CSB, leave the clock low.
  <2>3. CASE SckFall
    <3>1. SCK' = 0 /\ pass_thru_mgmt' = pass_thru_mgmt
      BY <2>3 DEF SckFall, NegedgeSck, spiVars, riseVars, passVars
    <3> QED
      BY <2>1, <3>1 DEF pad_flash_clk
  <2>4. CASE CsbFall
    <3>1. UNCHANGED << SCK, pass_thru_mgmt >>
      BY <2>4 DEF CsbFall, spiVars, riseVars, passVars
    <3> QED
      BY <2>1, <3>1 DEF pad_flash_clk
  <2>5. CASE CsbRise
    <3>1. SCK' = SCK /\ pass_thru_mgmt' # 1
      BY <2>5 DEF CsbRise, CsbReset
    <3>2. pass_thru_mgmt = 1 => spimemio_flash_clk = 0
      BY <2>1, SelectHeld DEF CoreIdle
    <3> QED
      BY <2>1, <3>1, <3>2 DEF pad_flash_clk
  <2> QED
    BY <2>1, <2>2, <2>3, <2>4, <2>5 DEF FrontNext
<1> QED
  BY <1>1, <1>2, <1>3 DEF PassNext

\* Select and clock of the flash never have two drivers: the core does not
\* clock it while the SPI pins hold its select, nor the SPI pins before.
THEOREM FlashHasOneOwner == PassSpec => OneFlashOwner
<1>1. PassInv /\ ByteInv /\ FlashInv /\ [PassNext]_passThruVars =>
        [pad_flash_clk = 0 /\ pad_flash_clk' = 1 =>
           IF SCK # SCK' THEN pass_thru_mgmt_delay = 1 /\ CoreIdle
                         ELSE pass_thru_mgmt_delay = 0]_passThruVars
  BY OwnerStep
<1> QED
  BY <1>1, FlashInvariant, PTL DEF PassSpec, OneFlashOwner
=============================================================================
