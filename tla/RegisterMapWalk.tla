--------------------------- MODULE RegisterMapWalk ---------------------------
(***************************************************************************)
(* The tables of RegisterMap, CsrMap, BusMap and CsrAccess checked against *)
(* each other.  A program looks at one thing after the other: a byte       *)
(* address of the housekeeping pages, a word of the bus, or an array it    *)
(* moves through a CSR.                                                    *)
(***************************************************************************)
EXTENDS RegisterMap, CsrMap, BusMap, CsrAccess

CONSTANTS
  BusWords,  \* the words of the bus a program looks at
  MaxArray   \* the elements of the longest array it moves

VARIABLES adr, word, call

HkAddrs == 0 .. 3 * 256 - 1
Words   == 0 .. 2^30 - 1  \* shared_adr
CsrBase == \h3c000000

\* The array functions keep the size of an array in an int.
ASSUME WalkAssumption == BusWords \subseteq Words /\ MaxArray \in 1 .. 2^28 - 1

\* Slice width, element size and number of elements.
Calls == {1, 2, 4} \X {1, 2, 4, 8} \X (1 .. MaxArray)

HkHome   == 0
CallHome == << 4, 4, 1 >>
AtHome   == adr = HkHome /\ word = CsrBase /\ call = CallHome

WalkInit == AtHome

LookHk    == AtHome /\ adr' \in HkAddrs /\ UNCHANGED << word, call >>
LookBus   == AtHome /\ word' \in BusWords /\ UNCHANGED << adr, call >>
MoveArray == AtHome /\ call' \in Calls /\ UNCHANGED << adr, word >>
Return    == ~AtHome /\ adr' = HkHome /\ word' = CsrBase /\ call' = CallHome

WalkNext == LookHk \/ LookBus \/ MoveArray \/ Return
WalkSpec == WalkInit /\ [][WalkNext]_<< adr, word, call >>

Reached == spiaddr(adr)

\* The registers that exist.
Implemented == {a \in RegBytes : fdata(a) # << >>}

OneAddressEach ==
  /\ \A a \in Implemented : \E k \in 0 .. 3 * 256 - 1 : spiaddr(k) = a
  /\ \A k \in 0 .. 3 * 256 - 1 :
       k # adr /\ spiaddr(k) = Reached => fdata(Reached) = << >>
  /\ Reached \in Implemented \/ WriteBits(Reached) = << >>

LanesInOrder ==
  LET lane == adr % 4
      Base(bits, l, i) == 8 * l + i - bits[i][3]
  IN \A T \in {fdata(Reached), WriteBits(Reached)} : \A l \in 0 .. 3 :
       LET r == spiaddr(adr - lane + l)
       IN \A U \in {fdata(r), WriteBits(r)} : \A i \in 1 .. Len(T), j \in 1 .. Len(U) :
            T[i][1] = U[j][1] /\ T[i][2] = U[j][2]
              => Base(T, lane, i) = Base(U, l, j)

\* The word a macro of caravel.h names holds the signal it is named for, from
\* bit 0 of it on, and at bit 0 of the word when the header names no bits of it;
\* reg_mprj_io_<n> is the whole configuration word of pad n, and the status
\* register is reserved: it reads as zero and keeps nothing.
HeaderReaches ==
  /\ \A h \in HeaderRegs : h[1] = adr =>
       \E T \in {fdata(Reached), WriteBits(Reached)} : \E i \in 1 .. Len(T) :
         T[i] = << h[2], 0, IF h[2] = "mgmt_gpio_data" /\ Reached = \h69 THEN 32 ELSE 0 >>
         /\ ((\A b \in HeaderBits : b[1] # adr) => i = 1)
  /\ adr = reg_hkspi_status => fdata(Reached) = << >> /\ WriteBits(Reached) = << >>
  /\ \A p \in RegPads : adr = reg_mprj_io(p) =>
       WriteBits(Reached) \o WriteBits(spiaddr(adr + 1)) = PadField(p, 0, 13)

\* "Bit fields for reg_power_good", "Bit fields for reg_clk_out_dest", "Bit
\* fields for reg_irq_source" (caravel.h): the masks of reg_irq_source are the
\* hardware's, those of the other two name its bits in the opposite order.
HeaderBitsKnown ==
  \A b \in HeaderBits : b[1] = adr =>
    \A T \in {fdata(Reached), WriteBits(Reached)} \ {<< >>} :
      LET bit == IF adr = reg_irq_source THEN b[2] ELSE Len(T) - 1 - b[2]
      IN bit \in 0 .. Len(T) - 1 /\ T[bit + 1][1] = b[3]

\* Every register has one back-door address and no other, and an address
\* outside the table reaches register 0, which reads as zero and keeps nothing;
\* within the four bytes of one word access a signal wider than a byte appears
\* least significant byte first, without gaps, for reads and for writes; the
\* register macros of caravel.h reach the registers they are named for, but the
\* bits it names in reg_power_good and reg_clk_out_dest are in reverse.
AddressesTrue == OneAddressEach /\ LanesInOrder /\ HeaderReaches /\ HeaderBitsKnown

\* A bit written through a register is read back at the same place, with the
\* exceptions the code makes on purpose: serial_busy over serial_xfer, the
\* serial data lines over their bit-bang values, the pins over the GPIO data,
\* the effective reset over reset_reg.
ReadBack ==
  \A i \in 1 .. Width(Reached) :
    LET w == WriteBits(Reached)[i]
        r == fdata(Reached)[i]
    IN \/ w = r
       \/ << w[1], r[1] >> \in
            {<< "serial_xfer", "serial_busy" >>,
             << "serial_bb_data_1", "serial_data_1" >>,
             << "serial_bb_data_2", "serial_data_2" >>,
             << "reset_reg", "reset" >>}
       \/ w[1] = "mgmt_gpio_data" /\ r = [w EXCEPT ![1] = "mgmt_gpio_in"]

-----------------------------------------------------------------------------
(* The management core's registers. *)

InCsr  == slave_sel("csr", word)
Offset == 4 * (word - CsrBase)
Hw     == HwRegister(Offset)

\* << bank, register >> of the header for the word.
HeaderHere ==
  UNION {{<< b[1], r >> : r \in {x \in b[2] : Offset \in x.adr .. x.adr + 4 * x.words - 1}} :
           b \in CsrHeader}

\* At every word of the window csr.h has the register the hardware has there,
\* under its name, with a write accessor if and only if the bus can write it,
\* and with fields that are disjoint and no wider than it; where no register
\* answers the header has none.  The four words of the logic analyzer are
\* numbered as defs.h numbers them, and a bank with events has the interrupt
\* number soc.h gives it.
CsrHeaderTrue ==
  InCsr =>
    IF Hw = << >> THEN HeaderHere = {}
    ELSE
      \E h \in HeaderHere :
        /\ HeaderHere = {h}
        /\ h[1] = Hw[1] /\ h[2].reg = Hw[2][1]
        /\ h[2].access # "none" => (h[2].access = "ro" <=> Hw[2][3] = "status")
        /\ \A f \in h[2].fields : Mask(f) \subseteq 0 .. Hw[2][2] - 1
        /\ \A f, g \in h[2].fields : f # g => Mask(f) \cap Mask(g) = {}
        /\ h[1] = "la" => reg_la(h[2].reg, LaIndex(Hw[3])) = Offset
        /\ h[2].reg = "ev_status" => mgmtsoc_interrupt[SocInterrupt[h[1]] + 1] = h[1]

\* Words and values that tell the fields of a register apart.
EndBits(f)      == {f[2], f[2] + f[3] - 1}
SampleWords(r)  == SUBSET UNION {EndBits(f) : f \in r.fields}
SampleValues(f) == SUBSET {0, f[3] - 1}

\* What _write of field f does to register r of bank b, whose hardware is hw,
\* with contents s: the word goes out as read, with f replaced.
Acts(b, r, g, d) ==
  << b, r.reg, g[1] >> \in Pulses \cup PopsQueue /\ extract(d, g) # {}
Disturbs(b, r, hw, f) ==
  \E s \in SampleWords(r), v \in SampleValues(f) : \E g \in r.fields \ {f} :
    LET d == replace(s, f, v)
    IN \/ extract(AfterWrite(hw[3], hw[2], s, d), g) # extract(s, g)
       \/ Acts(b, r, g, d)
Lands(r, hw, f) ==
  \A s \in SampleWords(r), v \in SampleValues(f) :
    extract(AfterWrite(hw[3], hw[2], s, replace(s, f, v)), f) = v

\* The field writers that reach beyond their field: those of uart_ev_pending,
\* which clear the other event (and drop a received character with it), and
\* the ones that repeat a pulse still set in the register.
ReachBeyond ==
  {<< "uart", "ev_pending", "tx" >>, << "uart", "ev_pending", "rx" >>,
   << "spi_master", "control", "length" >>, << "ctrl", "reset", "cpu_rst" >>}

\* A field's _write accessor changes its field to the value given and nothing
\* else, with the exceptions listed: reading the register and writing it back
\* is not neutral where a one clears or triggers.
FieldWritesKnown ==
  InCsr => \A h \in HeaderHere : h[2].access = "rw" =>
    \A f \in h[2].fields :
      /\ Disturbs(h[1], h[2], Hw[2], f) <=> << h[1], h[2].reg, f[1] >> \in ReachBeyond
      /\ Lands(h[2], Hw[2], f) <=> h[2].reg # "ev_pending"

\* No word selects two slaves; a word of a region of mem.h selects that slave
\* and the regions therefore do not overlap.  The debug registers of defs.h are
\* the user project's, and four registers of an older chip reach nobody.
BusMapTrue ==
  LET sel == {s \in Slaves : slave_sel(s, word)}
  IN /\ \A s, t \in sel : s = t
     /\ \A r \in Regions : word \in r[2] .. r[2] + r[3] - 1 => sel = {r[1]}
     /\ word \in DebugRegs => sel = {"mprj"}
     /\ word \in LeftOverRegs => sel = {}

\* An array written to a CSR is read back unchanged whatever the widths of its
\* elements and of a slice; it takes the fewest slices that hold it, and lies
\* there exactly like one value of the same bytes (SlicesAsCommented has the order).
ArraysRoundTrip ==
  LET dw    == call[1]
      bytes == call[2] * call[3]
      buf   == [k \in 1 .. call[3] |-> [i \in 1 .. call[2] |-> call[2] * (k - 1) + i]]
      csr   == csr_wr_buf(dw, buf)
  IN /\ csr_rd_buf(dw, csr, call[2], call[3]) = buf
     /\ dw * Len(csr) - bytes \in 0 .. dw - 1
     /\ bytes <= 8 => csr_wr(dw, FlattenSeq(buf)) = csr

\* "with the least significant slice at the lowest aligned (base) address"
\* (hw/common.h): the first slice of a value written has its lowest bytes.
SlicesAsCommented ==
  LET dw    == call[1]
      value == [i \in 1 .. call[2] |-> i]
  IN csr_wr(dw, value)[1] = LowBytes(value, dw)
=============================================================================
