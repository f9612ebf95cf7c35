------------------------------- MODULE MCDoors -------------------------------
(***************************************************************************)
(* Housekeeping with two mixes of traffic, one of which a behaviour keeps  *)
(* to: an SPI master and a core that meet in the PLL trim word, or in the  *)
(* registers that reset the core and disable the SPI.                      *)
(***************************************************************************)
EXTENDS MCHousekeeping

Upper == << 0, 1, 1, 1 >>

\* One-byte writes and reads of a trim register; writes of the upper lanes of
\* the word and reads of it.
TrimMix ==
  [commands |-> {136, 72}, addresses |-> {\h0e}, data |-> {90},
   accesses |-> {MCAccess(SpiPage + \h1c, 1, Upper, 64),
                 MCAccess(SpiPage + \h1c, 0, All, 0)}]

\* Management pass-through and writes; reset and disable from both doors.
ResetMix ==
  [commands |-> {196, 136}, addresses |-> {\h0b, \h6f}, data |-> {0, 1},
   accesses |-> {MCAccess(SpiPage + \h18, 1, All, 1), MCAccess(SysPage + \h10, 1, All, 1),
                 MCAccess(SysPage + \h10, 0, All, 0)}]

Mixes == {TrimMix, ResetMix}

MCCommands    == UNION {m.commands  : m \in Mixes}
MCAddresses   == UNION {m.addresses : m \in Mixes}
MCDataBytes   == UNION {m.data      : m \in Mixes}
MCMixAccesses == UNION {m.accesses  : m \in Mixes}
MCMixRegs     == MCTrimRegs \cup {\h0b, \h6f}

VARIABLE mix

MixByte == CASE state = "COMMAND" -> mix.commands
             [] state = "ADDRESS" -> mix.addresses
             [] OTHER             -> mix.data

MixInit == HkInit /\ mix \in Mixes

MixNext ==
  /\ \/ CoreReset \/ SpiDisabled \/ WbTick
     \/ \E r \in mix.accesses : WbIssue(r)
     \/ CsbFall /\ mbyte' \in mix.commands
     \/ CsbRise \/ SckRise
     \/ SckFall /\ (CSB = 0 /\ mbit = 7 => mbyte' \in MixByte)
  /\ UNCHANGED mix

MixSpec == MixInit /\ [][MixNext]_<< hkVars, mix >>
           /\ WF_hkVars(WbTick) /\ WF_hkVars(CoreReset \/ SpiDisabled)
=============================================================================
