----------------------------- MODULE MCMgmtBus -----------------------------
(***************************************************************************)
(* MgmtBus with a core that runs from flash and uses housekeeping and the  *)
(* user project, and a debug UART: every slave that can wait for ever.     *)
(***************************************************************************)
EXTENDS MgmtBus, TLC

Read(s)  == [tgt |-> s, we |-> FALSE]
Write(s) == [tgt |-> s, we |-> TRUE]

\* The slaves that can wait for ever: the flash on its crossbar, the back door on
\* the SPI, a user project that may be silent, the debug port on the core.
MCAccesses ==
  0 :> {Read("flash")} @@
  1 :> {Write("hk"), Read("mprj")} @@
  2 :> {Read("debug")}

\* A core that runs from memory and uses housekeeping.
MCHkAccesses ==
  0 :> {Read("dff")} @@
  1 :> {Read("hk"), Write("hk")} @@
  2 :> {}
=============================================================================
