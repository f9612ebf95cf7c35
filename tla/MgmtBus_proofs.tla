--------------------------- MODULE MgmtBus_proofs ---------------------------
(***************************************************************************)
(* The shared bus for every time-out, every length of a cache line, every  *)
(* set of accesses and slaves that answer as late as they like.  The       *)
(* watchdog and the clocks an access has waited add up to Timeout; an idle *)
(* slave has no access waiting for it; and while no slave is late, each    *)
(* slave that is not idle works for the access that is on the bus.         *)
(***************************************************************************)
EXTENDS MgmtBus, TLAPS

Requests == {Idle} \cup
  [tgt : Slaves \cup {"none"}, we : BOOLEAN, left : Nat \ {0}]

\* Every register has a value of its width.
BusTypeOK ==
  /\ req \in [Masters -> Requests]
  /\ grant \in Masters
  /\ slave_sel_r \in Slaves \cup {"none", "idle"}
  /\ bus_errors \in 0 .. ErrorLimit
  /\ debug \in {"idle", "in_progress", "complete", "wait_for_ack"}
  /\ dff_ack \in BOOLEAN /\ mprj_ack \in BOOLEAN
  /\ litespi_state \in 0 .. 8
  /\ wbbd_state \in 0 .. WbbdDone /\ state \in 0 .. 1
  /\ late \in BOOLEAN

\* The watchdog measures the access on the bus, from its first clock on.
WatchInv ==
  /\ waited \in 0 .. Timeout /\ count = Timeout - waited
  /\ waited > 0 => shared_cyc /\ slave_sel_r = req[grant].tgt

\* Slave s has the access on the bus, for a clock at least.
Serving(s) == Selected(s) /\ waited > 0

\* The acknowledge of s meets its own access, or nobody's.
AckMeets(s) == shared_cyc => Selected(s) /\ slave_sel_r = s

\* An idle slave has no access that has waited for it.
IdleInv ==
  /\ debug = "idle" /\ Selected("debug") => waited = 0
  /\ ~dff_ack /\ Selected("dff") => waited = 0
  /\ state = 0 /\ Selected("csr") => waited = 0
  /\ litespi_state = 0 /\ Selected("flash") /\ ~req[grant].we => waited = 0
  /\ wbbd_state = 0 /\ Selected("hk") => waited = 0
  /\ moved \in Nat /\ (waited = 0 => moved = 0)

\* A slave at work serves the access on the bus.
DebugInv ==
  /\ debug \in {"in_progress", "complete"} => Serving("debug")
  /\ debug = "wait_for_ack" => AckMeets("debug")
DffInv   == dff_ack => Serving("dff")
CsrInv   == state = 1 => Serving("csr")
MprjInv  == mprj_ack => AckMeets("mprj")
FlashInv == litespi_state > 0 => Serving("flash") /\ ~req[grant].we

\* The back door has moved the bytes whose RW state it has left.
HkInv ==
  wbbd_state > 0 =>
    Serving("hk") /\ 2 * moved \in wbbd_state - 2 .. wbbd_state - 1

SlavesInv == DebugInv /\ DffInv /\ CsrInv /\ MprjInv /\ FlashInv /\ HkInv

\* The whole invariant.
BusInv == BusTypeOK /\ WatchInv /\ IdleInv /\ (~late => SlavesInv)

-----------------------------------------------------------------------------
(* Types and the watchdog. *)

LEMMA BusConstants ==
  /\ Timeout \in Nat /\ LineWords \in Nat /\ ErrorLimit \in Nat
  /\ Timeout > 0 /\ LineWords > 0
BY MgmtBusAssumption DEF MgmtBusAssumption

LEMMA TypeInit == ASSUME Init PROVE BusTypeOK /\ WatchInv
<1>1. req \in [Masters -> Requests]
  BY DEF Init, Requests
<1>2. grant \in Masters
  BY DEF Init, Masters
<1>3. dff_ack \in BOOLEAN /\ mprj_ack \in BOOLEAN
  BY Zenon DEF Init
<1>4. late \in BOOLEAN
  BY DEF Init
<1>5. WatchInv
  BY BusConstants DEF Init, WatchInv
<1> QED
  BY <1>1, <1>2, <1>3, <1>4, <1>5, BusConstants DEF Init, BusTypeOK, Slaves, WbbdDone

\* What one clock does to the request of a master.
LEMMA RequestStep ==
  ASSUME BusTypeOK, Clock, NEW m \in Masters
  PROVE  /\ req' \in [Masters -> Requests]
         /\ req'[m] \in NextRequests(m)
<1>1. \A k \in Masters : NextRequests(k) \subseteq Requests
  <2> SUFFICES ASSUME NEW k \in Masters PROVE NextRequests(k) \subseteq Requests
    OBVIOUS
  <2>1. req[k] \in Requests
    BY DEF BusTypeOK
  <2>2. \A a \in Accesses[k], n \in {1, LineWords} : Begun(a, n) \in Requests
    BY MgmtBusAssumption DEF MgmtBusAssumption, Begun, Requests, Access
  <2>3. CASE request(k) /\ k = grant /\ shared_ack
    <3>1. req[k].left \in Nat \ {0}
      BY <2>1, <2>3 DEF Requests, request
    <3>2. req[k].left # 1 => [req[k] EXCEPT !.left = @ - 1] \in Requests
      BY <2>1, <2>3, <3>1 DEF Requests, request
    <3> QED
      BY <2>3, <3>2 DEF NextRequests, Requests
  <2>4. CASE ~(request(k) /\ k = grant /\ shared_ack)
    BY <2>1, <2>2, <2>4 DEF NextRequests, Requests
  <2> QED
    BY <2>3, <2>4
<1>2. PICK i \in NextRequests(0), d \in NextRequests(1), u \in NextRequests(2) :
        req' = [k \in Masters |-> << i, d, u >>[k + 1]]
  BY DEF Clock
<1>3. req'[0] = i /\ req'[1] = d /\ req'[2] = u
  BY <1>2 DEF Masters
<1>4. \A k \in Masters : req'[k] \in NextRequests(k)
  BY <1>3 DEF Masters
<1>5. req' = [k \in Masters |-> req'[k]]
  BY <1>2
<1> QED
  BY <1>1, <1>4, <1>5

\* An access that waits is still there after the clock, on the same wires.
LEMMA WaitStays ==
  ASSUME BusTypeOK, Clock, wait_1
  PROVE  grant' = grant /\ req'[grant] = req[grant] /\ shared_cyc'
         /\ slave_sel_r' = req[grant].tgt
<1>1. grant' = grant
  BY DEF Clock, Arbiter, wait_1, shared_cyc
<1>2. req'[grant] \in NextRequests(grant)
  BY RequestStep DEF BusTypeOK
<1>3. req'[grant] = req[grant]
  BY <1>2 DEF NextRequests, wait_1, shared_cyc
<1> QED
  BY <1>1, <1>3 DEF shared_cyc, request, wait_1, Clock, Decoder

\* After the acknowledge the wires belong to nobody, or to the next word of the
\* same access.
LEMMA AckEnds ==
  ASSUME BusTypeOK, Clock, shared_cyc, shared_ack, shared_cyc'
  PROVE  grant' = grant /\ req'[grant].tgt = req[grant].tgt
         /\ req'[grant].we = req[grant].we /\ slave_sel_r' = req[grant].tgt
<1>1. grant' = grant
  BY DEF Clock, Arbiter, shared_cyc
<1>2. req'[grant] \in NextRequests(grant)
  BY RequestStep DEF BusTypeOK
<1>3. req'[grant] # Idle
  BY <1>1 DEF shared_cyc, request
<1>4. req'[grant] = [req[grant] EXCEPT !.left = @ - 1]
  BY <1>2, <1>3 DEF NextRequests, shared_cyc
<1>5. req[grant] \in [tgt : Slaves \cup {"none"}, we : BOOLEAN, left : Nat \ {0}]
  BY DEF BusTypeOK, Requests, shared_cyc, request
<1> QED
  BY <1>1, <1>4, <1>5 DEF Clock, Decoder

LEMMA TypeStep ==
  ASSUME BusTypeOK, Clock
  PROVE  BusTypeOK'
<1>1. req' \in [Masters -> Requests]
  BY RequestStep DEF Masters
<1>2. grant' \in Masters
  BY DEF BusTypeOK, Clock, Arbiter, Masters
<1>3. req[grant].tgt \in Slaves \cup {"none", "idle"}
  <2>1. req[grant] \in Requests
    BY DEF BusTypeOK
  <2> QED
    BY <2>1 DEF Requests, Idle
<1>4. slave_sel_r' \in Slaves \cup {"none", "idle"}
  BY <1>3 DEF Clock, Decoder
<1>5. bus_errors' \in 0 .. ErrorLimit
  BY BusConstants DEF BusTypeOK, Clock, Watchdog
<1>6. debug' \in {"idle", "in_progress", "complete", "wait_for_ack"}
  BY DEF BusTypeOK, Clock, DebugPort
<1>7. dff_ack' \in BOOLEAN /\ mprj_ack' \in BOOLEAN
  <2>1. dff_ack' = (Selected("dff") /\ ~dff_ack)
    BY DEF Clock, Dff
  <2>2. mprj_ack' \in {FALSE, Selected("mprj") /\ ~mprj_ack}
    BY DEF Clock, UserProject
  <2> QED
    BY <2>1, <2>2, Zenon
<1>8. state' \in 0 .. 1
  BY DEF Clock, CsrBridge
<1>9. litespi_state' \in 0 .. 8
  BY DEF BusTypeOK, Clock, LiteSpi
<1>10. wbbd_state' \in 0 .. WbbdDone
  BY DEF BusTypeOK, Clock, BackDoor, WbbdDone
<1>11. late' \in BOOLEAN
  BY Zenon DEF Clock, Ghosts
<1> QED
  BY <1>1, <1>2, <1>4, <1>5, <1>6, <1>7, <1>8, <1>9, <1>10,
     <1>11 DEF BusTypeOK

LEMMA WatchStep ==
  ASSUME BusTypeOK, WatchInv, Clock
  PROVE  WatchInv'
<1>1. CASE wait_1
  <2>1. count # 0 /\ count' = count - 1 /\ waited' = waited + 1
    BY <1>1 DEF Clock, Watchdog, Ghosts, wait_1, shared_ack, done
  <2>2. waited' \in 0 .. Timeout /\ count' = Timeout - waited'
    BY <2>1, BusConstants DEF WatchInv
  <2> QED
    BY <1>1, <2>2, WaitStays DEF WatchInv
<1>2. CASE ~wait_1
  BY <1>2, BusConstants DEF Clock, Watchdog, Ghosts, WatchInv
<1> QED
  BY <1>1, <1>2

\* The watchdog cuts no access short: when it fires, the access on the bus has
\* had it for all of Timeout clocks (count and wait_1 of mgmt_core.v), whatever
\* the slaves do.
THEOREM WatchdogCutsNothingShort == Spec => []NotCutShort
<1>1. Init => BusTypeOK /\ WatchInv
  BY TypeInit
<1>2. BusTypeOK /\ WatchInv /\ [Clock]_vars => (BusTypeOK /\ WatchInv)'
  <2> SUFFICES ASSUME BusTypeOK, WatchInv, [Clock]_vars
               PROVE  (BusTypeOK /\ WatchInv)'
    OBVIOUS
  <2>1. CASE Clock
    BY <2>1, TypeStep, WatchStep
  <2>2. CASE UNCHANGED vars
    BY <2>2 DEF vars, sharedVars, slaveVars, BusTypeOK, WatchInv, shared_cyc, request
  <2> QED
    BY <2>1, <2>2
<1>3. WatchInv => NotCutShort
  BY BusConstants DEF WatchInv, NotCutShort, done
<1> QED
  BY <1>1, <1>2, <1>3, PTL DEF Spec

-----------------------------------------------------------------------------
(* The slaves. *)

\* Whoever acknowledges has the bus, if anybody has.
LEMMA AckSelected ==
  ASSUME BusTypeOK, SlavesInv, shared_cyc, NEW s \in Acking
  PROVE  Selected(s)
<1>1. s = "debug" => Selected(s)
  BY DEF Acking, SlavesInv, DebugInv, AckMeets
<1>2. s = "dff" => Selected(s)
  BY DEF Acking, SlavesInv, DffInv, Serving
<1>3. s = "flash" => Selected(s)
  BY DEF Acking, SlavesInv, FlashInv, Serving
<1>4. s = "mprj" => Selected(s)
  BY DEF Acking, SlavesInv, MprjInv, AckMeets
<1>5. s = "hk" => Selected(s)
  BY DEF Acking, SlavesInv, HkInv, Serving, WbbdDone
<1>6. s = "csr" => Selected(s)
  BY DEF Acking, SlavesInv, CsrInv, Serving
<1> QED
  BY <1>1, <1>2, <1>3, <1>4, <1>5, <1>6 DEF Acking, Slaves

\* A selected slave means a request; one that does not answer yet keeps its
\* master waiting: nobody answers for it.
LEMMA ServedWaits ==
  ASSUME BusTypeOK, SlavesInv, ~done, NEW s \in Slaves, Selected(s), s \notin Acking
  PROVE  wait_1
<1>1. shared_cyc
  BY DEF Selected, shared_cyc, request, Idle, Slaves
<1>2. \A r \in Acking : r = s
  BY <1>1, AckSelected DEF Selected
<1> QED
  BY <1>1, <1>2 DEF wait_1, shared_ack

\* What a clock does to the wires a slave sees.
LEMMA Wires ==
  ASSUME BusTypeOK, WatchInv, Clock, NEW s \in Slaves
  PROVE  /\ wait_1 => /\ waited' = waited + 1 /\ waited' > 0
                      /\ Selected(s)' <=> Selected(s)
                      /\ req'[grant'].we = req[grant].we
                      /\ slave_sel_r' = req[grant].tgt
         /\ ~wait_1 => waited' = 0
         /\ shared_cyc /\ shared_cyc' =>
              (Selected(s)' <=> Selected(s)) /\ slave_sel_r' = req[grant].tgt
         /\ Selected(s) => shared_cyc
<1>1. wait_1 => /\ waited' = waited + 1 /\ waited' > 0
                /\ Selected(s)' <=> Selected(s)
                /\ req'[grant'].we = req[grant].we
                /\ slave_sel_r' = req[grant].tgt
  BY WaitStays, BusConstants DEF Clock, Ghosts, Selected, WatchInv
<1>2. ~wait_1 => waited' = 0
  BY DEF Clock, Ghosts
<1>3. shared_cyc /\ shared_cyc' =>
        (Selected(s)' <=> Selected(s)) /\ slave_sel_r' = req[grant].tgt
  BY <1>1, AckEnds DEF Selected, wait_1
<1>4. Selected(s) => shared_cyc
  BY DEF Selected, shared_cyc, request, Idle, Slaves
<1> QED
  BY <1>1, <1>2, <1>3, <1>4

\* A slave that acknowledges ends the clocks of the access on the bus.
LEMMA AckStopsWaiting ==
  ASSUME NEW s \in Acking, Clock PROVE ~wait_1 /\ waited' = 0
BY DEF wait_1, shared_ack, Clock, Ghosts

\* A slave that is idle after a clock was idle and not addressed before it, or
\* has acknowledged, or has lost its access: nothing waits for it.
LEMMA IdleStep ==
  ASSUME BusTypeOK, WatchInv, IdleInv, Clock
  PROVE  IdleInv'
<1>1. \A s \in Slaves : Selected(s)' /\ waited' # 0 => Selected(s) /\ wait_1
  BY Wires
<1>2. debug' = "idle" /\ Selected("debug")' => waited' = 0
  BY <1>1 DEF Slaves, BusTypeOK, Clock, DebugPort
<1>3. ~dff_ack' /\ Selected("dff")' => waited' = 0
  <2>1. dff_ack => "dff" \in Acking
    BY DEF Acking, Slaves
  <2>2. dff_ack' <=> Selected("dff") /\ ~dff_ack
    BY DEF Clock, Dff
  <2> QED
    BY <1>1, <2>1, <2>2, AckStopsWaiting DEF Slaves
<1>4. state' = 0 /\ Selected("csr")' => waited' = 0
  <2>1. state = 1 => "csr" \in Acking
    BY DEF Acking, Slaves
  <2>2. state' = IF state = 0 /\ Selected("csr") THEN 1 ELSE 0
    BY DEF Clock, CsrBridge
  <2>3. state \in {0, 1}
    BY DEF BusTypeOK
  <2> QED
    BY <1>1, <2>1, <2>2, <2>3, AckStopsWaiting DEF Slaves
<1>5. litespi_state' = 0 /\ Selected("flash")' /\ ~req'[grant'].we => waited' = 0
  <2>1. litespi_state = 8 => "flash" \in Acking
    BY DEF Acking, Slaves
  <2>2. CASE litespi_state = 0
    <3>1. ~(Selected("flash") /\ ~req[grant].we) \/ litespi_state' \in {1, 7}
      BY <2>2 DEF Clock, LiteSpi
    <3> QED
      BY <1>1, <3>1, Wires DEF Slaves
  <2>3. CASE litespi_state \in 1 .. 7
    <3>1. litespi_state' # 0
      BY <2>3 DEF Clock, LiteSpi
    <3> QED
      BY <3>1
  <2> QED
    BY <2>1, <2>2, <2>3, AckStopsWaiting DEF BusTypeOK
<1>6. wbbd_state' = 0 /\ Selected("hk")' => waited' = 0
  <2>1. wbbd_state = 9 => "hk" \in Acking
    BY DEF Acking, Slaves, WbbdDone
  <2>2. CASE wbbd_state = 0
    <3>1. Selected("hk") => wbbd_state' = 1
      BY <2>2 DEF Clock, BackDoor, WbbdDone
    <3> QED
      BY <1>1, <3>1 DEF Slaves
  <2>3. CASE wbbd_state \in 1 .. 8
    <3>1. wbbd_state' # 0
      BY <2>3 DEF Clock, BackDoor, WbbdDone
    <3> QED
      BY <3>1
  <2> QED
    BY <2>1, <2>2, <2>3, AckStopsWaiting DEF BusTypeOK, WbbdDone
<1>7. moved' \in Nat /\ (waited' = 0 => moved' = 0)
  <2>1. wait_1 => waited' > 0
    BY Wires DEF Slaves
  <2> QED
    BY <2>1 DEF IdleInv, Clock, Ghosts
<1> QED
  BY <1>2, <1>3, <1>4, <1>5, <1>6, <1>7 DEF IdleInv, Selected

\* One lemma per slave: as long as nobody is late it takes up the access on its
\* first clock and serves it while nobody else answers.
LEMMA DebugStep ==
  ASSUME BusTypeOK, WatchInv, IdleInv, SlavesInv, ~done, Clock
  PROVE  DebugInv'
<1>1. "debug" \in Slaves /\ ("debug" \in Acking => debug = "wait_for_ack")
  BY DEF Slaves, Acking
<1>2. DebugInv
  BY DEF SlavesInv
<1>3. Selected("debug") /\ debug # "wait_for_ack" => Serving("debug")'
  BY <1>1, ServedWaits, Wires DEF Serving
<1>4. CASE debug = "idle"
  <2>1. debug' = IF Selected("debug") THEN "in_progress" ELSE "idle"
    BY <1>4 DEF Clock, DebugPort
  <2> QED
    BY <1>3, <1>4, <2>1 DEF DebugInv
<1>5. CASE debug = "in_progress"
  <2>1. debug' \in {"in_progress", "complete"}
    BY <1>5 DEF Clock, DebugPort
  <2> QED
    BY <1>2, <1>3, <1>5, <2>1 DEF DebugInv, Serving
<1>6. CASE debug = "complete"
  <2>1. debug' = "wait_for_ack" /\ Selected("debug")
    BY <1>2, <1>6 DEF Clock, DebugPort, DebugInv, Serving
  <2>2. shared_cyc' => Selected("debug")' /\ slave_sel_r' = "debug"
    BY <1>1, <2>1, Wires DEF Selected
  <2> QED
    BY <2>1, <2>2 DEF DebugInv, AckMeets
<1>7. CASE debug = "wait_for_ack"
  <2>1. debug' = IF Selected("debug") THEN "wait_for_ack" ELSE "idle"
    BY <1>7 DEF Clock, DebugPort
  <2>2. Selected("debug") /\ shared_cyc' => Selected("debug")' /\ slave_sel_r' = "debug"
    BY <1>1, Wires DEF Selected
  <2> QED
    BY <2>1, <2>2 DEF DebugInv, AckMeets
<1> QED
  BY <1>4, <1>5, <1>6, <1>7 DEF BusTypeOK

LEMMA DffStep ==
  ASSUME BusTypeOK, WatchInv, IdleInv, SlavesInv, ~done, Clock
  PROVE  DffInv'
<1>1. "dff" \in Slaves /\ ("dff" \in Acking <=> dff_ack)
  BY DEF Slaves, Acking
<1>2. dff_ack' <=> Selected("dff") /\ ~dff_ack
  BY DEF Clock, Dff
<1> QED
  BY <1>1, <1>2, ServedWaits, Wires DEF DffInv, Serving

LEMMA CsrStep ==
  ASSUME BusTypeOK, WatchInv, IdleInv, SlavesInv, ~done, Clock
  PROVE  CsrInv'
<1>1. "csr" \in Slaves /\ ("csr" \in Acking <=> state = 1)
  BY DEF Slaves, Acking
<1>2. state' = IF state = 0 /\ Selected("csr") THEN 1 ELSE 0
  BY DEF Clock, CsrBridge
<1> QED
  BY <1>1, <1>2, ServedWaits, Wires DEF CsrInv, Serving

LEMMA MprjStep ==
  ASSUME BusTypeOK, WatchInv, Clock
  PROVE  MprjInv'
<1>1. "mprj" \in Slaves
  BY DEF Slaves
<1>2. mprj_ack' => Selected("mprj")
  BY DEF Clock, UserProject
<1>3. Selected("mprj") /\ shared_cyc' => Selected("mprj")' /\ slave_sel_r' = "mprj"
  BY <1>1, Wires DEF Selected
<1> QED
  BY <1>2, <1>3 DEF MprjInv, AckMeets

LEMMA FlashStep ==
  ASSUME BusTypeOK, WatchInv, IdleInv, SlavesInv, ~done, Clock
  PROVE  FlashInv'
<1>1. "flash" \in Slaves /\ ("flash" \in Acking <=> litespi_state = 8)
  BY DEF Slaves, Acking
<1>2. FlashInv /\ litespi_state \in 0 .. 8
  BY DEF SlavesInv, BusTypeOK
<1>3. Selected("flash") /\ ~req[grant].we /\ litespi_state # 8
        => Serving("flash")' /\ ~req'[grant'].we
  BY <1>1, ServedWaits, Wires DEF Serving
<1>4. CASE litespi_state = 0
  <2>1. litespi_state' > 0 => Selected("flash") /\ ~req[grant].we
    BY <1>4 DEF Clock, LiteSpi
  <2> QED
    BY <1>3, <1>4, <2>1 DEF FlashInv
<1>5. CASE litespi_state \in 1 .. 7
  BY <1>2, <1>3, <1>5 DEF FlashInv, Serving
<1>6. CASE litespi_state = 8
  <2>1. litespi_state' = 0
    BY <1>6 DEF Clock, LiteSpi
  <2> QED
    BY <2>1 DEF FlashInv
<1> QED
  BY <1>2, <1>4, <1>5, <1>6

LEMMA HkStep ==
  ASSUME BusTypeOK, WatchInv, IdleInv, SlavesInv, ~done, Clock
  PROVE  HkInv'
<1>1. "hk" \in Slaves /\ ("hk" \in Acking <=> wbbd_state = 9)
  BY DEF Slaves, Acking, WbbdDone
<1>2. HkInv /\ wbbd_state \in 0 .. 9 /\ moved \in Nat
  BY DEF SlavesInv, IdleInv, BusTypeOK, WbbdDone
<1>3. Selected("hk") /\ wbbd_state # 9 => wait_1 /\ Serving("hk")'
  BY <1>1, ServedWaits, Wires DEF Serving
<1>4. CASE wbbd_state = 0
  <2>1. wbbd_state' = IF Selected("hk") THEN 1 ELSE 0
    BY <1>4 DEF Clock, BackDoor, WbbdDone
  <2>2. Selected("hk") => moved' = 0
    BY <1>3, <1>4 DEF Clock, Ghosts, IdleInv
  <2> QED
    BY <1>3, <1>4, <2>1, <2>2 DEF HkInv
<1>5. CASE wbbd_state \in 1 .. 8
  <2>1. Selected("hk") /\ 2 * moved \in wbbd_state - 2 .. wbbd_state - 1
    BY <1>2, <1>5 DEF HkInv, Serving
  <2>2. wait_1 /\ Serving("hk")'
    BY <1>3, <1>5, <2>1
  <2>3. moved' = IF wbbd_state \in {2, 4, 6, 8} THEN moved + 1 ELSE moved
    BY <2>1, <2>2 DEF Clock, Ghosts
  <2>4. wbbd_state' \in IF wbbd_state \in {2, 4, 6, 8} THEN {wbbd_state + 1}
                                                     ELSE {wbbd_state, wbbd_state + 1}
    BY <1>5 DEF Clock, BackDoor, WbbdDone
  <2>5. CASE wbbd_state \in {2, 4, 6, 8}
    BY <1>2, <2>1, <2>2, <2>3, <2>4, <2>5 DEF HkInv
  <2>6. CASE wbbd_state \in {1, 3, 5, 7}
    <3>1. 2 * moved = wbbd_state - 1
      <4>1. wbbd_state - 1 \in {0, 2, 4, 6} /\ moved \in 0 .. 3
        BY <1>2, <2>1, <2>6
      <4> QED
        BY <1>2, <2>1, <4>1
    <3>2. moved' = moved /\ wbbd_state' \in {wbbd_state, wbbd_state + 1}
      BY <2>3, <2>4, <2>6
    <3>3. 2 * moved' \in wbbd_state' - 2 .. wbbd_state' - 1
      <4>1. 2 * moved' = wbbd_state - 1 /\ wbbd_state \in Nat /\ wbbd_state' \in Nat
        BY <2>6, <3>1, <3>2
      <4>2. wbbd_state' = wbbd_state \/ wbbd_state' = wbbd_state + 1
        BY <3>2
      <4> QED
        BY <4>1, <4>2
    <3> QED
      BY <2>2, <3>3 DEF HkInv
  <2> QED
    BY <1>5, <2>5, <2>6
<1>6. CASE wbbd_state = 9
  <2>1. wbbd_state' = 0
    BY <1>6 DEF Clock, BackDoor, WbbdDone
  <2> QED
    BY <2>1 DEF HkInv
<1> QED
  BY <1>2, <1>4, <1>5, <1>6

LEMMA BusInvInit == ASSUME Init PROVE BusInv
<1>1. ~shared_cyc /\ waited = 0 /\ moved = 0
  BY DEF Init, shared_cyc, request, Masters
<1>2. IdleInv /\ SlavesInv
  BY <1>1 DEF Init, IdleInv, SlavesInv, DebugInv, DffInv, CsrInv, MprjInv, FlashInv,
     HkInv
<1> QED
  BY <1>2, TypeInit DEF BusInv

\* A time-out either finds every slave idle after it or makes one late; and a
\* late slave is late until all are idle.
LEMMA BusInvStep == ASSUME BusInv, [Clock]_vars PROVE BusInv'
<1>1. CASE Clock
  <2>1. BusTypeOK' /\ WatchInv' /\ IdleInv'
    BY <1>1, TypeStep, WatchStep, IdleStep DEF BusInv
  <2>2. ASSUME ~late' PROVE SlavesInv'
    <3>1. CASE late \/ done
      <4>1. (Working = {})'
        BY <1>1, <2>2, <3>1 DEF Clock, Ghosts
      <4>2. (debug = "idle" /\ ~dff_ack /\ litespi_state = 0 /\ ~mprj_ack
             /\ wbbd_state = 0 /\ state = 0)'
        BY <2>1, <4>1 DEF Working, Slaves, BusTypeOK
      <4> QED
        BY <4>2 DEF SlavesInv, DebugInv, DffInv, CsrInv, MprjInv, FlashInv, HkInv
    <3>2. CASE ~late /\ ~done
      BY <1>1, <3>2, DebugStep, DffStep, CsrStep, MprjStep, FlashStep,
         HkStep DEF BusInv, SlavesInv
    <3> QED
      BY <3>1, <3>2
  <2> QED
    BY <2>1, <2>2 DEF BusInv
<1>2. CASE UNCHANGED vars
  BY <1>2 DEF vars, sharedVars, slaveVars, BusInv, BusTypeOK, WatchInv, IdleInv,
     SlavesInv, DebugInv, DffInv, CsrInv, MprjInv, FlashInv, HkInv, AckMeets,
     Serving, Selected, shared_cyc, request
<1> QED
  BY <1>1, <1>2

\* However late the slaves answer, an acknowledge goes astray only while one of
\* them is still at work since a time-out.  At any other moment the one a master
\* takes comes from the slave it addressed and from no other, and that slave's
\* data is on the bus, although shared_ack of mgmt_core.v ORs every slave's and
\* slave_sel_r is a clock late.
THEOREM AcknowledgeOwned == Spec => []AckOwned
<1>1. Init => BusInv
  BY BusInvInit
<1>2. BusInv /\ [Clock]_vars => BusInv'
  BY BusInvStep
<1>3. BusInv => AckOwned
  <2> SUFFICES ASSUME BusInv, shared_cyc, shared_ack, ~done, ~late
               PROVE  Acking = {req[grant].tgt} /\ slave_sel_r = req[grant].tgt
    BY DEF AckOwned
  <2>1. PICK s \in Acking : TRUE
    BY DEF shared_ack
  <2>2. BusTypeOK /\ WatchInv /\ SlavesInv
    BY DEF BusInv
  <2>3. \A r \in Acking : Selected(r)
    BY <2>2, AckSelected
  <2>4. Acking = {req[grant].tgt}
    BY <2>1, <2>3 DEF Selected
  <2>5. waited > 0 \/ slave_sel_r = s
    <3>1. s = "debug" \/ s = "mprj" => slave_sel_r = s
      BY <2>1, <2>2 DEF Acking, SlavesInv, DebugInv, MprjInv, AckMeets
    <3>2. s \in {"dff", "csr", "flash", "hk"} => waited > 0
      BY <2>1, <2>2 DEF Acking, SlavesInv, DffInv, CsrInv, FlashInv, HkInv, Serving,
         WbbdDone
    <3> QED
      BY <3>1, <3>2 DEF Acking, Slaves
  <2> QED
    BY <2>1, <2>2, <2>3, <2>4, <2>5 DEF WatchInv, Selected
<1> QED
  BY <1>1, <1>2, <1>3, PTL DEF Spec

\* While no slave is late, wb_ack_o of housekeeping.v is high for an access only
\* after all four of its bytes have been moved, however long the SPI stalls it.
THEOREM BytesBeforeAcknowledge == Spec => []BytesBeforeAck
<1>1. Init => BusInv
  BY BusInvInit
<1>2. BusInv /\ [Clock]_vars => BusInv'
  BY BusInvStep
<1>3. BusInv => BytesBeforeAck
  BY DEF BusInv, SlavesInv, IdleInv, HkInv, BytesBeforeAck, AckAfterAllBytes, WbbdDone
<1> QED
  BY <1>1, <1>2, <1>3, PTL DEF Spec
=============================================================================
