------------------------------ MODULE BootProofs ------------------------------
(***************************************************************************)
(* Proofs about Boot and EthInit, for any builds, any number of hardware   *)
(* sockets, any addresses and any length of the event queue.               *)
(***************************************************************************)
EXTENDS Boot, FiniteSetTheorems, TLAPS

USE BuildsAssumption, ConstantsAssumption, BootAssumption

-------------------------------------------------------------------------------
(* The inductive invariant. *)

PortPcs  == {"new_mac", "new_phy", "install", "set_mac", "undo"}
InitPcs  == {"alloc", "isr", "bus", "efuse", "free"} \cup PortPcs
QuietPcs == {"inited", "split", "toe_on", "netif", "attach", "register"}
UpPcs    == {"start", "toe0", "running", "stop_wait"}
GonePcs  == {"deinited", "delete_loop", "done"}
DownPcs  == {"stop", "uninstall", "free_bus"} \cup GonePcs

\* app_main is somewhere, and in the steps of the TOE only with the TOE built in.
PcOK ==
  /\ app \in InitPcs \cup QuietPcs \cup UpPcs \cup DownPcs \cup {"failed"}
  /\ app \in {"split", "toe_on", "toe0"} \/ toe0 # Null => build.toe
  /\ app # "split" => sn = 0
  /\ app \in {"toe0", "running", "stop_wait"} => port = 1

\* While a port is being brought up the others are whole, and a SPI port has its bus.
PortsOK ==
  /\ mac \ {port} = phy \ {port} /\ phy \ {port} = drv \ {port}
  /\ app \notin {"new_phy", "install", "undo"} => mac = phy /\ phy = drv
  /\ app = "set_mac" => IsSpi(port) /\ port \in drv
  /\ app \in {"isr", "bus", "efuse"} \cup PortPcs => 1 .. port - 1 \subseteq drv
  /\ app \in {"stop"} \cup QuietPcs \cup UpPcs => drv = Ports
  /\ app = "efuse" \/ (app \in PortPcs /\ IsSpi(port)) => bus
  /\ SpiUp => bus

\* Drivers run only between app_main's start and stop loops.
StartedOK ==
  /\ app \in InitPcs \cup QuietPcs => started = {}
  /\ app = "stop" => \A q \in started \cup glue : q >= port
  /\ app \in DownPcs \ {"stop"} => started = {} /\ glue = {}

EvenSplit == \A s \in 0 .. LAST : chip.kb[s] = 2

\* The buffers are split from the end of Partition on, until esp_eth resets the chip,
\* which only a restart leads to; socket 0 is open only with a driver started.
SplitOK ==
  build.toe =>
    /\ app = "split" => \A s \in 0 .. sn - 1 : chip.kb[s] = 2
    /\ app \in (QuietPcs \ {"inited", "split"}) \cup UpPcs \cup DownPcs => EvenSplit
    /\ chip.sock0 => EvenSplit

\* toe0 is made last, and nobody takes it away.
Toe0OK ==
  /\ toe0 # Null => app \in DownPcs \cup {"running", "stop_wait", "failed"} /\ s_initialized
  /\ build.toe /\ app \in DownPcs \cup {"running", "stop_wait"} => toe0 # Null
  /\ ev \notin {"idle", "check", "failed"} \/ (\E d \in Demos : tasks[d] > 0) => toe0 # Null
  /\ build.toe /\ app \in (QuietPcs \ {"inited", "split", "toe_on"}) \cup {"start", "toe0"}
       => s_initialized
  /\ \A d \in Demos : tasks[d] > 0 => d \in begun

\* The chip's addresses, as far as there is a chip to write to.
ChipOK ==
  /\ build.toe /\ app \in QuietPcs \cup UpPcs => chip.mac = EthMac
  /\ ev # "idle" /\ ev # "failed" => addr \in Addrs
  /\ ev \in {"get", "set_mac", "set_gw", "set_ip", "demos"} => toe0 = addr
  /\ SpiUp =>
       /\ toe0 # Null => chip.mac = EthMac
       /\ ev = "set_mac" => netinfo = EthMac
       /\ ev \in {"idle", "check", "sync"} /\ toe0 \in Addrs => chip.ip = toe0 /\ chip.gw = toe0
       /\ ev \in {"set_ip", "demos"} => chip.gw = addr
       /\ ev = "demos" => chip.ip = addr
       /\ (\E d \in Demos : tasks[d] > 0) => chip.ip # NoAddr

\* Who installed the ISR service, as long as it is there.
IsrOK ==
  app \notin GonePcs \cup {"failed"} =>
    IF gpio_isr_svc_init_by_eth THEN isr = "eth" /\ build.isr = "none" /\ build.irq
                                ELSE isr = build.isr

\* What the tear-down has taken away so far.
DownOK ==
  /\ app \in DownPcs \cup {"stop_wait"} => dispatcher # "on"
  /\ app = "uninstall" => \A q \in mac : q >= port
  /\ app \in GonePcs \cup {"free_bus"} => mac = {}
  /\ app \in GonePcs => ~bus /\ isr = build.isr /\ array = FALSE
  /\ app \in {"delete_loop", "done"} => ~handlers
  /\ app = "done" => ~loop

\* TypeOK beyond EthTypeOK, in two parts.
ChipOf ==
  chip \in [mac : {EthMac, NoMac}, ip : Addrs \cup {NoAddr}, gw : Addrs \cup {NoAddr},
            sock0 : BOOLEAN, kb : [0 .. LAST -> {0, 2, 16}]]

RestOK ==
  /\ sn \in 0 .. LAST /\ s_initialized \in BOOLEAN /\ dispatcher \in {"off", "on", "ending"}
  /\ glue \subseteq Ports /\ handlers \in BOOLEAN /\ loop \in BOOLEAN
  /\ toe0 \in Addrs \cup {Null, NoAddr} /\ link \subseteq started
  /\ queue \in Seq(Addrs) /\ Len(queue) <= QUEUE
  /\ ev \in {"idle", "check", "sync", "get", "set_mac", "set_gw", "set_ip", "demos", "failed"}
  /\ addr \in Addrs \cup {NoAddr} /\ netinfo \in {EthMac, NoMac}
  /\ begun \subseteq Demos /\ tasks \in [Demos -> {0, 1}]

BInv == /\ TypeOK /\ PcOK /\ PortsOK /\ StartedOK /\ SplitOK
        /\ Toe0OK /\ ChipOK /\ IsrOK /\ DownOK

-------------------------------------------------------------------------------

USE DEF InitPcs, PortPcs, QuietPcs, UpPcs, GonePcs, DownPcs,
        ethVars, objects, service, toeVars, netVars, evVars, AppUnchanged, Goto

\* The ports are numbered from 1, and a build with the TOE has one, on SPI.
LEMMA PortsFacts ==
  ASSUME build \in BUILDS
  PROVE  /\ LastPort \in Nat \ {0} /\ Ports = 1 .. LastPort /\ 1 \in Ports
         /\ build.internal \in BOOLEAN /\ build.irq \in BOOLEAN /\ build.toe \in BOOLEAN
         /\ build.isr \in {"none", "other"}
         /\ build.toe => LastPort = 1 /\ IsSpi(1)
<1>1. BuildAssumption(build)
  OBVIOUS
<1>2. /\ build.internal \in BOOLEAN /\ build.irq \in BOOLEAN /\ build.toe \in BOOLEAN
      /\ build.isr \in {"none", "other"} /\ build.spi \in Nat /\ (build.internal \/ build.spi > 0)
      /\ build.toe => build.spi = 1 /\ ~build.internal
  BY <1>1 DEF BuildAssumption
<1> DEFINE n == build.spi + IF build.internal THEN 1 ELSE 0
<1>3. n \in Nat /\ n > 0 /\ Ports = 1 .. n
  BY <1>2 DEF Ports
<1>4. LastPort = n
  <2> HIDE DEF n
  <2>1. Cardinality(1 .. n) = n
    BY <1>3, FS_Interval
  <2> QED BY <1>3, <2>1 DEF LastPort
<1> QED BY <1>2, <1>3, <1>4 DEF IsSpi

\* The build stays what it is, and with it the ports.
LEMMA BuildFixed ==
  ASSUME Next
  PROVE  build' = build /\ Ports' = Ports /\ LastPort' = LastPort /\ \A p : IsSpi(p)' = IsSpi(p)
<1>1. CASE EthSteps
  BY <1>1 DEF EthSteps, ExampleEthInit, ExampleEthDeinit, Alloc, InstallIsr, InitBus, NewMac,
     NewPhy, Install, SetMac, Undo, FreeArray, Uninstall, FreeRest, Ports, LastPort, IsSpi
<1>2. CASE AppMain /\ ~EthSteps
  BY <1>2 DEF AppMain, ToePort, Partition, ToeOn, Netif, Attach, Register, Start, CreateToe0,
     StopDispatcher, StopPort, Unregister, Ports, LastPort, IsSpi
<1>3. CASE DispatcherExits \/ EventTask \/ Link \/ Lease \/ Reboot
  BY <1>3 DEF DispatcherExits, EventTask, TakeEvent, CheckToe0, SyncIp, GetNetinfo, SetNetinfo, StartDemo,
     EndHandler, Link, Lease, Reboot, EthReset, Ports, LastPort, IsSpi
<1> QED BY <1>1, <1>2, <1>3 DEF Next, AppMain

\* The types of EthInit's variables are kept.
LEMMA EthTypeStep == ASSUME BInv, Next PROVE EthTypeOK'
<1> USE PortsFacts, BuildFixed DEF BInv
<1>1. CASE Alloc /\ EthSteps
  BY <1>1 DEF EthTypeOK, TypeOK, Alloc, Enter, EthSteps
<1>2. CASE NewMac /\ EthSteps
  BY <1>2 DEF EthTypeOK, TypeOK, NewMac, EthSteps
<1>3. CASE NewPhy /\ EthSteps
  BY <1>3 DEF EthTypeOK, TypeOK, NewPhy, EthSteps
<1>4. CASE Install /\ EthSteps
  BY <1>4 DEF EthTypeOK, TypeOK, PcOK, Install, NextPort, Enter, ResetChip, EthSteps
<1>5. CASE SetMac /\ EthSteps
  BY <1>5 DEF EthTypeOK, TypeOK, SetMac, NextPort, Enter, EthSteps
<1>6. CASE Undo /\ EthSteps
  BY <1>6 DEF EthTypeOK, TypeOK, StartedOK, PcOK, Undo, EthSteps
<1>7. CASE Uninstall /\ EthSteps
  BY <1>7 DEF EthTypeOK, TypeOK, Uninstall, EthSteps
<1>8. CASE FreeRest /\ EthSteps
  BY <1>8 DEF EthTypeOK, TypeOK, FreeRest, EthSteps
<1>9. CASE EthSteps /\ (InstallIsr \/ InitBus \/ FreeArray)
  BY <1>9 DEF EthTypeOK, TypeOK, InstallIsr, InitBus, FreeArray, EthSteps
<1>10. CASE Start
  BY <1>10 DEF EthTypeOK, TypeOK, PortsOK, Start, ForEachPort
<1>11. CASE StopPort
  BY <1>11 DEF EthTypeOK, TypeOK, StopPort, ForEachPort
<1>12. CASE ToePort \/ Partition \/ ToeOn \/ Netif \/ Attach \/ Register \/ CreateToe0
           \/ StopDispatcher \/ DispatcherExits \/ Unregister
  BY <1>12 DEF EthTypeOK, TypeOK, ToePort, Partition, ToeOn, Netif, Attach,
     ForEachPort, Register, CreateToe0, StopDispatcher, DispatcherExits, Unregister
<1>13. CASE Reboot
  BY <1>13 DEF EthTypeOK, TypeOK, Reboot, EthReset
<1>14. CASE TakeEvent \/ CheckToe0 \/ SyncIp \/ GetNetinfo \/ SetNetinfo \/ EndHandler
           \/ (\E d \in Demos : StartDemo(d)) \/ Link \/ Lease
  BY <1>14 DEF EthTypeOK, TypeOK, TakeEvent, CheckToe0, SyncIp, GetNetinfo,
     SetNetinfo, EndHandler, StartDemo, Link, Lease
<1> QED BY <1>1, <1>2, <1>3, <1>4, <1>5, <1>6, <1>7, <1>8, <1>9, <1>10, <1>11, <1>12,
   <1>13, <1>14 DEF Next, AppMain, EthSteps, ExampleEthInit, ExampleEthDeinit,
   EventTask

\* The registers keep their types.
LEMMA ChipTypeStep == ASSUME BInv, Next PROVE ChipOf'
<1> USE PortsFacts, BuildFixed DEF BInv
<1>1. CASE Install /\ EthSteps
  <2>1. [s \in 0 .. LAST |-> IF s = 0 THEN 16 ELSE 0] \in [0 .. LAST -> {0, 2, 16}]
    OBVIOUS
  <2>2. ResetChip \in [mac : {EthMac, NoMac}, ip : Addrs \cup {NoAddr}, gw : Addrs \cup {NoAddr},
                       sock0 : BOOLEAN, kb : [0 .. LAST -> {0, 2, 16}]]
    BY <2>1 DEF ResetChip
  <2>3. chip' \in {chip, ResetChip}
    BY <1>1 DEF Install
  <2> QED BY <2>2, <2>3 DEF TypeOK, ChipOf
<1>2. CASE SetMac /\ EthSteps
  BY <1>2 DEF TypeOK, ChipOf, SetMac, NextPort, Enter, EthSteps
<1>3. CASE EthSteps /\ (Alloc \/ InstallIsr \/ InitBus \/ NewMac \/ NewPhy \/ Undo \/
           FreeArray \/ Uninstall \/ FreeRest)
  BY <1>3 DEF TypeOK, ChipOf, Alloc, Enter, InstallIsr, InitBus, NewMac, NewPhy, Undo,
     FreeArray, Uninstall, FreeRest, EthSteps
<1>4. CASE Partition
  BY <1>4 DEF TypeOK, ChipOf, Partition
<1>5. CASE StopPort
  BY <1>5 DEF TypeOK, ChipOf, StopPort, ForEachPort
<1>6. CASE ToePort \/ ToeOn \/ Netif \/ Attach \/ Register \/ Start \/ CreateToe0 \/
           StopDispatcher \/ DispatcherExits \/ Unregister
  BY <1>6 DEF TypeOK, ChipOf, ToePort, ToeOn, Netif, Attach, ForEachPort, Register,
     Start, CreateToe0, StopDispatcher, DispatcherExits, Unregister
<1>7. CASE SetNetinfo
  BY <1>7 DEF TypeOK, ChipOf, SetNetinfo
<1>8. CASE Link
  <2>1. PICK p \in started :
          chip' = IF build.toe THEN [chip EXCEPT !.sock0 = p \in link'] ELSE chip
    BY <1>8 DEF Link
  <2>2. CASE p \in link'
    <3>1. (p \in link') = TRUE
      BY <2>2
    <3>2. chip' \in {chip, [chip EXCEPT !.sock0 = TRUE]}
      BY <2>1, <3>1
    <3> QED BY <3>2 DEF TypeOK, ChipOf
  <2>3. CASE p \notin link'
    <3>1. (p \in link') = FALSE
      BY <2>3
    <3>2. chip' \in {chip, [chip EXCEPT !.sock0 = FALSE]}
      BY <2>1, <3>1
    <3> QED BY <3>2 DEF TypeOK, ChipOf
  <2> QED BY <2>2, <2>3
<1>9. CASE TakeEvent \/ CheckToe0 \/ SyncIp \/ GetNetinfo \/ EndHandler \/ (\E d \in
           Demos : StartDemo(d)) \/ Lease \/ Reboot
  BY <1>9 DEF TypeOK, ChipOf, TakeEvent, CheckToe0, SyncIp, GetNetinfo, EndHandler,
     StartDemo, Lease, Reboot, EthReset
<1> QED BY <1>1, <1>2, <1>3, <1>4, <1>5, <1>6, <1>7, <1>8, <1>9 DEF Next, AppMain,
   EthSteps, ExampleEthInit, ExampleEthDeinit, EventTask

\* So do Boot's own variables; that a demo's task is not created twice needs that begun
\* records every start.
LEMMA RestTypeStep == ASSUME BInv, Next PROVE RestOK'
<1> USE PortsFacts, BuildFixed DEF BInv
<1>1. CASE EthSteps /\ (Alloc \/ InstallIsr \/ InitBus \/ NewMac \/ NewPhy \/ Install
           \/ SetMac \/ Undo \/ FreeArray \/ Uninstall \/ FreeRest)
  BY <1>1 DEF TypeOK, RestOK, Alloc, Enter, InstallIsr, InitBus, NewMac, NewPhy,
     Install, NextPort, ResetChip, SetMac, Undo, FreeArray, Uninstall, FreeRest,
     EthSteps
<1>2. CASE Partition
  BY <1>2 DEF TypeOK, RestOK, Partition
<1>3. CASE Attach
  BY <1>3 DEF TypeOK, RestOK, EthTypeOK, Attach, ForEachPort
<1>4. CASE StopPort
  BY <1>4 DEF TypeOK, RestOK, StopPort, ForEachPort
<1>5. CASE Unregister
  <2>1. queue' \in Seq(Addrs) /\ Len(queue') <= QUEUE
    <3>1. CASE queue' = queue
      BY <3>1 DEF TypeOK
    <3>2. CASE queue' = <<>>
      BY <3>2
    <3> QED BY <1>5, <3>1, <3>2 DEF Unregister
  <2>2. handlers' \in BOOLEAN /\ loop' \in BOOLEAN
    BY <1>5 DEF TypeOK, Unregister
  <2> QED BY <1>5, <2>1, <2>2 DEF TypeOK, RestOK, Unregister
<1>6. CASE Start
  <2>1. link' \subseteq started'
    BY <1>6 DEF TypeOK, Start
  <2> QED BY <1>6, <2>1 DEF TypeOK, RestOK, Start
<1>7. CASE ToePort
  BY <1>7 DEF TypeOK, RestOK, ToePort
<1>8. CASE CreateToe0
  BY <1>8 DEF TypeOK, RestOK, CreateToe0
<1>9. CASE ToeOn \/ Netif \/ Register \/ StopDispatcher \/ DispatcherExits
  <2>1. /\ s_initialized' \in BOOLEAN /\ dispatcher' \in {"off", "on", "ending"}
        /\ handlers' \in BOOLEAN /\ loop' \in BOOLEAN
    BY <1>9 DEF TypeOK, ToeOn, Netif, Register, StopDispatcher, DispatcherExits
  <2> QED BY <1>9, <2>1 DEF TypeOK, RestOK, ToeOn, Netif, Register, StopDispatcher,
     DispatcherExits
<1>10. CASE TakeEvent
  BY <1>10 DEF TypeOK, RestOK, TakeEvent
<1>11. CASE SyncIp
  BY <1>11 DEF TypeOK, RestOK, SyncIp
<1>12. CASE GetNetinfo
  BY <1>12 DEF TypeOK, RestOK, GetNetinfo
<1>13. CASE \E d \in Demos : StartDemo(d)
  <2>1. PICK d \in Demos : StartDemo(d)
    BY <1>13
  <2>2. tasks' \in [Demos -> {0, 1}]
    <3>1. tasks[d] = 0
      BY <2>1 DEF TypeOK, Toe0OK, StartDemo
    <3> QED BY <2>1, <3>1 DEF TypeOK, StartDemo
  <2> QED BY <2>1, <2>2 DEF TypeOK, RestOK, StartDemo
<1>14. CASE Link
  BY <1>14 DEF TypeOK, RestOK, Link
<1>15. CASE Lease
  BY <1>15 DEF TypeOK, RestOK, Lease
<1>16. CASE Reboot
  <2>1. tasks' \in [Demos -> {0, 1}] /\ queue' \in Seq(Addrs) /\ Len(queue') <= QUEUE
    BY <1>16 DEF Reboot
  <2>2. /\ sn' \in 0 .. LAST /\ toe0' \in Addrs \cup {Null, NoAddr}
        /\ addr' \in Addrs \cup {NoAddr} /\ netinfo' \in {EthMac, NoMac}
    BY <1>16 DEF Reboot
  <2>3. /\ s_initialized' \in BOOLEAN /\ dispatcher' \in {"off", "on", "ending"}
        /\ handlers' \in BOOLEAN /\ loop' \in BOOLEAN
    BY <1>16 DEF Reboot
  <2>4. glue' \subseteq Ports' /\ link' \subseteq started' /\ begun' \subseteq Demos
    BY <1>16 DEF Reboot
  <2>5. ev' = "idle"
    BY <1>16 DEF Reboot
  <2> QED BY <2>1, <2>2, <2>3, <2>4, <2>5 DEF RestOK
<1>17. CASE CheckToe0 \/ SetNetinfo \/ EndHandler
  BY <1>17 DEF TypeOK, RestOK, CheckToe0, SetNetinfo, EndHandler
<1> QED BY <1>1, <1>2, <1>3, <1>4, <1>5, <1>6, <1>10, <1>11, <1>12, <1>13, <1>14, <1>15,
   <1>16, <1>17, <1>9, <1>7, <1>8 DEF Next, AppMain, EthSteps, ExampleEthInit,
   ExampleEthDeinit, EventTask

\* app_main comes to the steps of the TOE only in builds with it.
LEMMA PcStep == ASSUME BInv, Next PROVE PcOK'
<1> USE PortsFacts, BuildFixed DEF BInv
<1>1. CASE EthSteps /\ (Alloc \/ InstallIsr \/ InitBus \/ NewMac \/ NewPhy \/ Install
           \/ SetMac \/ Undo \/ FreeArray \/ Uninstall \/ FreeRest)
  BY <1>1 DEF PcOK, Alloc, Enter, InstallIsr, InitBus, NewMac, NewPhy, Install,
     NextPort, ResetChip, SetMac, Undo, FreeArray, Uninstall, FreeRest, EthSteps
<1>2. CASE ToePort \/ Partition \/ ToeOn \/ Netif \/ Attach \/ Register \/ Start \/
           CreateToe0 \/ StopDispatcher \/ DispatcherExits \/ StopPort \/ Unregister
  BY <1>2 DEF PcOK, ToePort, Partition, ToeOn, Netif, Attach, ForEachPort, Register,
     Start, CreateToe0, StopDispatcher, DispatcherExits, StopPort, Unregister
<1>3. CASE SyncIp
  BY <1>3 DEF PcOK, Toe0OK, SyncIp
<1>4. CASE TakeEvent \/ CheckToe0 \/ GetNetinfo \/ SetNetinfo \/ EndHandler \/ (\E d
           \in Demos : StartDemo(d)) \/ Link \/ Lease \/ Reboot
  BY <1>4 DEF PcOK, TakeEvent, CheckToe0, GetNetinfo, SetNetinfo, EndHandler,
     StartDemo, Link, Lease, Reboot, EthReset
<1> QED BY <1>1, <1>2, <1>3, <1>4 DEF Next, AppMain, EthSteps, ExampleEthInit,
   ExampleEthDeinit, EventTask

\* What is whole stays whole when example_eth_init goes on from a finished port.
LEMMA PortDone ==
  ASSUME build \in BUILDS, Next, NextPort, port \in Ports,
         mac' = phy', phy' = drv', drv' \subseteq Ports, 1 .. port \subseteq drv',
         bus' = bus, IsSpi(port) => bus, SpiUp' => bus
  PROVE  PortsOK'
<1> USE PortsFacts, BuildFixed
<1>1. CASE port < LastPort /\ Enter(port + 1)
  <2>1. port' = port + 1 /\ port' - 1 = port /\ app' \in {"isr", "new_mac"}
    BY <1>1 DEF Enter
  <2>2. app' = "new_mac" /\ IsSpi(port') => IsSpi(port)
    BY <1>1, <2>1 DEF Enter
  <2> QED BY <2>1, <2>2 DEF PortsOK
<1>2. CASE port = LastPort /\ app' = "inited"
  BY <1>2 DEF PortsOK
<1> QED BY <1>1, <1>2 DEF NextPort

\* A port that is brought up or undone leaves the others as they are.
LEMMA PortsStep == ASSUME BInv, Next PROVE PortsOK'
<1> USE PortsFacts, BuildFixed DEF BInv
<1>1. CASE Alloc /\ EthSteps
  BY <1>1 DEF PortsOK, SpiUp, TypeOK, EthTypeOK, Alloc, Enter, EthSteps
<1>2. CASE InitBus /\ EthSteps
  BY <1>2 DEF PortsOK, SpiUp, TypeOK, EthTypeOK, InitBus, EthSteps
<1>3. CASE NewMac /\ EthSteps
  BY <1>3 DEF PortsOK, SpiUp, TypeOK, EthTypeOK, NewMac, EthSteps
<1>4. CASE NewPhy /\ EthSteps
  BY <1>4 DEF PortsOK, SpiUp, TypeOK, EthTypeOK, NewPhy, EthSteps
<1>5. CASE Install /\ EthSteps
  <2>1. CASE app' = "undo"
    BY <1>5, <2>1 DEF PortsOK, SpiUp, TypeOK, EthTypeOK, Install, NextPort, Enter
  <2>2. CASE app' # "undo"
    <3>1. /\ port \in mac \cap phy /\ drv' = drv \cup {port} /\ mac' = mac /\ phy' = phy
          /\ bus' = bus /\ port \in Ports /\ app = "install"
      BY <1>5, <2>2 DEF Install, TypeOK, EthTypeOK
    <3>2. mac' = phy' /\ phy' = drv' /\ drv' \subseteq Ports /\ 1 .. port \subseteq drv'
      <4>1. mac \ {port} = phy \ {port} /\ phy \ {port} = drv \ {port}
        BY DEF PortsOK
      <4>2. mac' = phy'
        <5>1. \A q : q \in mac <=> q \in phy
          BY <3>1, <4>1
        <5> QED BY <3>1, <5>1
      <4>3. phy' = drv'
        BY <3>1, <4>1
      <4>4. drv' \subseteq Ports
        BY <3>1 DEF TypeOK, EthTypeOK
      <4>5. 1 .. port - 1 \subseteq drv
        BY <3>1 DEF PortsOK
      <4>6. port \in Nat \ {0} /\ 1 .. port = (1 .. port - 1) \cup {port}
        BY <3>1 DEF TypeOK, EthTypeOK
      <4> QED BY <3>1, <4>2, <4>3, <4>4, <4>5, <4>6
    <3>3. (IsSpi(port) => bus) /\ (SpiUp' => bus)
      BY <3>1 DEF PortsOK, SpiUp
    <3>4. CASE IsSpi(port) /\ app' = "set_mac" /\ port' = port
      BY <3>1, <3>2, <3>3, <3>4 DEF PortsOK
    <3>5. CASE NextPort
      BY <3>1, <3>2, <3>3, <3>5, PortDone DEF TypeOK, EthTypeOK
    <3> QED BY <1>5, <2>2, <3>4, <3>5 DEF Install
  <2> QED BY <2>1, <2>2
<1>6. CASE SetMac /\ EthSteps
  <2>1. /\ app = "set_mac" /\ port \in Ports /\ mac' = mac /\ phy' = phy /\ drv' = drv /\ bus' = bus
    BY <1>6 DEF SetMac, TypeOK, EthTypeOK
  <2>2. mac = phy /\ phy = drv /\ drv \subseteq Ports /\ 1 .. port \subseteq drv /\ bus
    BY <2>1 DEF PortsOK, TypeOK, EthTypeOK
  <2>3. CASE app' = "undo" /\ port' = port
    BY <2>1, <2>2, <2>3 DEF PortsOK
  <2>4. CASE NextPort
    BY <2>1, <2>2, <2>4, PortDone DEF TypeOK, EthTypeOK
  <2> QED BY <1>6, <2>3, <2>4 DEF SetMac
<1>7. CASE Undo /\ EthSteps
  BY <1>7 DEF PortsOK, SpiUp, TypeOK, EthTypeOK, Undo, EthSteps
<1>8. CASE Uninstall /\ EthSteps
  BY <1>8 DEF PortsOK, SpiUp, TypeOK, EthTypeOK, Uninstall, EthSteps
<1>9. CASE EthSteps /\ (InstallIsr \/ FreeArray)
  BY <1>9 DEF PortsOK, SpiUp, InstallIsr, FreeArray, EthSteps
<1>10. CASE FreeRest
  <2>1. ~SpiUp
    BY <1>10 DEF FreeRest, DownOK, SpiUp
  <2> QED BY <1>10, <2>1 DEF PortsOK, SpiUp, FreeRest
<1>11. CASE Start
  BY <1>11 DEF PortsOK, SpiUp, TypeOK, EthTypeOK, Start, ForEachPort
<1>12. CASE StopPort
  BY <1>12 DEF PortsOK, SpiUp, TypeOK, EthTypeOK, StopPort, ForEachPort
<1>13. CASE ToePort \/ Partition \/ ToeOn \/ Netif \/ Attach \/ Register \/ CreateToe0
           \/ StopDispatcher \/ DispatcherExits \/ Unregister
  BY <1>13 DEF PortsOK, SpiUp, ToePort, Partition, ToeOn, Netif, Attach, ForEachPort,
     Register, CreateToe0, StopDispatcher, DispatcherExits, Unregister
<1>14. CASE Reboot
  BY <1>14 DEF PortsOK, SpiUp, TypeOK, EthTypeOK, Reboot, EthReset
<1>15. CASE TakeEvent \/ CheckToe0 \/ SyncIp \/ GetNetinfo \/ SetNetinfo \/ EndHandler
           \/ (\E d \in Demos : StartDemo(d)) \/ Link \/ Lease
  BY <1>15 DEF PortsOK, SpiUp, TakeEvent, CheckToe0, SyncIp, GetNetinfo, SetNetinfo,
     EndHandler, StartDemo, Link, Lease
<1> QED BY <1>1, <1>2, <1>3, <1>4, <1>5, <1>6, <1>7, <1>8, <1>9, <1>11, <1>12, <1>13,
   <1>14, <1>15, <1>10 DEF Next, AppMain, EthSteps, ExampleEthInit, ExampleEthDeinit,
   EventTask

\* Drivers are stopped in order before anything is uninstalled.
LEMMA StartedStep == ASSUME BInv, Next PROVE StartedOK'
<1> USE PortsFacts, BuildFixed DEF BInv
<1>1. CASE EthSteps /\ (Alloc \/ InstallIsr \/ InitBus \/ NewMac \/ NewPhy \/ Install
           \/ SetMac \/ Undo \/ FreeArray \/ Uninstall \/ FreeRest)
  BY <1>1 DEF StartedOK, Alloc, Enter, InstallIsr, InitBus, NewMac, NewPhy, Install,
     NextPort, ResetChip, SetMac, Undo, FreeArray, Uninstall, FreeRest, EthSteps
<1>2. CASE StopDispatcher \/ DispatcherExits
  BY <1>2 DEF StartedOK, TypeOK, EthTypeOK, PcOK, StopDispatcher, DispatcherExits
<1>3. CASE StopPort
  BY <1>3 DEF StartedOK, TypeOK, EthTypeOK, StopPort, ForEachPort
<1>4. CASE ToePort \/ Partition \/ ToeOn \/ Netif \/ Attach \/ Register \/ Start \/
           CreateToe0 \/ Unregister
  BY <1>4 DEF StartedOK, ToePort, Partition, ToeOn, Netif, Attach, ForEachPort,
     Register, Start, CreateToe0, Unregister
<1>5. CASE TakeEvent \/ CheckToe0 \/ SyncIp \/ GetNetinfo \/ SetNetinfo \/ EndHandler
           \/ (\E d \in Demos : StartDemo(d)) \/ Link \/ Lease \/ Reboot
  BY <1>5 DEF StartedOK, TakeEvent, CheckToe0, SyncIp, GetNetinfo, SetNetinfo,
     EndHandler, StartDemo, Link, Lease, Reboot, EthReset
<1> QED BY <1>1, <1>2, <1>3, <1>4, <1>5 DEF Next, AppMain, EthSteps, ExampleEthInit,
   ExampleEthDeinit, EventTask

\* Once split, the buffers stay so until the chip is reset, and then socket 0 is closed.
LEMMA SplitStep == ASSUME BInv, Next PROVE SplitOK'
<1> USE PortsFacts, BuildFixed DEF BInv
<1>1. CASE SetMac /\ EthSteps
  BY <1>1 DEF SplitOK, EvenSplit, TypeOK, EthTypeOK, SetMac, NextPort, Enter, EthSteps
<1>2. CASE EthSteps /\ (Alloc \/ InstallIsr \/ InitBus \/ NewMac \/ NewPhy \/ Install
           \/ Undo \/ FreeArray \/ Uninstall \/ FreeRest)
  BY <1>2 DEF SplitOK, EvenSplit, Alloc, Enter, InstallIsr, InitBus, NewMac, NewPhy,
     Install, NextPort, ResetChip, Undo, FreeArray, Uninstall, FreeRest, EthSteps
<1>3. CASE ToePort
  BY <1>3 DEF SplitOK, EvenSplit, PcOK, ToePort
<1>4. CASE Partition
  <2>1. CASE ~build.toe
    BY <2>1 DEF SplitOK
  <2>2. CASE build.toe
    <3>1. /\ app = "split" /\ chip.kb \in [0 .. LAST -> {0, 2, 16}] /\ sn \in 0 .. LAST
          /\ chip' = [chip EXCEPT !.kb = [@ EXCEPT ![sn] = 2]] /\ chip'.sock0 = chip.sock0
          /\ chip'.kb = [chip.kb EXCEPT ![sn] = 2]
      BY <1>4 DEF TypeOK, Partition
    <3>2. /\ \A s \in 0 .. sn - 1 : chip.kb[s] = 2
          /\ chip.sock0 => \A s \in 0 .. LAST : chip.kb[s] = 2
      BY <2>2, <3>1 DEF SplitOK, EvenSplit
    <3>3. \A s \in 0 .. LAST : s <= sn \/ chip.sock0 => chip'.kb[s] = 2
      BY <3>1, <3>2
    <3>4. chip'.sock0 => EvenSplit'
      BY <3>1, <3>3 DEF EvenSplit
    <3>5. CASE sn < LAST /\ sn' = sn + 1 /\ app' = "split"
      <4>1. \A s \in 0 .. sn' - 1 : chip'.kb[s] = 2
        BY <3>1, <3>3, <3>5
      <4> QED BY <3>4, <3>5, <4>1 DEF SplitOK
    <3>6. CASE sn = LAST /\ sn' = 0 /\ app' = "toe_on"
      <4>1. EvenSplit'
        BY <3>1, <3>3, <3>6 DEF EvenSplit
      <4> QED BY <3>6, <4>1 DEF SplitOK
    <3> QED BY <1>4, <3>1, <3>5, <3>6 DEF Partition
  <2> QED BY <2>1, <2>2
<1>5. CASE StopPort
  BY <1>5 DEF SplitOK, EvenSplit, TypeOK, EthTypeOK, StopPort, ForEachPort
<1>6. CASE ToeOn \/ Netif \/ Attach \/ Register \/ Start \/ CreateToe0 \/
           StopDispatcher \/ DispatcherExits \/ Unregister
  BY <1>6 DEF SplitOK, EvenSplit, ToeOn, Netif, Attach, ForEachPort, Register, Start,
     CreateToe0, StopDispatcher, DispatcherExits, Unregister
<1>7. CASE SetNetinfo
  BY <1>7 DEF SplitOK, EvenSplit, TypeOK, EthTypeOK, SetNetinfo
<1>8. CASE Link
  BY <1>8 DEF SplitOK, EvenSplit, TypeOK, EthTypeOK, StartedOK, PcOK, Link
<1>9. CASE TakeEvent \/ CheckToe0 \/ SyncIp \/ GetNetinfo \/ EndHandler \/ (\E d \in
           Demos : StartDemo(d)) \/ Lease \/ Reboot
  BY <1>9 DEF SplitOK, EvenSplit, TakeEvent, CheckToe0, SyncIp, GetNetinfo,
     EndHandler, StartDemo, Lease, Reboot, EthReset
<1> QED BY <1>1, <1>2, <1>3, <1>4, <1>5, <1>6, <1>7, <1>8, <1>9 DEF Next, AppMain,
   EthSteps, ExampleEthInit, ExampleEthDeinit, EventTask

\* toe0 is there only after the TOE layer is initialised; a demo needs toe0.
LEMMA Toe0Step == ASSUME BInv, Next PROVE Toe0OK'
<1> USE PortsFacts, BuildFixed DEF BInv
<1>1. CASE EthSteps /\ (Alloc \/ InstallIsr \/ InitBus \/ NewMac \/ NewPhy \/ Install
           \/ SetMac \/ Undo \/ FreeArray \/ Uninstall \/ FreeRest)
  BY <1>1 DEF Toe0OK, Alloc, Enter, InstallIsr, InitBus, NewMac, NewPhy, Install,
     NextPort, ResetChip, SetMac, Undo, FreeArray, Uninstall, FreeRest, EthSteps
<1>2. CASE CreateToe0
  BY <1>2 DEF Toe0OK, PcOK, CreateToe0
<1>3. CASE ToePort \/ Partition \/ ToeOn \/ Netif \/ Attach \/ Register \/ Start \/
           StopDispatcher \/ DispatcherExits \/ StopPort \/ Unregister
  BY <1>3 DEF Toe0OK, ToePort, Partition, ToeOn, Netif, Attach, ForEachPort, Register,
     Start, StopDispatcher, DispatcherExits, StopPort, Unregister
<1>4. CASE SyncIp
  BY <1>4 DEF Toe0OK, ChipOK, SyncIp
<1>5. CASE \E d \in Demos : StartDemo(d)
  BY <1>5 DEF Toe0OK, TypeOK, EthTypeOK, StartDemo
<1>6. CASE TakeEvent \/ CheckToe0 \/ GetNetinfo \/ SetNetinfo \/ EndHandler \/ Link \/
           Lease \/ Reboot
  BY <1>6 DEF Toe0OK, TakeEvent, CheckToe0, GetNetinfo, SetNetinfo, EndHandler, Link,
     Lease, Reboot, EthReset
<1> QED BY <1>1, <1>2, <1>3, <1>4, <1>5, <1>6 DEF Next, AppMain, EthSteps,
   ExampleEthInit, ExampleEthDeinit, EventTask

\* Each write of the address is part of the same handler's sequence, so that at its end
\* address and gateway are from one lease.
LEMMA ChipStep == ASSUME BInv, Next PROVE ChipOK'
<1> USE PortsFacts, BuildFixed DEF BInv
<1>1. CASE NewMac /\ EthSteps
  BY <1>1 DEF ChipOK, SpiUp, PcOK, Toe0OK, NewMac, EthSteps
<1>2. CASE Install /\ EthSteps
  BY <1>2 DEF ChipOK, SpiUp, TypeOK, EthTypeOK, Toe0OK, PcOK, Install, NextPort,
     Enter, ResetChip, EthSteps
<1>3. CASE SetMac /\ EthSteps
  BY <1>3 DEF ChipOK, SpiUp, TypeOK, EthTypeOK, Toe0OK, SetMac, NextPort, Enter,
     EthSteps
<1>4. CASE EthSteps /\ (Alloc \/ InstallIsr \/ InitBus \/ NewPhy \/ Undo \/ FreeArray
           \/ Uninstall \/ FreeRest)
  BY <1>4 DEF ChipOK, SpiUp, Alloc, Enter, InstallIsr, InitBus, NewPhy, Undo,
     FreeArray, Uninstall, FreeRest, EthSteps
<1>5. CASE Partition
  BY <1>5 DEF ChipOK, SpiUp, TypeOK, EthTypeOK, Partition
<1>6. CASE CreateToe0
  BY <1>6 DEF ChipOK, SpiUp, PcOK, Toe0OK, CreateToe0
<1>7. CASE StopPort
  BY <1>7 DEF ChipOK, SpiUp, TypeOK, EthTypeOK, StopPort, ForEachPort
<1>8. CASE ToePort \/ ToeOn \/ Netif \/ Attach \/ Register \/ Start
           \/ StopDispatcher \/ DispatcherExits \/ Unregister
  BY <1>8 DEF ChipOK, SpiUp, ToePort, ToeOn, Netif, Attach, ForEachPort, Register,
     Start, StopDispatcher, DispatcherExits, Unregister
<1>9. CASE TakeEvent
  BY <1>9 DEF ChipOK, SpiUp, TypeOK, EthTypeOK, TakeEvent
<1>10. CASE SyncIp
  BY <1>10 DEF ChipOK, SpiUp, TypeOK, EthTypeOK, Toe0OK, SyncIp
<1>11. CASE GetNetinfo
  BY <1>11 DEF ChipOK, SpiUp, Toe0OK, GetNetinfo
<1>12. CASE SetNetinfo
  BY <1>12 DEF ChipOK, SpiUp, TypeOK, EthTypeOK, Toe0OK, SetNetinfo
<1>13. CASE Link
  BY <1>13 DEF ChipOK, SpiUp, TypeOK, EthTypeOK, Link
<1>14. CASE CheckToe0 \/ EndHandler \/ (\E d \in Demos : StartDemo(d)) \/ Lease \/
           Reboot
  BY <1>14 DEF ChipOK, SpiUp, CheckToe0, EndHandler, StartDemo, Lease, Reboot,
     EthReset
<1> QED BY <1>1, <1>2, <1>3, <1>4, <1>5, <1>6, <1>7, <1>8, <1>9, <1>10, <1>11, <1>12,
   <1>13, <1>14 DEF Next, AppMain, EthSteps, ExampleEthInit, ExampleEthDeinit,
   EventTask

\* The flag says who installed the ISR service.
LEMMA IsrStep == ASSUME BInv, Next PROVE IsrOK'
<1> USE PortsFacts, BuildFixed DEF BInv
<1>1. CASE EthSteps /\ (Alloc \/ InstallIsr \/ InitBus \/ NewMac \/ NewPhy \/ Install
           \/ SetMac \/ Undo \/ FreeArray \/ Uninstall \/ FreeRest)
  BY <1>1 DEF IsrOK, Alloc, Enter, InstallIsr, InitBus, NewMac, NewPhy, Install,
     NextPort, ResetChip, SetMac, Undo, FreeArray, Uninstall, FreeRest, EthSteps
<1>2. CASE ToePort \/ Partition \/ ToeOn \/ Netif \/ Attach \/ Register \/ Start \/
           CreateToe0 \/ StopDispatcher \/ DispatcherExits \/ StopPort \/ Unregister
  BY <1>2 DEF IsrOK, ToePort, Partition, ToeOn, Netif, Attach, ForEachPort, Register,
     Start, CreateToe0, StopDispatcher, DispatcherExits, StopPort, Unregister
<1>3. CASE TakeEvent \/ CheckToe0 \/ SyncIp \/ GetNetinfo \/ SetNetinfo \/ EndHandler
           \/ (\E d \in Demos : StartDemo(d)) \/ Link \/ Lease \/ Reboot
  BY <1>3 DEF IsrOK, TakeEvent, CheckToe0, SyncIp, GetNetinfo, SetNetinfo, EndHandler,
     StartDemo, Link, Lease, Reboot, EthReset
<1> QED BY <1>1, <1>2, <1>3 DEF Next, AppMain, EthSteps, ExampleEthInit,
   ExampleEthDeinit, EventTask

\* The tear-down takes away its part at each step.
LEMMA DownStep == ASSUME BInv, Next PROVE DownOK'
<1> USE PortsFacts, BuildFixed DEF BInv
<1>1. CASE Uninstall /\ EthSteps
  BY <1>1 DEF DownOK, SpiUp, TypeOK, EthTypeOK, PortsOK, Uninstall, EthSteps
<1>2. CASE FreeRest /\ EthSteps
  BY <1>2 DEF DownOK, SpiUp, PortsOK, IsrOK, FreeRest, EthSteps
<1>3. CASE EthSteps /\ (Alloc \/ InstallIsr \/ InitBus \/ NewMac \/ NewPhy \/ Install
           \/ SetMac \/ Undo \/ FreeArray)
  BY <1>3 DEF DownOK, SpiUp, Alloc, Enter, InstallIsr, InitBus, NewMac, NewPhy,
     Install, NextPort, ResetChip, SetMac, Undo, FreeArray, EthSteps
<1>4. CASE StopPort
  BY <1>4 DEF DownOK, SpiUp, TypeOK, EthTypeOK, StopPort, ForEachPort
<1>5. CASE ToePort \/ Partition \/ ToeOn \/ Netif \/ Attach \/ Register \/ Start \/
           CreateToe0 \/ StopDispatcher \/ DispatcherExits \/ Unregister
  BY <1>5 DEF DownOK, SpiUp, ToePort, Partition, ToeOn, Netif, Attach, ForEachPort,
     Register, Start, CreateToe0, StopDispatcher, DispatcherExits, Unregister
<1>6. CASE TakeEvent \/ CheckToe0 \/ SyncIp \/ GetNetinfo \/ SetNetinfo \/ EndHandler
           \/ (\E d \in Demos : StartDemo(d)) \/ Link \/ Lease \/ Reboot
  BY <1>6 DEF DownOK, SpiUp, TakeEvent, CheckToe0, SyncIp, GetNetinfo, SetNetinfo,
     EndHandler, StartDemo, Link, Lease, Reboot, EthReset
<1> QED BY <1>1, <1>2, <1>3, <1>4, <1>5, <1>6 DEF Next, AppMain, EthSteps,
   ExampleEthInit, ExampleEthDeinit, EventTask

\* The parts of the type invariant together.
LEMMA TypeStep == ASSUME BInv, Next PROVE TypeOK'
BY EthTypeStep, ChipTypeStep, RestTypeStep DEF TypeOK, ChipOf, RestOK

-------------------------------------------------------------------------------
(* The theorems. *)

\* BInv holds at reset, whatever the build.
LEMMA InitBInv == Init => BInv
<1> SUFFICES ASSUME Init PROVE BInv
  OBVIOUS
<1> USE PortsFacts DEF Init, EthInitial
<1>1. [s \in 0 .. LAST |-> IF s = 0 THEN 16 ELSE 0] \in [0 .. LAST -> {0, 2, 16}]
  OBVIOUS
<1>2. ChipOf
  BY <1>1 DEF ChipOf, ResetChip
<1>3. EthTypeOK
  BY DEF EthTypeOK
<1>4. tasks \in [Demos -> {0, 1}] /\ queue \in Seq(Addrs) /\ Len(queue) <= QUEUE
  OBVIOUS
<1>5. RestOK
  <2>1. s_initialized \in BOOLEAN /\ dispatcher \in {"off", "on", "ending"}
        /\ handlers \in BOOLEAN /\ loop \in BOOLEAN
    OBVIOUS
  <2>2. sn \in 0 .. LAST /\ glue \subseteq Ports /\ link \subseteq started /\ begun \subseteq Demos
    OBVIOUS
  <2>3. toe0 \in Addrs \cup {Null, NoAddr} /\ addr \in Addrs \cup {NoAddr} /\ netinfo \in {EthMac, NoMac}
    OBVIOUS
  <2>4. ev = "idle"
    OBVIOUS
  <2> QED BY <1>4, <2>1, <2>2, <2>3, <2>4 DEF RestOK
<1>6. PcOK /\ StartedOK /\ Toe0OK /\ DownOK /\ IsrOK
  BY DEF PcOK, StartedOK, Toe0OK, DownOK, IsrOK
<1>7. PortsOK /\ ChipOK
  BY DEF PortsOK, ChipOK, SpiUp
<1>8. SplitOK
  BY DEF SplitOK, ResetChip
<1> QED BY <1>2, <1>3, <1>5, <1>6, <1>7, <1>8 DEF BInv, TypeOK, ChipOf, RestOK

\* BInv is kept by every step, and by stuttering.
LEMMA NextBInv == ASSUME BInv, [Next]_vars PROVE BInv'
<1>1. CASE Next
  BY <1>1, TypeStep, PcStep, PortsStep, StartedStep, SplitStep, Toe0Step, ChipStep,
     IsrStep, DownStep DEF BInv
<1>2. CASE UNCHANGED vars
  <2>1. TypeOK'
    BY <1>2 DEF vars, BInv, TypeOK, EthTypeOK, Ports
  <2>2. PcOK' /\ PortsOK' /\ StartedOK' /\ SplitOK'
    BY <1>2 DEF vars, BInv, PcOK, PortsOK, StartedOK, SplitOK, EvenSplit, SpiUp, IsSpi, Ports
  <2>3. Toe0OK' /\ ChipOK' /\ IsrOK' /\ DownOK'
    BY <1>2 DEF vars, BInv, Toe0OK, ChipOK, IsrOK, DownOK, SpiUp, IsSpi
  <2> QED BY <2>1, <2>2, <2>3 DEF BInv
<1> QED BY <1>1, <1>2

\* The inductive invariant holds in every behaviour of the program.
THEOREM BootInductive == Spec => []BInv
BY InitBInv, NextBInv, PTL DEF Spec

\* Every variable keeps its type: ports stay in range, at most one task of each demo
\* ever runs, and the driver of a port is never there without its MAC and PHY.
THEOREM BootTypeCorrect == Spec => []TypeOK
<1>1. BInv => TypeOK
  BY DEF BInv
<1> QED BY <1>1, BootInductive, PTL

\* However example_eth_init fails, and through tear-down and restarts, no port is
\* left with a part of its MAC, PHY and driver, and no SPI device without its bus.
THEOREM PortsWholeAlways == Spec => []PortsWhole
<1>1. BInv => PortsWhole
  BY DEF BInv, PortsOK, PcOK, PortsWhole
<1> QED BY <1>1, BootInductive, PTL

\* wiznet_toe_partition_sockets is always through before esp_eth opens socket 0.
THEOREM SplitBeforeOpenAlways == Spec => []SplitBeforeOpen
<1>1. BInv => SplitBeforeOpen
  BY DEF BInv, SplitOK, EvenSplit, SplitBeforeOpen
<1> QED BY <1>1, BootInductive, PTL

\* Between two address events toe0 and the chip agree, and the chip's MAC address is
\* still that of esp_eth.
THEOREM Toe0InStepAlways == Spec => []Toe0InStep
<1>1. BInv => Toe0InStep
  BY DEF BInv, TypeOK, Toe0OK, ChipOK, Toe0InStep
<1> QED BY <1>1, BootInductive, PTL

\* No demo runs on a chip that has no address.
THEOREM DemosHaveAddressAlways == Spec => []DemosHaveAddress
<1>1. BInv => DemosHaveAddress
  BY DEF BInv, ChipOK, DemosHaveAddress
<1> QED BY <1>1, BootInductive, PTL

\* ethernet_example_main.c:316-333: a tear-down that gets to its end has taken away
\* what was made for Ethernet, nothing of others, and nothing of the TOE layer, which
\* goes on saying that it is up.
THEOREM TearDownExactAlways == Spec => []TearDownExact
<1>1. BInv => TearDownExact
  BY DEF BInv, PcOK, PortsOK, StartedOK, Toe0OK, DownOK, TearDownExact
<1> QED BY <1>1, BootInductive, PTL

===============================================================================
