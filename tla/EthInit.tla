------------------------------- MODULE EthInit -------------------------------
(***************************************************************************)
(* ethernet_init.c: bringing the Ethernet ports up and down.  Every call   *)
(* may fail, and what each failure leaves behind is state here: MAC and    *)
(* PHY objects, installed drivers, the SPI bus, the GPIO ISR service, the  *)
(* array of handles.  A MAC object of a SPI port owns its SPI device.      *)
(*                                                                         *)
(* app says where app_main is; Boot continues it where this module ends    *)
(* ("inited", "deinited") and restarts the board where it has "failed".    *)
(***************************************************************************)
EXTENDS Naturals, FiniteSets

CONSTANTS BUILDS,        \* the configurations
          LAST,          \* the last hardware socket (7 on the W5500)
          EthMac, NoMac, \* what esp_eth puts into SHAR, and no address
          NoAddr

(* A build: the internal EMAC, the number of SPI modules, interrupts instead of    *)
(* polling, the TOE, tear-down at the end; isr is the state of the GPIO ISR        *)
(* service before Ethernet comes up.  The TOE wants a single W5500                 *)
(* (ethernet_init.c:221).                                                          *)
BuildAssumption(b) ==
  /\ {b.internal, b.irq, b.toe, b.deinit} \subseteq BOOLEAN
  /\ b.spi \in 0 .. 2 /\ b.isr \in {"none", "other"} /\ (b.internal \/ b.spi > 0)
  /\ b.toe => b.spi = 1 /\ ~b.internal

ASSUME BuildsAssumption == \A b \in BUILDS : BuildAssumption(b)
ASSUME ConstantsAssumption == LAST \in 1 .. 7 /\ EthMac # NoMac

VARIABLES build,
          app, port,      \* where app_main is, and the port it is at
          array,          \* eth_handles is allocated
          mac, phy, drv,  \* the ports that have a MAC, a PHY, an installed driver
          started,        \* the ports whose driver is started
          bus,            \* the SPI bus is initialised
          isr,            \* the GPIO ISR service: "none", "eth" or "other" who installed it
          gpio_isr_svc_init_by_eth,
          chip            \* registers of the W5500 that esp_eth and ioLibrary share

objects == <<mac, phy, drv>>
service == <<isr, gpio_isr_svc_init_by_eth>>
ethVars == <<build, app, port, array, objects, started, bus, service, chip>>

Ports == 1 .. build.spi + IF build.internal THEN 1 ELSE 0
IsSpi(p) == ~(build.internal /\ p = 1)
LastPort == Cardinality(Ports)

\* The device both drivers use (TOE builds have one port).
SpiUp == \E p \in mac : IsSpi(p)

\* After a reset esp_eth gives socket 0, still closed, all of the buffers.
ResetChip == [mac |-> NoMac, ip |-> NoAddr, gw |-> NoAddr, sock0 |-> FALSE,
              kb |-> [s \in 0 .. LAST |-> IF s = 0 THEN 16 ELSE 0]]

EthInitial ==
  /\ app = "alloc" /\ port = 1 /\ array = FALSE
  /\ mac = {} /\ phy = {} /\ drv = {} /\ started = {} /\ bus = FALSE
  /\ isr = build.isr /\ gpio_isr_svc_init_by_eth = FALSE

\* The same after a restart.
EthReset ==
  /\ app' = "alloc" /\ port' = 1 /\ array' = FALSE
  /\ mac' = {} /\ phy' = {} /\ drv' = {} /\ started' = {} /\ bus' = FALSE
  /\ isr' = build.isr /\ gpio_isr_svc_init_by_eth' = FALSE
  /\ UNCHANGED <<build, chip>>

-------------------------------------------------------------------------------
(* example_eth_init *)

\* The ports in order; the bus comes up before the first SPI port.
Enter(p) == /\ port' = p
            /\ app' = IF IsSpi(p) /\ (p = 1 \/ ~IsSpi(p - 1)) THEN "isr" ELSE "new_mac"

NextPort == \/ port < LastPort /\ Enter(port + 1)
            \/ port = LastPort /\ app' = "inited" /\ port' = 1

Alloc ==
  /\ app = "alloc"
  /\ \/ array' = TRUE /\ Enter(1)
     \/ app' = "failed" /\ UNCHANGED <<array, port>>
  /\ UNCHANGED <<build, objects, started, bus, service, chip>>

\* Bug: the flag is set also when somebody else has installed the service.
InstallIsrClaims ==
  /\ app = "isr" /\ app' = "bus"
  /\ isr' = IF build.irq /\ isr = "none" THEN "eth" ELSE isr
  /\ gpio_isr_svc_init_by_eth' = build.irq
  /\ UNCHANGED <<build, port, array, objects, started, bus, chip>>

\* The first half of spi_bus_init.
InstallIsr ==
  /\ app = "isr"
  /\ \/ /\ build.irq /\ isr = "none"
        /\ isr' = "eth" /\ gpio_isr_svc_init_by_eth' = TRUE /\ app' = "bus"
     \/ /\ build.irq => isr = "other"  \* ESP_ERR_INVALID_STATE is no failure
        /\ app' = "bus" /\ UNCHANGED service
     \/ /\ build.irq
        /\ app' = "free" /\ UNCHANGED service
  /\ UNCHANGED <<build, port, array, objects, started, bus, chip>>

\* The rest of it, and the factory address the ports' addresses derive from.
InitBus ==
  /\ \/ app = "bus" /\ bus' = TRUE /\ app' = "efuse"
     \/ app = "bus" /\ app' = "free" /\ UNCHANGED bus
     \/ app = "efuse" /\ app' \in {"new_mac", "free"} /\ UNCHANGED bus
  /\ UNCHANGED <<build, port, array, objects, started, service, chip>>

\* eth_init_internal, eth_init_spi: objects that could not be made are NULL, which
\* the installation refuses.
NewMac ==
  /\ app = "new_mac" /\ app' = "new_phy"
  /\ mac' \in {mac, mac \cup {port}}
  /\ UNCHANGED <<build, port, array, phy, drv, started, bus, service, chip>>

NewPhy ==
  /\ app = "new_phy" /\ app' = "install"
  /\ phy' \in {phy, phy \cup {port}}
  /\ UNCHANGED <<build, port, array, mac, drv, started, bus, service, chip>>

Install ==
  /\ app = "install"
  /\ \/ /\ port \in mac \cap phy
        /\ drv' = drv \cup {port}
        /\ chip' = IF build.toe THEN ResetChip ELSE chip
        /\ \/ IsSpi(port) /\ app' = "set_mac" /\ UNCHANGED port
           \/ ~IsSpi(port) /\ NextPort
     \/ app' = "undo" /\ UNCHANGED <<drv, chip, port>>
  /\ UNCHANGED <<build, array, mac, phy, started, bus, service>>

SetMac ==
  /\ app = "set_mac"
  /\ \/ chip' = (IF build.toe THEN [chip EXCEPT !.mac = EthMac] ELSE chip) /\ NextPort
     \/ app' = "undo" /\ UNCHANGED <<chip, port>>
  /\ UNCHANGED <<build, array, objects, started, bus, service>>

\* Bug: the PHY is forgotten on the error path.
UndoForgetsPhy ==
  /\ app = "undo" /\ app' = "free"
  /\ drv' = drv \ {port} /\ mac' = mac \ {port}
  /\ UNCHANGED <<build, port, array, phy, started, bus, service, chip>>

\* The error path of one port.
Undo ==
  /\ app = "undo" /\ app' = "free"
  /\ drv' = drv \ {port} /\ mac' = mac \ {port} /\ phy' = phy \ {port}
  /\ UNCHANGED <<build, port, array, started, bus, service, chip>>

\* The error path of example_eth_init: the ports before, the bus and the ISR service
\* stay as they are.
FreeArray ==
  /\ app = "free" /\ app' = "failed"
  /\ array' = FALSE
  /\ UNCHANGED <<build, port, objects, started, bus, service, chip>>

ExampleEthInit == \/ Alloc \/ InstallIsr \/ InitBus \/ NewMac \/ NewPhy \/ Install
                  \/ SetMac \/ Undo \/ FreeArray

-------------------------------------------------------------------------------
(* example_eth_deinit *)

\* A driver that is not stopped cannot be uninstalled; then all that follows is left.
Uninstall ==
  /\ app = "uninstall"
  /\ \/ /\ port \notin started
        /\ drv' = drv \ {port} /\ mac' = mac \ {port} /\ phy' = phy \ {port}
        /\ \/ port < LastPort /\ port' = port + 1 /\ UNCHANGED app
           \/ port = LastPort /\ port' = 1 /\ app' = "free_bus"
     \/ app' = "failed" /\ UNCHANGED <<objects, port>>
  /\ UNCHANGED <<build, array, started, bus, service, chip>>

\* spi_bus_free, whose refusal while a device is left goes unseen; the ISR service
\* only if it is ours; the array.
FreeRest ==
  /\ app = "free_bus" /\ app' = "deinited"
  /\ bus' = (bus /\ SpiUp)
  /\ isr' = IF build.irq /\ gpio_isr_svc_init_by_eth THEN "none" ELSE isr
  /\ array' = FALSE
  /\ UNCHANGED <<build, port, objects, started, gpio_isr_svc_init_by_eth, chip>>

ExampleEthDeinit == Uninstall \/ FreeRest

-------------------------------------------------------------------------------
(* Properties *)

EthTypeOK ==
  /\ build \in BUILDS /\ port \in Ports /\ array \in BOOLEAN
  /\ mac \subseteq Ports /\ phy \subseteq Ports /\ drv \subseteq mac \cap phy
  /\ started \subseteq drv /\ bus \in BOOLEAN
  /\ isr \in {"none", "eth", "other"} /\ gpio_isr_svc_init_by_eth \in BOOLEAN

\* However far a port got before it failed, nothing of it is left: outside the
\* bring-up of a port, MAC, PHY and driver come together, and the SPI bus is there as
\* long as a port's device is on it.
PortsWhole ==
  /\ app \notin {"new_mac", "new_phy", "install", "set_mac", "undo"} => mac = phy /\ phy = drv
  /\ SpiUp => bus
===============================================================================
