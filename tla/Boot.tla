--------------------------------- MODULE Boot ---------------------------------
(***************************************************************************)
(* The program from reset to its running state and, in builds that do so,  *)
(* to its tear-down: app_main of ethernet_example_main.c over EthInit, the *)
(* TOE layer's initialisation (wiznet_toe.c), the toe0 netif               *)
(* (toe_netif.c), and the event task, which hands each address eth0 gets   *)
(* to toe0 and to the chip and starts the demos.                           *)
(*                                                                         *)
(* app is where app_main is, ev where the event task is in                 *)
(* got_ip_event_handler.  An ESP_ERROR_CHECK that fails restarts the       *)
(* board; the W5500 keeps its registers until esp_eth resets it.           *)
(***************************************************************************)
EXTENDS EthInit, Sequences

CONSTANTS Addrs,     \* addresses a lease may bring (with netmask and gateway)
          Demos,     \* the demos built: "echo", "bsd", "client"
          QUEUE,     \* bound: address events waiting (32 in ESP-IDF's default)
          Null       \* no toe0

ASSUME BootAssumption ==
  /\ Demos \subseteq {"echo", "bsd", "client"} /\ QUEUE \in Nat \ {0}
  /\ Null # NoAddr /\ {Null, NoAddr} \cap Addrs = {}

VARIABLES sn,             \* the socket wiznet_toe_partition_sockets is at
          s_initialized,
          dispatcher,     \* its task: "off", "on", or "ending" (told to stop, not yet gone)
          glue,           \* the ports that have a netif, attached to their driver
          handlers, loop, \* handlers registered, event loop there
          toe0,           \* s_toe_netif: Null, or the address of the netif
          link,           \* the ports whose link is up
          queue,          \* address events not yet handled
          ev, addr,       \* where the handler is, and with which address
          netinfo,        \* the MAC address it has read from the chip
          begun,          \* s_started of the servers, bsd_client_started
          tasks           \* how many tasks of each demo run

toeVars   == <<sn, s_initialized, dispatcher>>
netVars   == <<glue, handlers, loop>>
evVars    == <<ev, addr, netinfo, begun, tasks>>
vars == <<ethVars, toeVars, netVars, toe0, link, queue, evVars>>

Init ==
  /\ build \in BUILDS /\ chip = ResetChip /\ EthInitial
  /\ sn = 0 /\ s_initialized = FALSE /\ dispatcher = "off"
  /\ glue = {} /\ handlers = FALSE /\ loop = FALSE /\ toe0 = Null /\ link = {}
  /\ queue = <<>> /\ ev = "idle" /\ addr = NoAddr /\ netinfo = NoMac
  /\ begun = {} /\ tasks = [d \in Demos |-> 0]

\* A step of app_main that goes on with one of steps.
Goto(from, steps) == app = from /\ app' \in steps

-------------------------------------------------------------------------------
(* wiznet_toe_init *)

\* wiznet_spi_port_init needs the device esp_eth has made.
ToePort ==
  /\ \/ Goto("inited", {"netif"}) /\ ~build.toe
     \/ Goto("inited", {"split"}) /\ build.toe /\ SpiUp
     \/ Goto("inited", {"failed"}) /\ build.toe /\ ~SpiUp
  /\ UNCHANGED <<build, port, array, objects, started, bus, service, chip>>
  /\ UNCHANGED <<toeVars, netVars, toe0, link, queue, evVars>>

\* Bug: socket 0, which is esp_eth's, keeps its buffers.
PartitionFrom1 ==
  /\ app = "split"
  /\ chip' = IF sn = 0 THEN chip ELSE [chip EXCEPT !.kb[sn] = 2]
  /\ \/ sn < LAST /\ sn' = sn + 1 /\ UNCHANGED app
     \/ sn = LAST /\ sn' = 0 /\ app' = "toe_on"
  /\ UNCHANGED <<build, port, array, objects, started, bus, service>>
  /\ UNCHANGED <<s_initialized, dispatcher, netVars, toe0, link, queue, evVars>>

\* wiznet_toe_partition_sockets, a socket at a time.
Partition ==
  /\ app = "split"
  /\ chip' = [chip EXCEPT !.kb[sn] = 2]
  /\ \/ sn < LAST /\ sn' = sn + 1 /\ UNCHANGED app
     \/ sn = LAST /\ sn' = 0 /\ app' = "toe_on"
  /\ UNCHANGED <<build, port, array, objects, started, bus, service>>
  /\ UNCHANGED <<s_initialized, dispatcher, netVars, toe0, link, queue, evVars>>

\* The timeout and, if it is built in, the dispatcher; either may fail, with
\* s_initialized still false.
ToeOn ==
  /\ \/ Goto("toe_on", {"netif"}) /\ s_initialized' = TRUE /\ dispatcher' \in {"off", "on"}
     \/ Goto("toe_on", {"failed"}) /\ UNCHANGED <<s_initialized, dispatcher>>
  /\ UNCHANGED <<build, port, array, objects, started, bus, service, chip>>
  /\ UNCHANGED <<sn, netVars, toe0, link, queue, evVars>>

-------------------------------------------------------------------------------
(* app_main, from the netifs on *)

\* esp_netif_init, the event loop.
Netif ==
  /\ Goto("netif", {"attach", "failed"})
  /\ loop' = (app' = "attach")
  /\ UNCHANGED <<build, port, array, objects, started, bus, service, chip>>
  /\ UNCHANGED <<toeVars, glue, handlers, toe0, link, queue, evVars>>

\* What app_main does port by port.
ForEachPort(from, next) ==
  \/ port < LastPort /\ port' = port + 1 /\ app' = from
  \/ port = LastPort /\ port' = 1 /\ app' = next

Attach ==
  /\ app = "attach"
  /\ \/ glue' = glue \cup {port} /\ ForEachPort("attach", "register")
     \/ app' = "failed" /\ UNCHANGED <<glue, port>>
  /\ UNCHANGED <<build, array, objects, started, bus, service, chip>>
  /\ UNCHANGED <<toeVars, handlers, loop, toe0, link, queue, evVars>>

Register ==
  /\ Goto("register", {"start", "failed"})
  /\ handlers' = (app' = "start")
  /\ UNCHANGED <<build, port, array, objects, started, bus, service, chip>>
  /\ UNCHANGED <<toeVars, glue, loop, toe0, link, queue, evVars>>

Start ==
  /\ app = "start"
  /\ \/ started' = started \cup {port}
        /\ ForEachPort("start", IF build.toe THEN "toe0" ELSE "running")
     \/ app' = "failed" /\ UNCHANGED <<started, port>>
  /\ UNCHANGED <<build, array, objects, bus, service, chip>>
  /\ UNCHANGED <<toeVars, netVars, toe0, link, queue, evVars>>

\* The MAC address of toe0 is read, the netif made; the address comes later.
CreateToe0 ==
  /\ \/ Goto("toe0", {"running"}) /\ toe0' = NoAddr
     \/ Goto("toe0", {"failed"}) /\ UNCHANGED toe0
  /\ UNCHANGED <<build, port, array, objects, started, bus, service, chip>>
  /\ UNCHANGED <<toeVars, netVars, link, queue, evVars>>

\* EXAMPLE_ETH_DEINIT_AFTER_S has passed: the dispatcher is told to stop, and app_main
\* waits until it is gone or the 20 rounds are over.
StopDispatcher ==
  /\ build.deinit
  /\ \/ /\ Goto("running", {"stop_wait"}) /\ dispatcher = "on" /\ dispatcher' = "ending"
     \/ /\ Goto("running", {"stop"}) /\ dispatcher # "on" /\ UNCHANGED dispatcher
     \/ /\ Goto("stop_wait", {"stop"}) /\ UNCHANGED dispatcher
  /\ UNCHANGED <<build, port, array, objects, started, bus, service, chip>>
  /\ UNCHANGED <<sn, s_initialized, netVars, toe0, link, queue, evVars>>

\* The task deletes itself when it next looks at the flag, whenever that is.
DispatcherExits ==
  /\ dispatcher = "ending" /\ dispatcher' = "off"
  /\ UNCHANGED <<ethVars, sn, s_initialized, netVars, toe0, link, queue, evVars>>

\* esp_eth_stop (which closes socket 0), the glue, the netif.
StopPort ==
  /\ app = "stop"
  /\ \/ /\ started' = started \ {port} /\ glue' = glue \ {port} /\ link' = link \ {port}
        /\ chip' = [chip EXCEPT !.sock0 = FALSE]
        /\ ForEachPort("stop", "uninstall")
     \/ app' = "failed" /\ UNCHANGED <<started, glue, link, chip, port>>
  /\ UNCHANGED <<build, array, objects, bus, service>>
  /\ UNCHANGED <<toeVars, handlers, loop, toe0, queue, evVars>>

\* The handlers go, then the event loop; each waits for a handler that is running.
Unregister ==
  /\ ev = "idle"
  /\ \/ Goto("deinited", {"delete_loop"}) /\ handlers' = FALSE /\ UNCHANGED <<loop, queue>>
     \/ Goto("delete_loop", {"done"}) /\ loop' = FALSE /\ queue' = <<>> /\ UNCHANGED handlers
     \/ Goto("deinited", {"failed"}) /\ UNCHANGED <<handlers, loop, queue>>
     \/ Goto("delete_loop", {"failed"}) /\ UNCHANGED <<handlers, loop, queue>>
  /\ UNCHANGED <<build, port, array, objects, started, bus, service, chip>>
  /\ UNCHANGED <<toeVars, glue, toe0, link, evVars>>

\* A failed check in app_main, or in the event task.
Reboot ==
  /\ app = "failed" \/ ev = "failed"
  /\ EthReset
  /\ sn' = 0 /\ s_initialized' = FALSE /\ dispatcher' = "off"
  /\ glue' = {} /\ handlers' = FALSE /\ loop' = FALSE /\ toe0' = Null /\ link' = {}
  /\ queue' = <<>> /\ ev' = "idle" /\ addr' = NoAddr /\ netinfo' = NoMac
  /\ begun' = {} /\ tasks' = [d \in Demos |-> 0]

EthSteps == /\ ExampleEthInit \/ ExampleEthDeinit
            /\ UNCHANGED <<toeVars, netVars, toe0, link, queue, evVars>>

AppMain == \/ EthSteps \/ ToePort \/ Partition \/ ToeOn \/ Netif \/ Attach \/ Register
           \/ Start \/ CreateToe0 \/ StopDispatcher \/ StopPort \/ Unregister

-------------------------------------------------------------------------------
(* The event task: got_ip_event_handler. *)

AppUnchanged == UNCHANGED <<build, app, port, array, objects, started, bus, service,
                            toeVars, netVars, link>>

\* An event whose handler is gone is dropped.
TakeEvent ==
  /\ ev = "idle" /\ queue # <<>>
  /\ queue' = Tail(queue)
  /\ \/ handlers /\ ev' = "check" /\ addr' = Head(queue)
     \/ ~handlers /\ UNCHANGED <<ev, addr>>
  /\ AppUnchanged /\ UNCHANGED <<chip, toe0, netinfo, begun, tasks>>

\* Bug: the demos are started although there is no toe0 yet.
CheckToe0Starts ==
  /\ ev = "check"
  /\ ev' = IF toe0 # Null THEN "sync" ELSE "demos"
  /\ AppUnchanged /\ UNCHANGED <<chip, toe0, queue, addr, netinfo, begun, tasks>>

CheckToe0 ==
  /\ ev = "check"
  /\ ev' = IF toe0 # Null THEN "sync" ELSE "idle"
  /\ AppUnchanged /\ UNCHANGED <<chip, toe0, queue, addr, netinfo, begun, tasks>>

\* Bug: only the first address is passed on.
SyncIpOnce ==
  /\ ev = "sync"
  /\ \/ toe0 = NoAddr /\ toe0' = addr /\ ev' = "get"
     \/ toe0 # NoAddr /\ ev' = "demos" /\ UNCHANGED toe0
  /\ AppUnchanged /\ UNCHANGED <<chip, queue, addr, netinfo, begun, tasks>>

\* wiznet_toe_netif_sync_ip
SyncIp ==
  /\ ev = "sync"
  /\ \/ toe0' = addr /\ ev' = "get"
     \/ ev' = "failed" /\ UNCHANGED toe0
  /\ AppUnchanged /\ UNCHANGED <<chip, queue, addr, netinfo, begun, tasks>>

\* Bug: the chip's own settings are not read first.
GetNetinfoNot ==
  /\ ev = "get"
  /\ ev' = IF s_initialized THEN "set_mac" ELSE "failed"
  /\ AppUnchanged /\ UNCHANGED <<chip, toe0, queue, addr, netinfo, begun, tasks>>

\* wiznet_toe_apply_ip_to_chip reads all settings, replaces the address and writes all
\* of them back, register by register.  Without the device reads give 0 and writes
\* go nowhere.
GetNetinfo ==
  /\ ev = "get"
  /\ \/ s_initialized /\ ev' = "set_mac" /\ netinfo' = (IF SpiUp THEN chip.mac ELSE NoMac)
     \/ ~s_initialized /\ ev' = "failed" /\ UNCHANGED netinfo
  /\ AppUnchanged /\ UNCHANGED <<chip, toe0, queue, addr, begun, tasks>>

SetNetinfo ==
  /\ \/ ev = "set_mac" /\ ev' = "set_gw" /\ chip' = (IF SpiUp THEN [chip EXCEPT !.mac = netinfo] ELSE chip)
     \/ ev = "set_gw" /\ ev' = "set_ip"  /\ chip' = (IF SpiUp THEN [chip EXCEPT !.gw = addr] ELSE chip)
     \/ ev = "set_ip" /\ ev' = "demos"   /\ chip' = (IF SpiUp THEN [chip EXCEPT !.ip = addr] ELSE chip)
  /\ AppUnchanged /\ UNCHANGED <<toe0, queue, addr, netinfo, begun, tasks>>

\* Bug: nothing remembers that a demo runs.
StartDemoAgain(d) ==
  /\ ev = "demos"
  /\ tasks' = [tasks EXCEPT ![d] = @ + 1]
  /\ AppUnchanged /\ UNCHANGED <<ev, chip, toe0, queue, addr, netinfo, begun>>

\* wiznet_toe_start_echo_server and wiznet_toe_start_bsd_echo remember a start only if
\* the task could be created; the client's start is remembered in any case.
StartDemo(d) ==
  /\ ev = "demos" /\ d \notin begun
  /\ \/ tasks' = [tasks EXCEPT ![d] = @ + 1] /\ begun' = begun \cup {d}
     \/ d = "client" /\ begun' = begun \cup {d} /\ UNCHANGED tasks
  /\ AppUnchanged /\ UNCHANGED <<ev, chip, toe0, queue, addr, netinfo>>

\* The end of the handler; servers not created are left for the next address.
EndHandler ==
  /\ ev = "demos" /\ Demos \cap {"client"} \subseteq begun
  /\ ev' = "idle" /\ addr' = NoAddr /\ netinfo' = NoMac
  /\ AppUnchanged /\ UNCHANGED <<chip, toe0, queue, begun, tasks>>

EventTask == \/ TakeEvent \/ CheckToe0 \/ SyncIp \/ GetNetinfo \/ SetNetinfo
             \/ (\E d \in Demos : StartDemo(d)) \/ EndHandler

-------------------------------------------------------------------------------
(* esp_eth and the DHCP client. *)

\* Socket 0 is opened when the link comes up and closed when it goes down.
Link ==
  /\ app # "failed"
  /\ \E p \in started :
       /\ link' = IF p \in link THEN link \ {p} ELSE link \cup {p}
       /\ chip' = IF build.toe THEN [chip EXCEPT !.sock0 = p \in link'] ELSE chip
  /\ UNCHANGED <<build, app, port, array, objects, started, bus, service>>
  /\ UNCHANGED <<toeVars, netVars, toe0, queue, evVars>>

\* The first lease, a renewal, or a lease on another network.
Lease ==
  /\ build.toe /\ app # "failed" /\ Len(queue) < QUEUE
  /\ link \cap glue # {} /\ loop
  /\ \E a \in Addrs : queue' = Append(queue, a)
  /\ UNCHANGED <<ethVars, toeVars, netVars, toe0, link, evVars>>

-------------------------------------------------------------------------------
Next == AppMain \/ DispatcherExits \/ EventTask \/ Link \/ Lease \/ Reboot

Spec == Init /\ [][Next]_vars

\* app_main and the event task go on; a failed check restarts the board.
Fairness == WF_vars(AppMain) /\ WF_vars(EventTask) /\ WF_vars(Reboot)

FairSpec == Spec /\ Fairness

-------------------------------------------------------------------------------
(* Properties *)

TypeOK ==
  /\ EthTypeOK
  /\ chip \in [mac : {EthMac, NoMac}, ip : Addrs \cup {NoAddr}, gw : Addrs \cup {NoAddr},
               sock0 : BOOLEAN, kb : [0 .. LAST -> {0, 2, 16}]]
  /\ sn \in 0 .. LAST /\ s_initialized \in BOOLEAN /\ dispatcher \in {"off", "on", "ending"}
  /\ glue \subseteq Ports /\ handlers \in BOOLEAN /\ loop \in BOOLEAN
  /\ toe0 \in Addrs \cup {Null, NoAddr} /\ link \subseteq started
  /\ queue \in Seq(Addrs) /\ Len(queue) <= QUEUE
  /\ ev \in {"idle", "check", "sync", "get", "set_mac", "set_gw", "set_ip", "demos", "failed"}
  /\ addr \in Addrs \cup {NoAddr} /\ netinfo \in {EthMac, NoMac}
  /\ begun \subseteq Demos /\ tasks \in [Demos -> {0, 1}]

\* wiznet_toe.c:73 "Must be written while the affected sockets are CLOSED": whenever
\* esp_eth has socket 0 open, on whatever attempt to start and whatever failed on the
\* attempts before, the buffers are split evenly.
SplitBeforeOpen == build.toe /\ chip.sock0 => \A s \in 0 .. LAST : chip.kb[s] = 2

\* "toe0 synced to eth0 DHCP address" (ethernet_example_main.c:188): between two
\* address events toe0 and the chip have the same address, with the gateway of the
\* same lease, and writing them has not changed the MAC address esp_eth uses.
Toe0InStep ==
  ev = "idle" /\ toe0 \in Addrs /\ SpiUp =>
    s_initialized /\ chip.ip = toe0 /\ chip.gw = toe0 /\ chip.mac = EthMac

\* "Chip now has a valid IP -> the TOE TCP engine can listen/connect"
\* (ethernet_example_main.c:190): no demo runs on a chip without an address, also
\* not after a restart.
DemosHaveAddress == SpiUp /\ (\E d \in Demos : tasks[d] > 0) => chip.ip # NoAddr

\* When the tear-down is through, what app_main and example_eth_init have made for
\* Ethernet is gone and what others had installed is still there.  Nobody takes the
\* TOE away: toe0 and s_initialized still say that it is up, its demos run on, and
\* the dispatcher, which is waited for only so long, may still be about to end.
TearDownExact ==
  app = "done" =>
    /\ array = FALSE /\ mac \cup phy \cup drv \cup started \cup glue = {} /\ ~bus
    /\ isr = build.isr /\ ~handlers /\ ~loop
    /\ dispatcher # "on"
    /\ build.toe => s_initialized /\ toe0 # Null

\* An address that comes once toe0 is there gets to the chip, unless the board
\* restarts or Ethernet is torn down.
AddressReachesChip ==
  \A a \in Addrs :
    toe0 # Null /\ (\E k \in 1 .. Len(queue) : queue[k] = a)
      ~> chip.ip = a \/ toe0 = Null \/ app \notin {"toe0", "running"}
===============================================================================
