# TLA+ models of the W5500 TOE / lwIP split

The program runs on an ESP32 with one WIZnet W5500 behind one SPI device. Two
drivers share the chip: `esp_eth` uses hardware socket 0 in MACRAW mode as the
network interface of lwIP, and WIZnet's ioLibrary uses hardware sockets 1 to 7,
whose TCP runs in the chip (the "TOE"). A thin BSD-like API (`wiz_socket`,
`wiz_send`, ...) routes TCP to the TOE and the rest to lwIP.

The models here cover the parts that are the repository's own work: the SPI
layer that lets two drivers share the chip, the TOE socket layer, the BSD shim,
the dispatcher task, the echo servers that use them, and how the program starts,
runs and is torn down. `ioLibrary_Driver` is a git submodule and not in the
tree; it, the W5500, FreeRTOS, ESP-IDF and `esp_eth` are modelled from how the
code uses them.

## 1. The system

All paths are under `src/`; `W/` stands for `components/wiznet_toe/src/`.

| Component | State | Operations | Correct when |
|---|---|---|---|
| Shared SPI layer `W/wiznet_spi_shared.c` | device handle, recursive mutex | init, deinit, read, write, lock, unlock, raw | transfers never overlap; tear-down is safe |
| ioLibrary port `W/wiznet_spi_port.c` | header gathered so far | cris/cs callbacks, byte and burst callbacks, init | each access reaches the address its caller meant |
| TOE socket layer `W/toe_socket.c` | bitmap of sockets; the chip's registers | open, connect, listen, wait, send, recv, close | slots neither leak nor collide; bytes are neither lost nor repeated; calls return |
| BSD shim `W/toe_bsd.c` | bound port per socket | `wiz_*` | BSD blocking semantics over a polled chip |
| Dispatcher `W/toe_dispatcher.c` | running flag, task handle, callback and context | task, start, stop, register | no event lost on its way to a registered callback, socket 0 untouched, stop effective |
| BSD echo demo `W/toe_bsd_demo.c` | descriptor, buffer | task, start | echoes, re-arms after each client |
| BSD client demo `main/ethernet_example_main.c` | descriptor | task | keeps connecting |
| Echo pool `W/toe_demo.c` | last status per socket, one buffer | task, start | one client does not stall another |
| TOE init `W/wiznet_toe.c` | initialised flag | init, partition, netinfo | partition before socket 0 is opened |
| toe0 netif `W/toe_netif.c` | netif | create, sync, apply | address in toe0 and chip equals eth0's |
| app_main, event handlers | `s_toe_netif` | start-up, address event, tear-down | order of start-up against events |
| `components/ethernet_init` | handles, ISR flag | init, deinit | partial failures undone |
| lwIP echo, MACRAW hook, stubs | none | | |

**Who runs.** `app_main`; the event task (address event); `esp_eth`'s receive
task and timers; the dispatcher task, if configured; one task per demo. All
TOE tasks poll: there is no interrupt, and the one callback there could be, the
dispatcher's, nothing in the repository registers.

**How they interact.** By calls downwards (demo → shim → socket layer →
ioLibrary → port → shared SPI), and sideways by shared state: the SPI device
and its lock, the header variables of the port, the bitmap, and above all the
chip's registers, which tasks and the other end of the wire change at any time.

**What is hard.**

* Two drivers on one SPI device; one of them addresses the chip through a stream
  of callbacks and file-scope variables.
* Register values that are read, acted upon and stale by then: `wiz_recv`,
  `toe_sock_wait_connected`, the dispatcher's write-back.
* The dispatcher and ioLibrary's `send()` both clear `Sn_IR`.
* An allocator without a lock, and a `wiz_listen` that gives its slot up and takes
  it again.
* `stop` and `start` of a task that notices neither at once.
* Tear-down of the device under running users, failures at every step of set-up.
* One task with one buffer for seven sockets, while `app_main`'s check may open and
  close one of them.
* Address events that meet the set-up, the tear-down and each other half-way; a
  restart of the board that leaves the chip's registers as they are.

The full list, with lines, is `hazards` in `PROJECT.json`.

## 2. Modules

| Module | Models | EXTENDS / INSTANCE |
|---|---|---|
| `ChipAccess` | what the SPI layer promises: atomic register accesses | |
| `SharedSpi` | `wiznet_spi_shared.c`, `wiznet_spi_port.c`, start and end of their life in `ethernet_init.c` and `app_main` | `INSTANCE ChipAccess` (refinement) |
| `SharedSpiProofs` | theorems about `SharedSpi` | `SharedSpi`, `TLAPS` |
| `W5500Socket` | one TCP socket of the chip and the ioLibrary calls on it (external) | |
| `EchoService` | what an echo server promises its clients | |
| `ToeStream` | the echo server's bytes through `toe_bsd.c` and `toe_socket.c`, with client and dispatcher | `W5500Socket`, `INSTANCE EchoService` (refinement) |
| `EchoPool` | `toe_demo.c` over `toe_socket.c`, several sockets and their clients, `app_main`'s routing check beside them | `W5500Socket`, `INSTANCE EchoService` (refinement) |
| `ToeDispatcher` | `toe_dispatcher.c` | |
| `ToeDispatcherProofs` | theorems about `ToeDispatcher` | `ToeDispatcher`, `TLAPS` |
| `StreamLemmas` | lemmas on byte sequences and sockets that the next two proof modules share | `W5500Socket`, `TLAPS` |
| `ToeStreamProofs` | theorems about `ToeStream` | `ToeStream`, `StreamLemmas` |
| `EchoPoolProofs` | theorems about `EchoPool` | `EchoPool`, `StreamLemmas` |
| `ToeSlots` | the bitmap and the descriptors of `toe_socket.c` and `toe_bsd.c`, and the tasks that use them | |
| `ToeSlotsProofs` | theorems about `ToeSlots` | `ToeSlots`, `TLAPS` |
| `EthInit` | `ethernet_init.c`: ports, bus and ISR service made, undone and torn down | |
| `Boot` | `app_main`, `wiznet_toe.c`, `toe_netif.c`, the address handler and the starts of the demos | `EthInit` |
| `BootProofs` | theorems about `Boot` with `EthInit` | `Boot`, `TLAPS` |
| `MCSharedSpi`, `MCToeSlots`, `MCBoot` | values for TLC | |

The layers are checked apart and joined by what one shows the next:
`SharedSpi` implements `ChipAccess`, that is, a register access is one atomic
step, and this is what `ToeStream`, `EchoPool`, `ToeDispatcher`, `ToeSlots` and
`Boot` take a register access to be. `ToeStream` and `EchoPool` both implement
`EchoService`. `Boot` says when the demos run at all: on an initialised layer and
a chip with an address, which is where the other modules begin.

Operators whose comment begins with "Bug:" are not part of the model. Each is an
action as a plausible mistake would have it, put in the action's place to see
that a property notices.

### SharedSpi

`pc[t]` says where a task is in one access. An ioLibrary access goes through
`cris` → `cs` → `reset` → `feed` (three header bytes, one step each) → `raw` →
`start` → `xfer` → `deselect` → `cris_exit`; an `esp_eth` access through `lock` →
`raw` → `start` → `xfer` → `unlock`. Taking the lock is two steps, the test of
`s_lock` and the take, because tear-down may come in between. `raw` latches the
arguments and tests `s_hdl`, `start` reads `s_hdl` again for the transmit, and the
transfer has a beginning and an end. `bus[a]` is the address of the transfer
actor `a` is making.

`mainPc` follows `app_main`: add the device, create the mutex (either may fail;
`ESP_ERROR_CHECK` then restarts the board while the W5500 keeps its registers),
the diagnostic `VERSIONR` read without the lock, the registration of the
callbacks and, if `DEINIT`, the tear-down. The pointers (`s_hdl`, `s_lock`)
and the objects (`device`, `mutex`) are apart because
`shared_spi_deinit` frees an object and clears its pointer in two steps. What the
C code leaves undefined is a choice: a take of a deleted mutex returns without
the lock or never; a transfer on a removed device reaches the chip or not; a
refused `cb_readburst` leaves whatever the buffer held.

The stand-in `Diag` for `VERSIONR` is an address that no modelled access uses.

### W5500Socket and ToeStream

A socket is a record of status, receive buffer, transmit buffer, interrupt bits
and ioLibrary's "is sending" bit. A byte is the pair of its connection and its
number, so that any loss, repetition, swap or mix-up shows. `pc` names the next
register access of the server, and between any two the client may connect, send,
half-close or reset, the chip may finish or time out a SEND and the dispatcher
may latch or clear `Sn_IR`. `Init` chooses between the builds with and without
the dispatcher (`disp`), and properties of the build without say so.

`toe_sock_recv` is three accesses (status, size, data); `send()` is four (status,
outcome of the previous SEND, its clearing, the write). The demo ignores what
`wiz_send` returns and calls `wiz_recv` again, and so does the model.

`wiz_listen` is close, `socket()` and `listen()`, and the last two may fail: `OpenFails`
and `ListenFails` go back to `re_sr`, where the demo tries again
(`toe_bsd_demo.c:41-44`, the 500 ms being a step without effect). An ioLibrary
`listen()` that fails has closed the socket, `socket()` that fails has changed nothing.

### EchoService

Three variables, `conn`, `out` and `got`, are the client's view of a socket: its
connections, what it has sent on the present one and what it has got back. A
`Connect` begins anew, `Echo` returns some of the bytes next in order. How much
comes back is left open, since a connection may end at any moment. The mapping is
the identity on these variables; `ToeStream` has one socket and pairs its client's
counters up for it, `EchoPool` has them per socket.

### EchoPool

`toe_echo_task` first opens and listens on each socket (`open0`, `listen0`), then
polls them in turn. `pc` names its next register access and `sn` its socket, in the
same accesses of `toe_sock_recv` and `toe_sock_send` as in `ToeStream`; `sr` is the
status it read before it looks at the received size, so the two may be of
different moments. There is one `buf` for all sockets. Each socket has a client
that connects, sends, half-closes and resets whenever it likes.

With `CHECKS` the routing check of `app_main` runs beside it: `wiz_socket` scans the
bitmap, opens the socket it found, on a port that ioLibrary chooses (one of
`ANYPORTS`), and closes it again. The pool takes its slots
without looking (`toe_sock_open_n`), so the check can have a pool socket: it then
closes it under the pool, possibly in the middle of an echo. A read of a socket
that was closed meanwhile gives `Junk`, which no client has sent. The build is one
without the dispatcher; what the dispatcher does to a socket is in `ToeStream`.

`socket()` and `listen()` may fail, which the pool ignores: a socket left closed is
re-armed when it is polled next. `sock_port` computes in 16 bits as the code does. Kconfig
allows a base port of 1 to 65535, and so does `PortsAssumption`: with a base
above 65529 the last sockets ask for 0, for which ioLibrary takes a port of its own
(49152 to 65519), and for 1, 2, ...

### EthInit and Boot

`app` is where `app_main` is: first in `example_eth_init` (`EthInit`: `alloc`, `isr`,
`bus`, `efuse`, then per port `new_mac`, `new_phy`, `install`, `set_mac`, or `undo` and
`free` on the way out), then in `wiznet_toe_init` (`inited`, `split`, `toe_on`), the
netifs, handlers and starts (`netif`, `attach`, `register`, `start`), `toe0`, `running`,
and the tear-down (`stop`, `uninstall`, `free_bus`, `deinited`, `delete_loop`, `done`).
`port` and `sn` are loop variables. Every call that can fail may fail, and
`failed` restarts the board through `Reboot`, which resets the program's state and
leaves `chip` alone.

`mac`, `phy`, `drv` and `started` are the ports that have the object. `NewMac` and
`NewPhy` always go on to `Install`, as the code does, and it is `Install` that refuses
a missing object. `chip` holds the registers that `esp_eth` and ioLibrary share: the
MAC address, address and gateway, whether socket 0 is open and the buffer size of
each socket. Installing the driver resets the chip (`ResetChip`), after which
`esp_eth` gives all buffers to socket 0.

`ev` is where the event task is in `got_ip_event_handler`: `check` (is there a toe0),
`sync`, then `get`, `set_mac`, `set_gw`, `set_ip` for the read and the writes of
`wiznet_toe_apply_ip_to_chip`, and `demos`. Addresses arrive by `Lease` as long as the
link is up, at any time, so before `toe0` exists, twice in a row, or during the
tear-down; the handler's steps interleave with `app_main`'s.
`Unregister` waits for a handler that is running, as ESP-IDF's event loop does.

`wiznet_toe_dispatcher_stop` clears the flag and waits for the task at most 20 rounds
(`toe_dispatcher.c:97-107`). So `StopDispatcher` makes the task `ending`, the
tear-down goes on whether or not it is gone, and `DispatcherExits` is the task's end,
at any moment from then on.

`BUILDS` is a set of configurations, and a build with the TOE has a single SPI
module, as `ethernet_init.c:221` assumes.

### ToeDispatcher

`Tasks` are the dispatcher tasks that get created, so that an old one can outlive
`stop`; their number bounds the starts. `unseen` is a history variable: the bits that
the registered callback is still to be told of. A bit enters it when it comes up in the
chip while a callback is registered and leaves it when a dispatcher calls the callback
(`toe_dispatcher.c:51`). Registering a first callback puts the bits in it that are set in
the chip at that moment, and unregistering empties it. Without a callback, which is the
only case in the repository since nothing calls `wiznet_toe_register_socket_event_cb`, the
dispatcher clears every bit and nobody learns of it; the model does so too, and the
properties say nothing of such bits. The callback's context is an opaque pointer
that the layer hands on, and is left out. `eTaskGetState` on a deleted task may or
may not answer `eDeleted`, its control block being possibly freed, so `StopWait`
may go on waiting in either case, up to `WAITS` rounds; it never sees a live task
as deleted.

### ToeSlots

One step of `AllocSlot` per socket number, and `slot_take` and `slot_free` as load
and store, as the compiler makes them. Three programs use the descriptors: the
echo server, the client demo and `app_main`'s routing check, the last only once.
`open` may fail, `listen` may fail, the other end moves a socket through its
states.

`SERIAL` is a rule of use, not a property of the code: a task starts a call that
allocates or frees only while no other is in one or is about to re-arm. The second
half is needed because the echo server goes on using its descriptor after `wiz_close`
(`toe_bsd_demo.c:58`, then `:41`) and after a failed `wiz_listen`, while the slot is
free: its way from the close to the next `wiz_listen` that works counts as one call.
Nothing in the repository enforces any of this. The run `slots` shows, and
`ToeSlotsProofs` proves, what the code keeps under it; `slots_shared` shows what
happens without. `Builds` says which programs run together; both runs have server,
client demo and check together, with one server, as in the code: two that were about to
re-arm would keep each other waiting under `SERIAL`.

`FallbackWhenFull` counts as taken a socket of a server that has bound it and not yet
called `wiz_listen`.

## 3. Runs

| Run | Configuration | Result |
|---|---|---|
| `spi` | `SharedSpi.cfg`: two ioLibrary tasks, one `esp_eth` task, two registers, no tear-down | all hold |
| `spi_deinit` | `SharedSpiDeinit.cfg`: the same with tear-down | all hold |
| `spi_teardown` | `SharedSpiTeardown.cfg`: tear-down, one ioLibrary task | `GuardedByLock` violated |
| `stream` | `ToeStream.cfg` | all hold |
| `stream_send` | `ToeStreamSend.cfg` | `SendCompletes` violated |
| `stream_recv` | `ToeStreamRecv.cfg` | `ZeroMeansDrained` violated |
| `stream_accept` | `ToeStreamAccept.cfg` | `AcceptReturns` violated |
| `dispatcher` | `ToeDispatcher.cfg` | all hold |
| `slots` | `ToeSlots.cfg`, all tasks together, `SERIAL` | all hold |
| `slots_shared` | `ToeSlotsShared.cfg`, the same without `SERIAL`, one client | `Exclusive` violated |
| `pool` | `EchoPool.cfg`: two sockets, with and without the routing check | all hold |
| `boot` | `Boot.cfg`, `MCBoot`: builds with and without the TOE | all hold |

What the passing runs show, beyond the module sections: `stream` and `pool` that
clients get back exactly what they sent, in order, whatever ends a connection and
whatever the routing check does to a pool socket; `pool` also that the stale status
does not make the pool drop received bytes (`HalfCloseDrained`), that no client waits
for its echo for good while the others' connections end or are read
(`EchoedInFull`), and that every socket comes back to its own port; `dispatcher`
that a callback, if one is registered, is told of every interrupt and that `stop` returns;
`slots` that the bitmap is right through failed opens and re-arms, as long as the calls
keep to `SERIAL`; `boot` that a failure at any call leaves no
port half made, that the buffers are split before socket 0 is opened also on the
second attempt after a restart, that toe0 and the chip follow eth0's address
without a mixture of two leases, that no demo runs without an address, and that
tear-down takes away the ports, drivers, SPI devices, bus, netif glue, handlers and event
loop, and no ISR service of others (`TearDownExact`). It does not take away everything:
toe0, `s_initialized` and the demos' tasks stay, and the dispatcher's task may still be on
its way out; the property says that toe0 and the flag stay, and rules out only a
dispatcher that was never told to stop.

What the violations say of the code:

1. **Tear-down** (`wiznet_spi_shared.c:52`). `shared_spi_deinit` takes no lock
   and the ioLibrary tasks are not stopped. The shortest trace ends with a task that has
   passed its check and is about to start the transfer when `s_hdl` is already NULL and
   the lock is gone; a transfer under way on a removed device is reachable too. Still,
   and this is shown both by TLC and by proof, no two transfers overlap and none goes
   to a wrong register, because the device pointer is cleared before the lock is deleted.
2. **SENDOK** (`toe_dispatcher.c:49`). The dispatcher clears the bit by which
   ioLibrary's `send()` learns that the previous SEND is over; from then on
   `send()` answers `SOCK_BUSY` and `toe_sock_send` loops. Without the dispatcher
   sends end (`SendCompletesAlone`).
3. **recv** (`toe_bsd.c:95-98`). Size read as 0, then bytes and FIN arrive, then
   the status is no longer ESTABLISHED: 0 is returned with bytes unread.
4. **accept** (`toe_socket.c:137`). ESTABLISHED is missed if the client's FIN
   arrives before the next poll; CLOSE_WAIT is not among the states it waits for.
5. **Slots** (`toe_socket.c:72`). The run shows two tasks whose `wiz_socket` overlap: both
   scan before either takes and both hold the same socket, as when the
   address arrives, and the event task starts a demo, during `app_main`'s
   routing check. Calls that never overlap can collide as well: the echo server closes
   its descriptor (`wiz_close`, `toe_bsd_demo.c:58`), which frees the slot; another task's
   `wiz_socket` finds the bit clear and takes the socket; the server's `wiz_listen` (`:41`)
   then closes it under the other and opens it again for itself. A
   `wiz_listen` that failed leaves the same window. No run shows this trace,
   `slots_shared` stopping at a shorter one; `SERIAL` rules it out, by
   counting the server's way from the close to the listen as one call.

Three things the passing runs contain rather than refute. A dispatcher that does not
run during `stop`'s bounded wait (100 ms) is revived by the next `start`, beside
the new one (`toe_dispatcher.c:95`); nothing in the repository starts it again, and
`NoEventLost` holds even then. An address that arrives before `app_main` has made
toe0 is dropped (`ethernet_example_main.c:185`), and the demos wait for the next one.
When a later port fails, the ports before it, the bus and the ISR service stay
(`ethernet_init.c:339`); the program then restarts.

The documents contradict the code on the pool's ports. The help text of
`WIZNET_TOE_ECHO_DEMO` (`components/wiznet_toe/Kconfig:36`, "hardware sockets 1..7 all
listen on WIZNET_TOE_ECHO_PORT"), the comment at `toe_demo.c:42` ("LISTEN on the same
port") and `docs/WIZNET_TOE_CHANGELOG.md:34` have one port for all sockets; the code, and
the comment at `toe_demo.c:25`, have a port for each. `OwnPort` is about the latter.
That comment too holds only as far as there are ports: with a base near 65535 the last
sockets do not listen on base+1, ... , though still on a port of their own.

### Bounds

* `spi*`: two ioLibrary tasks are needed for a mixed header, one `esp_eth` task for
  the other driver. Two registers whose addresses differ in each of the three
  bytes make every mixture of two headers a wrong address. The proofs are for
  any number.
* `stream*`: the proofs of safety are for any sizes and numbers; in the runs a transmit buffer of 1 and a server buffer of 2 make a partial send
  happen, a receive buffer of 3 makes the received amount exceed the server's
  buffer; two connections (`MAXCONNS`) let one disturb the next, three bytes
  (`MAXBYTES`) cover all of these. The model keeps no other counters.
* `dispatcher`: one TOE socket beside socket 0 and two bits of interrupt, since
  sockets are visited one by one and no property relates two TOE sockets; two
  tasks for one restart; two rounds of waiting (20 in the code) for "waits" and
  "gives up".
* `slots`: server, two clients and the check over two sockets, the least with which a
  caller finds every socket taken while the server re-arms its own. The proofs are for
  any number of each.
  Deadlock is not checked there: a server that lwIP serves, and the check once
  done, really stop.
* `pool`: two sockets are the least that share a buffer. A transmit buffer of 1 and a
  server buffer of 2 make sends partial and busy; two connections of two bytes
  on each socket without the check, one of one byte (`CHECKMAX`) with it, where
  what matters is the order of the check's five steps against the pool's.
  `BASE` is 65535, the largest that Kconfig allows, so that the second socket is one
  past the end: it asks for port 0 and gets 49152, the one port in `ANYPORTS`. The
  proofs of safety are for any base, sockets up to seven, sizes and numbers.
* `boot`: `LAST` is 2 instead of 7, since the split is one loop over sockets; two
  addresses and a queue of two give a change of address while one is being
  handled; three demos, of which the client's start is remembered in another way.
  `MCBuilds` has the TOE build with and without tear-down and, without the TOE, the
  internal EMAC, one or two SPI modules, with polling or interrupts, with or
  without a foreign ISR service. Deadlock is not checked: the program is `done`.
  The proofs are for any builds, sockets, addresses and queue.

### Fairness

Steps of a task are weakly fair: all are of equal or graded priority and block or
sleep between polls, so none is shut out for good. In `SharedSpi` the take of
the mutex is strongly fair: FreeRTOS hands a mutex to the waiter of highest
priority, holders do not sleep while they hold it, and each is released after a
bounded number of transfers. In `ToeStream` the chip brings each SEND to an
acknowledgement or a timeout (the code sets 8 retries of 200 ms,
`wiznet_toe.c:44`). `EchoPool` assumes the same of each socket, that is, clients
read what they are sent or are given up: one that keeps its window at zero and still
acknowledges probes would hold up the pool's one task, and with it the other
sockets, for as long as it likes.

`socket()` and `listen()` may fail, any number of times, but not for good: tried again and
again they succeed in the end. In `ToeStream` this is `SF` of `OpenOk` and of `ListenOk`.
In `EchoPool` it is `SF` of `OpenOk` for each socket and, for `listen()`, the stronger
`<>[][~ListenFails]_vars`, that it fails only finitely often in all, which
TLC checks in half the time. Nothing in the code makes these calls succeed; they
fail without an address or on a bad parameter, and the demos are started once the chip has
its address. In `Boot` `app_main`, the event task and a restart go on; leases, links
and which calls fail are free. Nothing is assumed of the client, of callers of `start` and
`stop`, or of the chip's raising interrupts. A call of `start` or `stop` that was begun
goes on. In `Boot` the dispatcher's end is not assumed to come.

## 4. Proofs

### SharedSpiProofs

It proves, for any sets of tasks, registers and values that satisfy
`SharedSpi`'s assumptions:

| Theorem | States |
|---|---|
| `Inductive` | `Spec => []IInv` |
| `TypeCorrect` | `Spec => []TypeOK` |
| `OneTransferAlways` | `Spec => []OneTransfer`, tear-down included |
| `AddressedAlways` | `Spec => []Addressed`, tear-down included |
| `GuardedWithoutDeinit` | `Spec => []GuardedByLock` if not `DEINIT` |
| `Refinement` | `Spec => AtomicAccess` if not `DEINIT` |

The assumptions are the named `ASSUME`s of `SharedSpi`: the kinds of tasks are
disjoint, `None` is none of the values, headers are triples of bytes, values
include 0.

**The argument.** `OneTransfer` is not inductive: that a task may start a transfer
follows from its owning the lock, and that from where it is in its access.
`IInv` adds this chain. `LockOK`: while the mutex exists, a task past its take
owns it at the depth its label says. `PointersOK`: which pointers and objects
exist at each point of `app_main`, in particular that the device pointer is gone
before the mutex is. So while a transfer can start the mutex exists, and its
owner is the only one who can. After that, `s_hdl` is NULL and a task that takes
a deleted mutex "without the lock" is refused in `raw`. The remaining case is a
transfer that was under way when the pointer was cleared: it is the only one and
nobody starts another. `HeaderOK` says that the header variables hold what the
lock's owner has fed, which gives `Addressed`. `app_main`'s unlocked read is
safe because neither driver is up yet (`TasksOK`).

There is one lemma per action for `IInv`'s preservation. In the refinement
`Begin` is `ChipAccess`'s `Invoke`, `EndTransfer` its `Apply`, `Return` its
`Return`, and every other action a stutter.

### ToeDispatcherProofs

For any subset of 0..7 with 0 as the sockets, any bits, callbacks, number of tasks
and rounds of waiting (`ToeDispatcher`'s named `ASSUME`s):

| Theorem | States |
|---|---|
| `DispatcherInductive` | `Spec => []DInv` |
| `DispatcherTypeCorrect` | `Spec => []TypeOK` |
| `NoEventLostAlways` | `Spec => []NoEventLost` |
| `Socket0UntouchedAlways` | `Spec => Socket0Untouched` |

`NoEventLost` says that each bit the registered callback is still to be told of is still in
the chip or in the hands of a dispatcher task that is about to tell. It is nearly
inductive: `DInv` adds that a task with bits in hand is at a TOE socket, so that its
write-back hits a register that exists and never that of socket 0, and that without a
callback there is nobody to tell (`NobodyToTell`). The lemma
`HandsKept` covers all steps that leave registers and hands alone; what remains
are the read, which takes a bit into a hand, the write-back, which clears only
what is in one, the callback, its registration and the chip's raising a bit. Any number of tasks may
be in the loop, so the revived dispatcher is part of the theorem.

### BootProofs

For any set of builds that satisfies `BuildsAssumption`, any `LAST` in 1..7, any
addresses and queue length:

| Theorem | States |
|---|---|
| `BootInductive` | `Spec => []BInv` |
| `BootTypeCorrect` | `Spec => []TypeOK` |
| `PortsWholeAlways` | `Spec => []PortsWhole` |
| `SplitBeforeOpenAlways` | `Spec => []SplitBeforeOpen` |
| `Toe0InStepAlways` | `Spec => []Toe0InStep` |
| `DemosHaveAddressAlways` | `Spec => []DemosHaveAddress` |
| `TearDownExactAlways` | `Spec => []TearDownExact` |

None of these is inductive, as each speaks of one moment and depends on the way
there. `BInv` adds the way: `PortsOK` says that while one port is at work all others
are whole and those before it are installed; `StartedOK` that drivers run only between
the start and the stop loop; `SplitOK` how far the loop over the sockets is, that
the split lasts until the chip is reset, and that socket 0 is open only on a split
chip, which needs `StartedOK`, since only a started driver has a link. `Toe0OK` and
`ChipOK` follow an address through the handler's steps: what has been written
at each, and that the MAC address that is written back is the one that was read.
`IsrOK` says what the flag means and `DownOK` what the tear-down has taken away
so far. There is one lemma for the preservation of each conjunct, with a case
for each action that can disturb it; `PortDone` is the step from a finished
port to the next.

### ToeSlotsProofs

For any servers, clients, checkers, builds and `N` in 1..7 that satisfy `ToeSlots`'s
named `ASSUME`s (`KindsAssumption`: no task runs two of the programs):

| Theorem | States |
|---|---|
| `TypeCorrect` | `Spec => []TypeOK`, calls overlapping or not |
| `MaskExactHolds` | `Spec => []MaskExact` if `SERIAL` |
| `FallbackOnlyWhenFull` | `Spec => FallbackWhenFull` if `SERIAL` |
| `ListensOnBoundPort` | `Spec => []ListensOnBound` if `SERIAL` |

`TypeOK` needs that a descriptor is a hardware socket's wherever the code indexes by it
(`FdOK`). The rest is in `SInv`: beside a task in a call all others are between two
calls (`Alone`); each bit that is set has a task that answers for it (`Accounted`) and
each descriptor in use has its bit (`Backed`); no two tasks have the same socket even
while one of them has its slot free (`Apart`), which is the part that `SERIAL`'s second
half is for; what a task has read of the bitmap is still so when it writes it back
(`Fresh`), and a call works on its descriptor's socket (`Aimed`). None of the six
is inductive without the others. `Ported` adds how the bound port gets from `wiz_bind`
through `wiz_listen` to the socket. The hypothesis is needed for `Apart`: without it two tasks
get one socket (`slots_shared`), and the bitmap loses the bit of the one when the
other closes. That two tasks never share a socket is not listed as a result: `SERIAL`
rules out the states in which the code lets them.

### StreamLemmas, ToeStreamProofs

`StreamLemmas` says what is needed of byte sequences. A connection's bytes are
`Numbered`; `Stream` is what the client got, what waits in the transmit buffer, what the
server has in hand and what is unread, joined in this order. `Moves` says that
bytes going from one part to the next leave `Stream` as it is, `ByteArrives` that a new
byte makes it one longer, `BeginsWhole` and `BeginsShorter` what is a beginning of
the whole. The lemmas named `...Sock` say what each operator of `W5500Socket` does
to a socket.

For any sizes of the buffers and any bounds that are positive (`BoundsAssumption`), in
builds with and without the dispatcher:

| Theorem | States |
|---|---|
| `TypeCorrect` | `Spec => []TypeOK` |
| `NoByteLost` | `Spec => []Conserved` |
| `OutcomeNotMissed` | `Spec => []OutcomeVisible` |
| `Refines` | `Spec => EchoesFaithfully` |

`TInv` adds to the types that the buffer is in use exactly while the server sends and that
a socket that was opened holds nothing until a client connects (`FreshOK`): this is
why nothing of an old connection gets into a new one. `Conserved` speaks of
connections that are up; the refinement also needs `Prefix`, that what the client got is
a beginning of what it sent even after its connection went down. `OutcomeVisible` is
inductive with `TInv`: on a socket that stays connected a SEND ends with SENDOK, and only
`send()` itself clears that. In the refinement `PeerConnect` is `EchoService`'s
`Connect`, `PeerSend` its `Send`, `ChipSendDone` its `Echo`, all else a stutter.

### EchoPoolProofs

For any number of sockets, sizes and bounds, base port and `CHECKS` that satisfy
`EchoPool`'s named `ASSUME`s (`PortsAssumption`: any base port from 1 to 65535, at most the
chip's seven sockets, and ioLibrary's own ports between 49152 and 65519):

| Theorem | States |
|---|---|
| `TypeCorrect` | `Spec => []TypeOK` |
| `OwnPortHolds` | `Spec => []OwnPort` |
| `HalfClosesDrained` | `Spec => HalfCloseDrained` |
| `NoByteLost` | `Spec => []Conserved` |
| `BusyOnlyWhileSending` | `Spec => BusyWhileSending` |
| `Refines` | `Spec => EchoesFaithfully` |

The invariants are those of `ToeStream`, socket by socket, and `SInv`, which says where
the pool can be for a socket to be in a given state. `ListenOK`: a socket that listens is
not the one being served, so a client cannot connect under the pool's hands and
find another's bytes in the buffer. `UnreadOK`: between the look at the size and the read,
bytes only arrive, unless the connection goes down. `HalfOK`: a socket seen half-closed
gets nothing more, so that the stale status does no harm (`HalfCloseDrained`). `PortOK`
ties the port to whoever opened the socket, and the lemma `PortsDiffer` is the arithmetic: the
requests of two sockets differ modulo 2^16, and where one of them is 0 the others are
below 7 or above 65529, away from ioLibrary's own ports. All of these have the routing check's steps
among their cases, which may close the socket between any two of the pool's.
`BusyWhileSending`, which only the proof states, is the pool's counterpart of `OutcomeVisible`:
`send()` answers `SOCK_BUSY` on a connected socket only while the chip is sending.

### Only model-checked

All liveness (`AccessReturns`, `SendCompletesAlone`, `Rearms`, `EventsHandled`,
`StopReturns`, `StoppedTaskExitsAlone`, `EchoedInFull`, `AddressReachesChip`): TLAPS
does not handle fairness and ENABLED here. So the theorems are about `Spec`, of which
each run's specification is a strengthening by fairness. All invariants and action
properties and the three refinements are proved.

## 5. Not modelled

* Time and priorities: delays are steps without effect. So neither the rounding
  of `pdMS_TO_TICKS` nor starvation by a polling task is seen.
* SPI failures above the SPI layer: a failed read looks like 0 to ioLibrary.
* A RECV command that the chip takes longer than 50 ticks to accept: nothing in the
  repository says when the chip may be late or what it does then.
* UDP mode of the TOE sockets (no caller), address parsing, logging.
* `esp_eth`, lwIP and ioLibrary beyond what the code relies on; registers the
  two drivers write for each other's sockets.
* The dispatcher beside the echo pool: its effect on a socket is in `ToeStream`.
* The callback's context, and a dispatcher that sees a new callback with the old context
  or the reverse (`toe_dispatcher.c:112-113`): a registration is one step.
* Another Ethernet port beside the TOE's (`ethernet_init.c:221` assumes a single
  W5500), and a build without any Ethernet device, which does nothing.
* The lwIP echo server and the MACRAW hook, which keep no state; the bytes of the
  client demo; the stubs of the build without the TOE; Kconfig and the hardware test.

## 6. Plan

Done so far: all modules above, and proofs of every invariant, action property and
refinement that the passing runs check. What is left:

1. `EchoPool` with the dispatcher beside it, once the finding on SENDOK is settled:
   until then the pool can only be shown to stop.
2. A weaker rule than `SERIAL` under which `Exclusive` still holds, such as a lock around
   `alloc_slot` to `slot_take`, once the repository has one.
3. A late RECV and failing register accesses in `ToeStream`, if the chip's behaviour
   is pinned down in the repository.
