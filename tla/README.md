# ArnosVPN in TLA+

ArnosVPN tunnels IP packets through a WebSocket. A Go server gives each
authenticated connection an address from a pool and routes packets between the
connections and a TUN device; a Go desktop client and a Kotlin Android client
connect to it. This directory holds TLA+ models of the parts whose correctness
depends on interleavings, arithmetic at a boundary or long sequences of events,
TLC runs that check them on small instances, and TLAPS proofs for every size.

- [Inventory](#inventory): the parts of the system, their state and operations
- [Modules](#modules): what each module models and how it corresponds to the code
- [Runs](#runs): what TLC checks, the bounds and the fairness
- [Proofs](#proofs): what is proved, from what, and along which argument
- [Disagreements](#disagreements): where the code does not do what it says
- [Not modelled](#not-modelled) and [Plan](#plan)

## Inventory

| Part | Source | State | Operations |
|---|---|---|---|
| address pool | `internal/server/pool.go` | cursor `next`, map `assigned`, under `mu` | Allocate, Release |
| tunnel server | `internal/server/server.go` | registry `clients` under `mu`; per client `send`, `closed`, the socket | handleTunnel (handshake, register, readLoop, deregister), writeLoop, tunReadLoop, Serve, Close |
| replay guard | `internal/server/replay.go` | map of accepted hellos with expiry, under `mu` | observe |
| data channel | `internal/protocol/crypto.go` | send counter, receive maximum, two keys | DeriveSession, Seal, Open |
| host networking | `internal/server/nat.go` | firewall rules, forwarding flag, undo list | apply, Teardown |
| server program, configuration | `cmd/arnosvpn-server`, `internal/config` | the key file | Load, resolvePSK, shutdown |
| certificates | `internal/cert` | current certificate, source and time | TLSConfig, reload |
| provisioning | `internal/provision` | none | URI, ParseURI |
| desktop tunnel | `internal/client/tunnel.go`, `pump.go` | socket, `writeMu`, session | Connect, ReadPacket, WritePacket, KeepAlive, Close |
| desktop controller | `internal/client/controller.go` | connected, connecting, wantConn, tunnel, cancel under `mu` | Connect, supervise, Disconnect; the server list operations |
| desktop proxy | `internal/client/proxy.go`, `http_proxy.go` | two listeners | RunProxy, acceptLoop, the SOCKS and CONNECT dialogues |
| desktop TUN mode | `tundev.go`, `tun_linux.go`, `tun_windows.go` | device, routes | RunTUN, configureTUN and its cleanup |
| desktop configuration | `config.go`, `subscribe.go` | the configuration file and the panel's copy | LoadConfig, Save, Add, Remove, Subscribe |
| updater | `update.go` | the executable, its `.old`, downloads | CheckUpdate, ApplyUpdate, CleanupOldBinary |
| log buffer | `logbuf.go` | the last 500 lines | add, list |
| Android service | `ArnosVpnService.kt` | running, userStopped, link, tun, generations | onStartCommand, socket callbacks, ensureTun, uplink threads, stopTunnel |
| Android stores and screens | `ProfileStore.kt`, `ControlBridge.kt`, ... | preferences | load, save, bridge calls |

How they interact: a connection's handler passes the freshness tests (replay
guard), takes an address (pool), derives a session (data channel) and enters the
registry, through which the one TUN reader finds it. The client's supervisor
dials, runs a proxy or a device over the tunnel, and dials again after a loss. What
outlives a process is on the host: firewall rules, routes, the key file, the server
lists, the certificate files and the executable itself, and several processes may use
each at once.

What makes this hard to test is listed, line by line, under `hazards` in
`PROJECT.json`: deregistration in three steps, a client pointer used after the
unlock, error paths that owe a release, queues at their limit, unsigned
arithmetic in the pool's scan, a clock read before a lock, frames sealed in one
place and sent from another, a supervisor that outlives its session, listeners
that outlive their run, files written in place, commands of which one fails, processes
that overlap or are killed between two steps, callbacks that come after a stop.

## Modules

A step of a model ends where the code releases a lock, blocks, or does something
another goroutine can see. Data that no property distinguishes is left out:
packets are addresses or lengths, hellos are a salt with its spelling and a timestamp,
and the cipher is ideal. A definition whose comment begins with "Faulty variant of" is a
bug the code does not have; replacing the definition it names by it must break a
property (`mutants` in `PROJECT.json`).

**`AddressPool`** is the abstract pool: a request is granted with some address not
in use, and refused only when all are in use. **`IPPool`** is `pool.go`: `Cand(i)` is
the i-th candidate of the scan in arithmetic modulo `Word` (2^32 in the code),
`Allocate(a)` takes the first free candidate and moves the cursor, `AllocateFails`
is the error, `Release(a)` the delete. Both methods hold the lock throughout, so
each is one step. `DivisionPanics` is the /31, on which the code divides by zero.

**`Server`** extends `IPPool` with `server.go`. Per connection: `pc` (the handler
goroutine), `ip`, `alive` (peer and network), `closed` (`c.close()` was called),
`writer` (writeLoop) and `queue` (`c.send`); `clients` is the registry; `tunPc`,
`tunDst` and `tunClient` are tunReadLoop's position and locals. deregister is three
actions (`Deregister`, `ReleaseAddress`, `CloseClient`) because the code unlocks
between them, and tunReadLoop is three because it uses the looked-up client after
the unlock; an error of the device (`TunReadFails`) ends it for good. What the checks of the
handshake decide is a choice here. `Forget` lets
the identity of a connection nothing refers to stand for a new one, so that
connections follow each other without bound in a finite state space.

**`ReplayGuard`** is the freshness part of the handshake: `TimestampTest`
(`server.go`), then `Sample` (observe reads the clock) and `Observe` (the critical
section: sweep, look, record). The clock moves between any two of them, but a
handshake takes at most `MaxStall` seconds from its first test to the end of
observe. `Restart` ends the process at any moment: the table, in memory only, is
empty afterwards, and the handshakes under way are gone. A hello's salt has bytes, which
VerifyAuth authenticates, and a text, which is observe's key; base64 decoding takes several
texts (`Spellings`) for the same bytes.

**`Session`** is both directions of one data channel: `Seal` takes a counter and
builds the frame; at the client `WritePacket` puts it on the wire, at the server
`Enqueue` queues or drops it and `WriteLoop` sends it. `OpenFails`, `OpenReplayed`
and `OpenAdvances` are the outcomes of Open; both ends stop reading after a refusal,
as readLoop and pump do. `Damage` and `Repeat` are the transport faults that Open is
written to withstand; over TLS they do not occur. Frames carry their key, counter,
length prefix and size. Pongs and pings, which do not touch the session, are left to
`Server`.

**`Controller`** is Connect, supervise and Disconnect of `controller.go` with what
supervise runs. A session is one Connect call past the guard; `pc` is where it is,
`ctxDone` its context, `open` its tunnel. `taken` is what a Disconnect has taken under
the lock and not yet acted on. `port` says who listens on RunProxy's two addresses: a
run that ends leaves its listeners `Leaked`, because acceptLoop blocks in Accept. The
two listens of one RunProxy are one step, and one Disconnect runs at a time. The real device
has a fixed name, so that while one session has it no other starts in TUN mode (`HasDevice`).

**`TunnelIO`** is one tunnel of the desktop client with all its goroutines: `pc` has
the position of `run` (Connect, then RunTUN or RunProxy, then Close), `out` and `in`
(pump), `alive` (KeepAlive), `watch` (the goroutine that closes the device) and `user`
(Disconnect). They share `writeMu`, the connection (`net`: up, stalled or lost), the
device and the channel `errc`. In proxy mode a listener that fails ends the run
(`ListenerFails`), and a device may fail while it is open (`OutErrs`). A write blocks on a stalled connection unless it has a
deadline.

**`Routes`** is TUN mode on the host: the commands of
configureTUN one by one, on Linux or Windows, from the command line or the panel, the
undoing in reverse order, uplinks that come and go, and a process that is killed.
**`ClientTunnel`** composes the two as RunTUN, runMode and cmdConnect do: the run
goroutine starts pump when the last route is set, the device that the context closes
takes its routes with it, the command looks the server's name up a second time after the
dial and may get another address, an uplink that goes down loses the connection over it, and a
process that ends releases what both hold.
**`ClientConfig`** is the server list: the panel's copy under its lock, commands that
load, change and save, a subscription that works in several critical sections, and
Save as the truncation and the write it is. `Fold` says which spellings of a name
EqualFold takes for the same. **`Versions`** is parseVersion and isNewer as functions
of the parts of a version; **`Updater`** is the replacement of the executable, file
operation by file operation, by the handlers of several panels.

**`HostNet`** is what a server process does to its host: openTUN, the commands of
configureNetwork, ensureRule as a look-up and an append, Teardown rule by rule, and
every way a process ends. **`KeyFile`** is config.Load with resolvePSK for servers and
`arnosvpnctl`: the environment, the read, the making of a key, truncation and write.
**`ServerStart`** is the server's main: it composes `KeyFile` (config.Load, the listener,
the printed profile) with `HostNet` (server.New and the ways out), next to runs of
`arnosvpnctl`.
**`Provision`** is URI and ParseURI as conversions between profiles and texts: a text
is plain, a decimal, a base64 string or neither, and each field's absence, default and
refusal is kept. **`CertReload`** is reload in every TLS handshake while the files are
renewed: the modification time, the reads, the match of key and certificate and the
store are steps of their own.

**`AndroidService`** is one instance of the service: commands and stopTunnel on the main
thread, connectWebSocket on `ctl`, callbacks on a thread per socket, one uplink thread
per device. A welcome is handled in up to four steps: a device is opened, assigned, the link is set
and announced. A device stays if it has the assigned address, which is a choice here, as
addresses have no other effect. An uplink thread may read nothing, which ends its turn without a frame.
stopTunnel is three steps, because other threads see its parts: the swap of
`running`, the clearing of the fields, the end. `late` records that a callback of a
connection from before the last stop took effect, or that a start and a stop on two
threads overlapped; `CompleteUnlessLate` and `KeepsTrying` are stated for executions
without it (see [Disagreements](#disagreements) for what happens with it).

**`...Proofs`** modules hold the theorems, those of components that belong together in one:
`ServerProofs` (server and pool), `ServerStartProofs` (host and key file), `HandshakeProofs`
(replay guard and certificates), `SessionProofs`, `DesktopProofs` (controller and updater),
`ClientConfigProofs` (configuration and URI), `ClientTunnelProofs`, `AndroidServiceProofs`.
**`MC...`** modules instantiate a module for
TLC: `MCIPPool` adds a history variable, `MCReplayGuard` a start and an end of time,
`MCClientConfig` and `MCUpdater` define small sets, the others a symmetry set. The
remaining modules are run as they are.

## Runs

| Run | Instance | Shows |
|---|---|---|
| `pool` | a /29 at the end of a 16-address space | the scan implements `AddressPool` from every cursor position (only usable addresses, refused only when full) and does not return the last address while another is free |
| `server` | 2 connections, 1 usable address, queue of 2 | exclusive addresses, exact books on every error path, register never closes a live client, packets reach only the address's owner in both directions, where the pool is exhausted and each address is reused at once |
| `server_live` | 1 connection, queue of 2, fair | a lost connection gives its address back, a writer that ends also ends its session, tunReadLoop is done with every packet whatever its client does |
| `replay` | 2 handshakes, a salt in two spellings, 2 timestamps, window 1, slack 2, stall 1, restarts | no process accepts a timestamp with one salt text twice, none is refused that was not accepted, and after a restart only hellos recent at that moment can be accepted again |
| `session` | 3 frames per direction, queue of 1, 1 fault, bytes of 2 values | fresh nonces, delivery in order and at full length, no legitimate frame refused |
| `controller` | 2 sessions, each in either mode, fair | Disconnect never holds a dead session's cancel function; cancelled sessions end; dropped sessions in TUN mode serve again unless another session has the device |
| `serverstart` | 2 servers, 1 tool, 2 keys, 1 interface, 1 failed look-up | a serving process has its whole network configuration and rules do not pile up; a key once settled stays, and what was issued stays valid unless two programs make a key at once |
| `certreload` | 2 handshakes, 3 certificates, 1 fault, two files, fair | handshakes serve what was newest when they began unless overtaken, and after the last renewal its certificate comes into use |
| `clientconfig` | panel with a subscription, one command, spellings, 2 servers | every configuration in memory or on disk is usable (distinct names, an active one among them, URIs that parse), the file holds what the panel shows, a start has the configuration saved last |
| `clienttunnel` | one tunnel at a time in either mode, 2 addresses of the server, an uplink that comes and goes, fair, network that does not stall for ever | routes are restored, all traffic goes through the tunnel, a carrier whose address and interface are pinned does not; the lock and the connection are never left behind, all goroutines end |
| `updater` | 2 panels on either platform, up to 3 releases | some binary survives every kill and a later release is offered; on Windows no newer binary is replaced by an older one |
| `android` | 2 starts, 1 stop, 1 drop, 1 read, fair | unless a callback came late, a stop is complete and a link is served, and a running service gets a live connection or stops; every frame is sealed by its own socket's session |

Bounds. Identities of connections and sessions are reused, so their number bounds
concurrency and not time; two is what every race found needs, and the theorems
cover the rest. A CIDR of eight addresses at the end of the address space meets the
wrap of every sum. A queue of one or two meets full, empty and, with two, order.
`MaxFrames` = 3 lets a frame be sent, one be dropped and one follow the gap.
`Horizon` lies beyond the moment when every hello is stale and the handshakes with it are over,
and beyond the expiry of the entries that were made first, so that the sweep removes some. A slack above the
stall is what the code has (5 s against a handshake's moments), and a window of one second
has a before, an inside and an after.
Two processes and a kill between any two steps are what a race over a file or over
the firewall needs; the third version or release is there so that an overtaken writer
can be overtaken again. In `AndroidService` two starts, a stop and a drop give up to
four sockets, enough for a connection from before a stop, one after it and the
reconnect. Commands, drops and reads are bounded there by `MaxStarts`, `MaxStops`,
`MaxDrops` and `MaxPackets`, lists by `MaxServers`, commands by `MaxCommands`, renewals by
`MaxVersion`, faults by `MaxFaults` and failed look-ups by `MaxMissed`. `certreload` has
certificate and key in two files (`Pem`), the case with more interleavings; the theorems
cover the one file `acme.json` as well.
Symmetry is used only in runs without liveness. The invariants of
`clienttunnel` were also checked with two uplinks up at once. Of the combinations of platform and
front end, `clienttunnel` leaves out the panel on Windows and proxy mode from the command
line: RunTUN behaves alike under both front ends but for the address it is given.
Runs of `Session`, `Updater` and `AndroidService` are without the deadlock check: a session
is over when its ends have stopped, a machine without executable has nothing to start,
and the commands of the service are bounded.

Fairness. `server_live`: weak fairness of each goroutine where it is not waiting for
its peer. A read on a lost connection fails in the end because Go's listeners enable
TCP keep-alive and the 25 second pings force retransmissions; writes fail then too.
A data write to a peer that does not read may stay blocked, and no fairness is
assumed of its success. `controller`: weak fairness of the goroutines (dials and
waits have time limits), weak fairness of Disconnect's second half, and strong
fairness of a successful dial and of the device's creation when no other session has it: a
server that is unreachable for ever is not reconnected to. `clienttunnel`: weak fairness of
goroutines, strong fairness of taking `writeMu`, because Go's mutex hands itself over to
a waiter that starves, and a network that in the end recovers or is given up by TCP
(`FairNetSpec`). `certreload`: a renewal that has begun ends, and handshakes keep
arriving. `android`: the main thread, `ctl` and the callbacks go on, and the server
answers; drops stop, being bounded.

## Proofs

All are checked by TLAPS for every value of the constants: any number of connections,
sessions, sockets, panels and processes, any names, addresses and histories. Every
safety property of a run has its theorem; the runs' instances are where the inductive
invariants were model-checked before they were proved. The named assumptions of the modules
say what constructors and configuration establish, and that the marks the models use
(`None`, `NoOne`, the name of the tunnel's device) are not values of the program; TLC
evaluates each on the run of its module.

- **Pool** (`ServerProofs`, for CIDRs of at least four addresses: `Routable`).
  `PoolInv`: the cursor lies in the usable range or one past it (`CursorInRange`) and
  only usable addresses are assigned. In that range no difference of the scan wraps
  and `Cand(i)` is one modulo step (`CandidateValue`); for every usable address some
  index reaches it (`ScanCovers`), the last allocated one at the last index only
  (`ScanEndsAtLast`). Hence only usable addresses are handed out, exhaustion is real, every
  step is a step of `AddressPool`, and no address is reused at once while another is free.
- **Server** (`ServerProofs`). `ServerInv` adds to the type invariant that holders'
  addresses are real, pairwise different, exactly the assigned ones, and that the
  registry holds exactly the clients between register and the delete. Each is needed
  by the others: Release keeps the books only because addresses are exclusive, and
  Allocate keeps them exclusive only because the books are exact. That register never
  evicts, and that uplink packets come from the registered holder, follow. So does that
  a handler releases only what is assigned (`ServerCallsPool`): the whole server takes only
  steps of the pool, implements `AddressPool` (`ServerImplementsAddressPool`), and every
  welcomed client has a usable address. `EndInv` is about the end: when handler or writer
  has returned, the connection is closed, so that the other does not wait on it
  (`GoroutinesEndTogether`). Every step of a handler whose connection is lost then brings
  it closer to its return, and nobody's step takes it back (`LostConnectionsOnlyEnd`).
- **Replay guard** (`HandshakeProofs`, if `MaxStall < Slack`: `PromptHandlers`).
  `GuardInv`: an accepted hello is in the table with an expiry at least `AuthWindow +
  Slack` after its timestamp, or it is gone and that moment has passed; and a
  handshake in progress tested its hello within the window at most `MaxStall` ago. So
  a hello being processed is always still remembered, under the text of its salt
  (`HelloAcceptedOnce`); that is one session per hello if a salt has one text
  (`OneSessionIfSpelledAlike`). The slack of five seconds in
  `newReplayGuard` is exactly what pays for reading the clock before the lock. Across
  restarts, a hello accepted again was within the window when the process started.
- **Certificates** (`HandshakeProofs`). `CertInv`: what a handshake has read, and
  what is stored, is what the file holds for as long as the file has the time that was
  seen first; this needs that the time is taken before the reads. `FreshInv`, for
  the last theorem, adds what each handshake's copies are worth: everything in sight
  was issued, and a copy read after the handshake's beginning is at least as new.
- **Data channel** (`SessionProofs`). `SessionInv`: every intact frame under way is one
  its end sealed; counters used lie below the send counter; delivered counters are
  covered by the receive maximum; and, with one writer and no faults, counters
  increase along receive maximum, wire, queue, held frame and send counter.
- **Host networking** (`ServerStartProofs`). `HostNetInv`: the device has one holder, only it
  is past openTUN, and what it has passed in the order of the steps is in place. A
  process that fails undoes rules only while it holds the device, so it never takes
  them from a serving one; and a rule exceeds one copy only by failed look-ups.
  `MainIsHostNet` shows that main, with all else it does, takes only steps of `HostNet`,
  so that these results hold of it.
- **Key file** (`ServerStartProofs`). `KeyInv`: types; who is past config.Load has a key
  (`KeysInPlace`); and, while no two programs have made a key at once, who has a key has
  the one in the file, a maker is alone and has found none, and every key handed out is
  in the file (`OneKey`). That issued keys stay valid and a settled key never changes
  follow. `ShownInv` adds what a tool has printed, with ARNOS_PSK set or not: as long as no
  two programs made a key at once it is every server's key (`ToolMatchesUnlessRaced`).
- **Provisioning** (`ClientConfigProofs`). For every profile with a host, ParseURI reads back
  what URI wrote, with the defaults filled in (`RoundTrip`), and what was read once is
  written and read again unchanged (`SharingIsStable`). Without a host it is refused.
- **Desktop configuration** (`ClientConfigProofs`). `ConfigInv` is the type invariant,
  `AlwaysUsable` and `SaveInv`. Usability is kept by Add, Remove, SetActive and SetSettings
  because each keeps names different under EqualFold (any `Fold` that has the empty name to
  itself), and keeps the active name listed; what it needs of the list is
  what filtering it leaves (`WithoutKeeps`). `SaveInv` says what a save that is under way, or was
  cut off, has left in the file: something that LoadConfig refuses, or the list saved last.
- **Controller** (`DesktopProofs`). `ControllerInv`: flags and tunnel agree, a
  published tunnel's supervisor has not finished, and a cancel function, kept or taken
  by a Disconnect in progress, belongs to a supervised session not yet cancelled. From it,
  a cancelled supervisor has at most eight steps left and nobody's step gives it more
  (`CancelledSupervisorsWindDown`), and one that was not cancelled never ends
  (`SupervisorsPersist`). Where a Connect cannot overlap the session before, which its
  guard does not ensure, `OneSessionIsShown` proves the two promises that the overlap breaks.
- **Updater** (`DesktopProofs`). isNewer compares as one orders versions: on histories where
  each version raises a number of the one before and keeps those in front of it (`Ascending`,
  stated without isNewer) it holds exactly of a later release and an earlier
  one, whatever the number of parts, which rests on its transitivity. `BinaryInv`: off Windows
  exe is always there; on Windows exe or exe.old is, and a handler that has moved exe
  aside is alone, because what runs is locked. With `WholeInv`, if no release exceeds the
  download limit (`Oversize` is empty; see `InstalledIsWhole` for what happens otherwise),
  some whole binary survives any kill. `OrderInv`: a handler at work is about to install a
  later release than its process runs, and on Windows the latest one installed is still
  there, at exe or, while a handler replaces it, at exe.old. `SpareInv`: what runs
  is whole, and on Windows exe is, or exe.old is and everything that runs was started from
  that file, so that a cut download cannot take the last good binary, whatever the sizes
  (`WindowsKeepsSpare`). `AloneInv`: if
  no two updates overlap, what is installed is never older than what was, on any platform
  (`NoDowngradeOneByOne`).
- **Client tunnel** (`ClientTunnelProofs`). `LeakInv`: types, which goroutines there
  are before run has started pump (`NotStarted`), and the conjuncts of `NothingLeaks`. `StrandInv`
  is about waiting: while run waits for errc, each goroutine that should report there is
  alive or has reported, and whoever is left when supervise is gone finds the connection,
  device or channel it waits for closed (`NobodyIsStranded`). `Laid` says which
  routes are in the table after so many commands done or undone; it gives `RoutesRestored`.
  `InStep` ties the two components together: at which positions of run the routing is being
  set, serves or is undone. With the two halves of the default route
  in place (`HalvesLaid`) all other traffic enters the tunnel, for any servers, uplinks and
  roaming. The carrier does not if the route that configureTUN pinned has the address and the
  interface of the connection (`PinsCarrier`), because that route is in the table for as long
  as the connection lives (`CarrierPinned`). When the two differ is told below
  (`CarrierOffTunnel`, `CommandCarrierOffTunnel`, `FindsCurrentRoute`).
- **Android service** (`AndroidServiceProofs`). A link is a socket with its own session, and an
  uplink thread uses the pair it read: that is all `FramesKeepToSockets` needs beyond types.
  `StopsAreComplete` needs that sockets are numbered by `connGen` (`Numbered`), which
  devices are open and who is about to use them (`DevicesKnown`), and `Orderly`: unless something
  came late, a service that is not running opens no connection and has been or is being
  cleared, and one that is running is not being cleared and its device has its uplink.
  `AttemptInv` builds on that: unless something came late, a running service has exactly one
  thing to go on with, a start, a posted reconnect, an opening by `ctl` or its newest
  connection, so that no drop leaves it idle and none gives it two (`OneAttemptAtATime`).
  `AdvanceInv`: if at no time two uplink threads are between seal and send (`OneSends`), a
  sealed frame's counter is above all that its socket carries (`FramesAdvanceOneByOne`).

Where data is unbounded (versions, lists filtered by a recursive function), induction is by the
least counterexample: `LeastNat` takes one from the well-foundedness of the naturals.

Only model-checked: what must eventually happen, because TLAPS does not reason here about
fairness and ENABLED. For most of these the part that is safety is proved: that what
remains to be done only gets less, or that somebody is always there to do it.

| Liveness property | Proved behind it |
|---|---|
| `LostConnectionFreesAddress` | `LostConnectionsOnlyEnd`: at most ten steps remain |
| `WriterEndEndsSession` | `GoroutinesEndTogether`: the writer closes the connection as it leaves |
| `CancelledSessionEnds` | `CancelledSupervisorsWindDown`: at most eight steps remain |
| `ReconnectServes` | `SupervisorsPersist`: a supervisor that was not cancelled goes on |
| `EventuallyFresh` | `StalenessNoticed`: a pair out of date shows it |
| `EndsCompletely` | `NobodyIsStranded`, and `NothingIsLeft` for the lock |
| `KeepsTrying` | `OneAttemptAtATime`: a running service has an attempt under way |
| `SlowClientNeverBlocks` | nothing |

## Disagreements

Each property below states what a comment of the repository says, and TLC finds it
violated by what the code does. None of them belongs to a passing run. To see a
counterexample, give the property as the only one in the named configuration, with the
change in the third column. Where a theorem says under which condition the promise does
hold, the list names it.

| Property | Configuration | Change |
|---|---|---|
| `OnlyUsable` | `MCIPPool.cfg` | `Size = 1`, `Gateway = 2` |
| `TunnelKeepsReading` | `MCServerLive.cfg` | |
| `OneSessionPerHello`, `RemembersWindow` | `MCReplayGuard.cfg` | |
| `ConnectingHasOwner`, `ServingIsShown`, `DisconnectReachesAll`, `ProxyReconnectServes`, `TunReconnectServes` | `MCController.cfg` | |
| `ToolMatchesServer` | `MCServerStart.cfg` | |
| `ActiveIsShown` | `MCClientConfig.cfg` | |
| `CarrierOffTunnel`, `CommandCarrierOffTunnel` | `MCClientTunnel.cfg` | |
| `CloseReturns`, `DropIsNoticed` | `MCClientTunnel.cfg` | `SPECIFICATION FairSpec` |
| `FindsCurrentRoute` | `MCClientTunnel.cfg` | `Uplinks = {"wifi", "lte"}`, `MaxUplinks = 2` |
| `NeverDowngraded` | `MCUpdater.cfg` | |
| `InstalledIsWhole` | `MCUpdater.cfg` | `Oversize = {2}` |
| `AlwaysFreshest` | `MCCertReload.cfg` | |
| `StopDropsTunnel`, `LinkIsServed` | `MCAndroidService.cfg` | |
| `FramesAdvance` | `MCAndroidService.cfg` | `MaxPackets = 2` |

1. `OnlyUsable`: the pool "hands out /32 tunnel addresses from a CIDR" (`pool.go:10`); on a
   /32 the modulus wraps and the address after the CIDR is handed out (line 60).
2. `ConnectingHasOwner`: the controller "can connect/disconnect on demand"; a Disconnect
   that meets the supervisor's reconnect loop leaves `connecting` set
   (`controller.go:288`), and every later Connect is refused.
3. `ServingIsShown`: a supervisor that finishes after the next session was published
   resets that session's fields (`controller.go:266`), and State shows it disconnected.
   `DisconnectReachesAll`: the supervisor reconnects "until the user disconnects"
   (`controller.go:254`); a second Connect while it is between two attempts overwrites its
   cancel function, and no Disconnect stops it any more. Both hold if sessions do
   not overlap (`OneSessionIsShown`).
4. `ProxyReconnectServes`: RunProxy's comment says that its accept loops "free the ports";
   they stay in Accept (`proxy.go:89`), and in proxy mode no reconnect ever serves.
   `TunReconnectServes`: nor does one in TUN mode for as long as a session that overlaps (item 3)
   has the device of that name (`controller.go:327`).
5. `ToolMatchesServer`: `arnosvpnctl uri` "always matches what the running server accepts"
   (`cmd/arnosvpnctl/main.go:4`); if both make the first key at once, it does not.
   That is the only case (`ToolMatchesUnlessRaced`).
6. `ActiveIsShown`: SetActive "switches the active server" (`controller.go:127`); another
   spelling or an empty name is stored as given, and no server is shown as active.
7. `CarrierOffTunnel`: a host route keeps the carrier from looping (`tundev.go:14`); the
   panel pins the tunnel's own gateway instead of the server (`controller.go:327`).
   `CommandCarrierOffTunnel`: the command pins what a second look-up of the name gives
   (`cmd/arnosvpn-client/main.go:191`), which for a name with several addresses need not be the
   one that was dialled.
8. `CloseReturns`: Close "terminates the tunnel" (`tunnel.go:203`); on a connection that
   stays stalled it waits for a lock that a write without a deadline holds. It returns if
   the stall ends or TCP gives up, the fairness that `clienttunnel` assumes.
9. `DropIsNoticed`: the controller reconnects "on any unexpected drop"
   (`controller.go:253`); a ping that fails is reported to nobody (`tunnel.go:196`).
10. `FindsCurrentRoute`: "the current default route" is looked up (`tun_linux.go:13`); with
    two, the one with the worse metric is taken.
11. `NeverDowngraded`, `InstalledIsWhole`: ApplyUpdate installs "the newest desktop binary"
    (`update.go:118`); on Linux a slower handler puts an older one over it, and a download
    beyond 200 MiB is cut without an error and installed (line 209). The first holds on
    Windows and if updates do not overlap (`NoDowngradeOnWindows`, `NoDowngradeOneByOne`), the
    second below the cap (`InstalledWholeUnderCap`).
12. `AlwaysFreshest`: the hook "always serves the freshest certificate"
    (`provider.go:10`); a slow reload stores an older pair over a newer one
    (`traefik.go:118`), and a later handshake repairs it.
13. `StopDropsTunnel`: with one tap "the tunnel can be dropped" (`ArnosVpnService.kt:400`);
    a stop during a handshake leaves the socket open, and the welcome opens a device on
    the stopped service.
14. `LinkIsServed`: startUplink "pumps packets from the TUN device into the current link"
    (`ArnosVpnService.kt:289`); the next start keeps that device, whose thread has ended.
15. `FramesAdvance`: legitimate frames advance the counter (`crypto.go:209`); two uplink
    threads on one link send out of order, and the server ends the session. It holds if no
    two are between seal and send (`FramesAdvanceOneByOne`).
16. `OneSessionPerHello`: a replayed "hello cannot open a second session" (`server.go:198`).
    observe's key is the text of the salt (`replay.go:34`), while the bytes are what is
    authenticated, and bytes have several texts. It holds if each has one, as with the hellos that
    the clients write (`OneSessionIfSpelledAlike`).
17. `RemembersWindow`: the server "remembers each accepted `(salt, ts)` pair for the duration of the
    timestamp window" (`docs/PROTOCOL.md:43`); a restart empties the table. What a restart
    forgets is bounded: the hellos that were recent when it happened (`RestartForgetsOnlyRecent`).
18. `TunnelKeepsReading`: tunReadLoop "routes each" packet that arrives on the device
    (`server.go:266`); after a read error it is over (line 273), and the server goes on
    accepting clients that receive nothing.

Three more show in the models without a property of their own:

- Close "tears down host networking" (`server.go:94`), and all steps are "reversible"
  (`nat.go:17`). main leaves by os.Exit, which skips the deferred Close, so that `Shutdown`
  of `HostNet` leaves the rules; and Teardown (`Undo`) does not restore forwarding and
  deletes rules that were there before.
- The key is a "32-byte pre-shared key" (`provision.go:23`); `ParseURI` takes any length.
- A pre-release suffix is tolerated "by cutting at '-'" (`update.go:247`); the dots are split
  first, and 1.2.0-rc.1 is newer than 1.2.0 (`parseVersion` of `Versions`).

## Not modelled

- Cryptography (ideal), the text of hellos, settings and log lines, the decoy page, and
  the durations of timeouts (a timeout is a step that may happen).
- `letsencrypt.go` hands everything to autocert, and `provider.go` only chooses a source.
- The SOCKS and HTTP dialogues of the proxy and relay: connections share nothing with
  each other, and a run of RunProxy does not wait for them.
- An HTTP proxy from the environment of a subscription's request, and the cut of its body at
  4 MiB, which leaves a feed with fewer lines (`Fetchable` of `ClientConfig`).
- Read errors of an open device in the Android service.
- certFromACME's choice of an entry of `acme.json`, a pure function of the file.
- `ProfileStore.kt`, the Android list of servers, and the bridge's requests that use it.
- The log buffer is a list under one mutex that nothing waits for. Ping and the random
  headers of `fingerprint.go` change no state.
- The pages of both clients, QR codes, notifications, the list of installed apps,
  `SettingsStore` (one value, written whole) and the Android updater, which hands a file
  to the system's installer.
- Byte counters, DNS, split apps and domain rules of the Android service: they are
  arguments of the device's construction and decide no step. Crypto.kt repeats
  `crypto.go`, and Profile.kt repeats ParseURI; `Session` and `Provision` model the Go
  versions.
- `tun_other.go`, which refuses. IPv6, which no part routes.
- Goroutines that are known to stay: one watcher per run of RunTUN until the context
  ends, and the user-space device of RunProxy, which is never closed. `EndsCompletely`
  says so.

## Plan

1. Join `ClientTunnel` to `Controller`: Disconnect's wait in Close, seen from the panel.
2. Compose `AndroidService` with `Session` and `Server`: the session's end after a frame out
   of order, and the reconnect that follows.
3. The proxy's dialogues, the choice from `acme.json` and the Android list of servers.
4. Crypto.kt and Profile.kt as instances of `Session` and `Provision`, where they differ.
