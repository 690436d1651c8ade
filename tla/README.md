# A formal model of this Xinu

This directory holds TLA+ models of the operating system under `src/xinu`
(Embedded Xinu for x86 with an unfinished paging extension), the TLC
configurations that check them, and proofs for TLAPS. `PROJECT.json` lists the
components, runs, mutants, the source lines behind each definition, hazards and
theorems. Paths below are relative to `src/xinu`.

    tlc -workers 2 -config KernelSched.cfg MCKernel     # one run
    tlapm KernelProofs.tla                              # one module's proofs

## The system

| component | state | operations | what makes it correct |
|---|---|---|---|
| scheduler, processes (`system/resched.c`, `create.c`, `kill.c`, ...) | `proctab`, `currpid`, `prcount`, ready list, `preempt`, `Defer` | create, kill, suspend, resume, yield, chprio, resched | one current process, always one eligible; each process in the queue its state names; highest key first; the machine halts exactly when the last process is gone |
| queues (`queue.c`, `insert.c`, `insertd.c`, `getitem.c`) | `queuetab` | enqueue, dequeue, insert, insertd, getitem | an entry is in one queue; order by key; deltas add up |
| semaphores (`semcreate.c`, `wait.c`, `signal*.c`, `semdelete.c`, `semreset.c`) | `semtab` | the same | count and queue agree; FIFO; nobody stays on a deleted semaphore |
| messages (`send.c`, `receive.c`, `recvclr.c`, `recvtime.c`) | `prmsg`, `prhasmsg` | the same | no lost wake-up, nothing received that was not sent |
| clock (`clkhandler.c`, `sleep.c`, `unsleep.c`, `wakeup.c`) | `sleepq`, `preempt` | sleepms, timeouts, time slices | a sleeper wakes at its tick, whatever others do |
| ports (`pt*.c`) | `porttab`, `ptfree` | ptcreate, ptsend, ptrecv, ptreset, ptdelete | bounded FIFO; nodes conserved; a call never acts on another life of its port |
| memory (`getmem.c`, `getstk.c`, `freemem.c`, `meminit.c`) | three free lists, heap bounds | allocate, free | no overlap, nothing lost, neighbours merged |
| buffer pools (`mkbufpool.c`, `getbuf.c`, `freebuf.c`) | `buftab` | the same | semaphore and list agree |
| paging (`paging.c`, `pagefault_handler.c`, `vcreate.c`, `vmalloc.c`, `vfree.c`) | page directories | map, fault | unfinished in the source |
| terminal (`device/tty`) | three ring buffers, two semaphores, cursor, modes | getc, putc, read, write, control; interrupt handlers in and out | no character lost, repeated or invented; lines as edited; output resumes |
| Ethernet (`device/eth`) | two descriptor rings, two semaphores | ethread, ethwrite, interrupt handler | neither side overtakes the other; no packet counted twice |
| ARP (`net/arp.c`) | `arpcache` | arp_resolve, arp_in, arp_alloc | whoever waits gets the address asked for or an error; a late reply harms nobody |
| IP, UDP, ICMP (`net/net.c`, `ip.c`, `udp.c`, `icmp.c`) | `udptab`, `icmptab`, `ipoqueue`, `netbufpool` | register, receive with a timeout, send, release; processes netin and ipout | buffers conserved; who waits is told of the next packet, and only of one that is there |
| network clients (`net/tftp.c`, `dhcp.c`, `dns.c`) | `NetData`, the call in progress | tftpget, getlocalip, dnslookup | the file once and in order; the address that was granted; an endpoint per call |
| remote disk (`device/rds`) | request queue, cache, free list, `rd_availsem`, `rd_reqsem` | open, read, write, sync, close, delete; process rdsprocess | a read returns the last write; a write reaches the server; buffers conserved |
| remote files (`device/rfs`) | control blocks, `rf_seq`, `rf_mutex` | open, read, write, seek, close, control | what a call is told is so, though requests are executed at least once |
| local files (`device/lfs`) | directory, index and data blocks on disk; copies of one of each per open file | open, getc, putc, seek, close, truncate, create, format | a file is the bytes written to it; blocks conserved; the directory gets to the disk |
| names (`device/nam`) | `nametab` | mount, namopen | a name goes to the device of its longest prefix |
| shell (`shell/shell.c`, `lexan.c`, `addargs.c`, `system/main.c`) | the command line, the awaited child; descriptors of commands | lines, redirection, background, kill, exit | arguments as typed; waits for the right process, and not for ever; files closed once |
| date (`system/ascdate.c`, `shell/xsh_date.c`) | `Date` | ascdate, date -d | the civil calendar |
| ram disk, SD card, PXE, packet dumps, library, device switch, configuration compiler, boot code | - | - | not modelled, see the end |

**How they interact.** There is one processor. A system call disables interrupts
and runs to its end unless it gives the processor away inside `resched`, and then
what it still has to do is done when the process is next chosen. Interrupt
handlers (clock, terminal, ethernet) run between instructions of whatever process
has interrupts enabled and call `signal`, `signaln` and `wakeup`, which may switch
processes in the middle of the handler. `resched_cntl` defers that while a loop
releases several processes. Everything above the process manager uses semaphores
(ports, terminal, buffer pools, Ethernet, file systems, disk) or messages with
timeouts (ARP, UDP, ICMP, shell); the clients (remote disk and files, DHCP, DNS, TFTP)
use UDP. Those messages all go to the one word a process has for them, and some of the
defects below come from that: a message for one purpose ends, or prevents, a wait for
another.

**What is hard here** is therefore not parallelism but the places where a call is
cut in two: state read before `wait`, `send` or a callback and used after it; a
process killed at such a point; ids reused meanwhile; a timeout and an answer in the
same tick; the delta list, in which each entry's meaning depends on those before it; and,
towards the network, requests and answers that are lost, repeated and late.
`PROJECT.json` lists these hazards with the properties that cover them.

## Modules

| module | models | role |
|---|---|---|
| `Queues` | `insert`, `insertd`, `getitem`, `unsleep`'s key | operators on sequences of processes with a key function |
| `Kernel` | process manager, semaphores, messages, clock | one action per system call, interrupt, or rest of a call |
| `AlarmClock` | - | abstract: everybody asleep has a number of ticks left |
| `SemaphoreSpec` | - | abstract: units, or waiters in order, never both |
| `KernelRefines` | - | the two refinement mappings |
| `MCKernel` | - | view for the finite instances |
| `QueueProofs` | - | lemmas on sequences, and on counting what several owners have |
| `KernelProofs` | - | the inductive invariant; messages, the count of processes, the order of the ready list; the two refinements, step by step |
| `SemTable` | `semtab` as its users change it | operators of the semaphore calls, for `Ports`, `Buffers` and `Tty` |
| `Ports` | message ports | one action per call or rest of a call |
| `Channel` | - | abstract: an open port is a bounded FIFO queue; `Ports` has the mapping |
| `SemTableProofs` | - | lemmas on the semaphore table |
| `PortsProofs` | - | the invariant of ports, and their refinement |
| `Memory` | `meminit`, `getmem`, `getstk`, `freemem` and the copies for page tables and frames | free lists, one action per call |
| `MemoryProofs` | - | lemmas on free lists; the invariants of page memory, of the heap, and of the pools cut from it |
| `Buffers` | buffer pools in the storage of `Memory` | one action per call or rest of a call |
| `MCTables` | - | instance of `Ports` and `Buffers`; view, symmetry |
| `Tty` | terminal driver, both halves | one action per call, rest of a call, or interrupt |
| `LineSpec` | - | abstract: the line of a terminal; `Tty` has the mapping |
| `MCTty` | - | instance; fairness |
| `Arp` | ARP cache, resolvers, replies | the same |
| `Stack` | netin, ipout, UDP and ICMP endpoints, network buffers | the same |
| `Ethernet` | descriptor rings, driver and adapter | the same |
| `Tftp`, `Dhcp` | clients of UDP with their servers | one action per message, timeout or call |
| `MCNet` | - | instance of the five network modules |
| `NetProofs` | - | the invariants of `Arp`, `Stack`, `Ethernet`, `Tftp` and `Dhcp` |
| `DeviceProofs` | - | the invariants of `RemoteFile`, `RemoteDisk` and `Tty`; the refinement of `Tty` |
| `LocalFile` | local file system | one action per call or rest of a call |
| `LocalFileProofs` | - | the invariant of the directory of `LocalFile` |
| `FileSpec` | - | abstract: files as sequences of bytes, handles with positions |
| `RemoteFile` | remote file system with its server | one action per call, message or timeout |
| `RemoteDisk` | remote disk driver with its server | the same |
| `NameSpace` | prefixes and mapping of names | operators; one action per call |
| `CommandLine` | `lexan`, the shell's parsing, `addargs`, and the grammar they should follow | operators |
| `Shell` | the shell, the processes of commands, their files | one action per line, or part of an ending process |
| `Calendar` | `ascdate`, `date -d`, and the civil calendar | operators; one action |
| `MCStorage` | - | instance of the seven modules above; refinement to `FileSpec`, view, symmetry |

The MC modules of several components have a variable `scenario` that says which of them
moves in a behaviour. Components put together this way share no state; they are joined
by what one assumes of the next, such as that UDP may lose, repeat and delay packets,
which is what `Dhcp`, `Tftp`, `RemoteFile` and `RemoteDisk` have as their network.

### Kernel and the code

Variables carry the names of the fields they stand for (`prstate`, `prprio`, `qkey`,
`sstate`, `scount`, ...). The ready list, the sleep queue and each semaphore's queue
are sequences; `qkey` is the key field of `queuetab`, one per process, which the
ready list and the sleep queue share as they do in the code. `pc[p]` is what `p` has
left to do inside the kernel. It is set where the code calls something that may
reach `resched`:

* `kill` stops after it sent to the parent; `KillEnd` looks at the victim's state as it
  is then, which is what `kill.c:40` does. The three calls of `close` that follow the
  message act on the console unless a process redirected its descriptors, and the
  console's entry in `devtab` is `ionull`; they are left out here, and modelled in `Shell`.
* `receive` and `recvtime` continue with the message; a process woken by its timeout or
  by `send` runs the same code.
* `clkhandler` is `Clock`, then `Wakeup`/`WakeupEnd` if the first sleeper expired, then
  `ClockEnd` for the time slice; a switch inside `WakeupEnd` leaves `ClockEnd` to the
  interrupted process, as in the code.
* `signaln`, `semdelete` and `semreset` take one step per iteration between
  `DeferStart` and `DeferStop`. Nothing else can run in between (`DeferBracket`), so
  the steps only make the invariants stricter.

Calls that return `SYSERR` change nothing and are no steps. `Signal` and `Signaln` may
also happen while the null process runs: that is a device interrupt. The null process
calls nothing. `Init` is what `sysinit` leaves: the null process ready, the start-up
process current.

Left out: stacks and their memory, file descriptors, page directories (`ptype`), the
message word, names, and the counters of milliseconds and seconds. Delays are in ticks.

### Ports and the code

`porttab[c]` is a record with the fields of `struct ptentry`, its message list a
sequence. `ptfree` counts the free nodes. A semaphore is a record of state, count and
queue, changed as `wait`, `signal`, `semreset` and `semdelete` change it. Any live
process that is not in a semaphore's queue may run next: priorities are ignored, which
adds interleavings and removes none, so the safety properties shown hold of the real
scheduler's choices too. `ptsend` and `ptrecv` stop where they block in `wait`.
`_ptclear` stops where it may lose the processor: around the caller's `dispose` (which
may block), after releasing the senders, and after releasing the receivers. A process
may be killed at any of these points; one killed inside `_ptclear` leaves its port in
`PT_LIMBO` for ever, as in the code.

### Memory, buffer pools and the code

A free list is the sequence of its blocks in the order of the links. Every allocation
is rounded to 8 bytes (`roundmb`), so addresses and lengths count units of 8 bytes;
additions wrap at `WORD`, as 32-bit ones do. `Getmem` takes the low end of the first
block that fits, `Getstk` the high end of the last; a block used up leaves the list.
`Before`, `Overlaps`, `Released` and `Merged` are `freemem`'s walk, its two overlap
tests, and its coalescing with the block in front and the one behind. `getptmem`,
`getffsmem`, `freeptmem` and `freeffsmem` are copies of the same code for other lists
and are `Getpages` and `Freepages` with the list as parameter; a caller may free any
part of the memory the list is for, in other portions than it was given.

The initial lists are those of this build, in which the program is loaded at 1M
(`compile/ld.script:3`, `compile/xinu.map:1836`): `end` lies above `HOLEEND`. So
`MemoryAssumption` says `HOLEEND < end`, and the length of the first block wraps.
`minheap` and `maxheap` are left by `ptmeminit` at the bounds of the page tables, so
`freemem` refuses every block of the heap. A program that writes into storage which
overlaps a free block's header would change the list; the model does not follow it
there, and claims nothing about the heap once `AllocationsApart` is broken.

`Buffers` adds the pools: `Mkbufpool` is `getmem`, `semcreate` and the chaining of
buffers, with the `freemem` when no semaphore is left; `Getbuf` stops in `wait`. A
process waiting for a buffer can be killed; nobody returns what it held. In `Buffers`
addresses are bytes, since buffers need not be multiples of 8. Buffers are freed by
whoever has them, each once.

### The terminal and the code

`tyibuff` and `tyobuff` are the rings with their heads and tails as indices; of the
echo ring only the indices are kept. Characters are classes: an ordinary one, newline,
return, and those that erase, kill, end the file, stop and start output. `Ttyhandle_in`
has one operator per mode and per case of cooked mode, in the order of the code, and
`Ttyhandle_out` fills the UART from the echo ring, then from the output ring, up to the
count that `semcount` promises. `ttyread` is `ttygetc` in a loop (`Extract`), `ttywrite`
is `ttyputc` (`PutChar`); both are cut where they wait. A process released by `signal`
runs later, after any number of interrupts: priorities are not modelled.

Three histories say where the code deviates from its promise, and the properties excuse
just these places, and one more. `debt` counts places of the output ring that were sent before a released
writer had filled them (`ttyhandle_out.c:57` trusts a count that already includes it).
`overrun` is set when unread input is overwritten: newlines are stored without a test
for space (`ttyhandle_in.c:126`) and the test does not see what released readers were
promised. After an end of file at the last place the tail stays behind the ring
(`ttyhandle_in.c:158`). `quiet` is set when output was let go on by a character
that is not echoed: `ttyhandle_in.c:71` only clears the flag, and nothing starts the
transmitter until something is written. Further oddities are modelled as they are and
break no property: TC_NEXTC looks at the tail of the ring instead of its head; a cooked
read of no characters reads one; the echo ring is filled without a test.

### The network and the code

`Arp` is the cache with its states, and for each resolver where it is in `arp_resolve`.
The result is read from the entry after the wait as the code does, whatever ended the
wait: `arp.c:133` takes every message that is no TIMEOUT and no SYSERR for a reply.
`disturbed` marks a resolver to whom that happened, or whose entry was resolved or
taken by another.

`Stack` counts buffers; a packet is its kind, addresses and endpoint. `NetinPacket` is
one turn of `netin` (`ip_in`, `ip_local`, `udp_in`, `icmp_in`), cut where an echo request
needs another buffer. `IpoutTakes`/`IpoutSends`, `Recv`/`RecvTimer`/`RecvResumes`,
`Send`/`SendResumes` are the calls cut at `wait`, `recvtime`, `getbuf` and `arp_resolve`.
`RecvResumes` sets the slot to USED without looking (`udp.c:190`, `icmp.c:201`), which
can take it from a process that registered it meanwhile; such processes are marked as no
longer alone. ICMP queues are filled without a test, and their heads wrap at the number
of slots (`icmp.c:201`, `339`): `wild` says that memory was misused, and
nothing is claimed from then on. The pool (`net.c:38`) has one buffer more than all
queues hold, but senders, replies and netin take from it too; so every process can be
waiting for a buffer, which the run does not exclude: no property says that it
cannot happen. When `ip_send` fails, it returns without `restore`.

`Ethernet` has both rings as the adapter sees them (RDH, RDT, TDH, TDT) and as the driver
does; `TxStalled` describes the state in which all descriptors are handed over and tail
equals head, which the adapter takes for an empty ring. Initialisation of the hardware address writes
beyond its array's first six bytes (`82545EMInit.c:55`); this is left out.

`Tftp` and `Dhcp` send by adding to a set from which any message may arrive any number
of times or never. `tftp_send1` waits anew after each duplicate and does not
acknowledge it again; it takes the port of whoever answers. `getlocalip` uses one
transaction id for all calls, sends its request (never a new discover) again, and writes
`NetData` field by field; `dnslookup` does not test the id of an answer and compares
names only as far as the asked one goes. `Interrupted` is a message that ends
the wait and leaves the endpoint registered.

### Storage and the code

`LocalFile` keeps the disk (`lfdisk`: directory, index blocks, data blocks), the directory
in memory, and the control blocks with their copies of an index and a data block. A
call is one step, since the ram disk does not block, except where
another may come between: `lfsopen` searches for an open file before it holds the mutex
(`raced` marks two openings of a file at once), and `lfflush` marks the directory clean after
writing it (`missed` marks a change in between). `lfscreate` never identifies the disk, so
that `lfscheck` rejects it; formatting another disk than the one in use changes nothing
here. `lflread` and `lflwrite` give up the mutex between bytes, so a call of theirs is
any number of `Lflgetc` and `Lflputc`.

`RemoteFile` is the exchange: send, time out, receive, up to `RF_RETRIES`; the server
executes each copy it receives before the exchange ends, but answers may come at any
later time. `Doubt` is what
a caller knows of a file after a call failed that may have been executed. `rfscontrol`
for the size ignores the status of the answer.

`RemoteDisk` keeps the lists as sequences of buffers. `RdsTakes` is `rdsprocess` taking a
request, `RdsReceives` its acting on a reply, with the unlinking of equal requests as the code
does it: through the pointers of the answered buffer, so that requests queued between may
be dropped. `rd_availsem` is a count, its waiters in order. Histories: `rdlast` is what
was last written to a block, `rddoubt` the blocks of which the code has lost track,
`rdstolen` that a buffer was taken that had been promised to another. A read request
is sent without the number of its block (`rdsprocess.c:46`; `disk_block` below), and the
copies of blocks that were read are never marked valid, so reads always ask the server.

`NameSpace` maps names as `nammap` and `namrepl` do, with the length kept in a char:
from 127 characters on the rest of the name is lost. `naminit` ends with the
empty prefix, so that what is mounted later is never reached.

`CommandLine` is the loop of `lexan` as a recursive operator over characters, the cases of
`shell.c` for `&`, `<` and `>`, and `addargs`; `ArgsAsTypedIn` compares with the grammar of
the comment at `shell.c:38`. `Shell` takes the outcome: it opens files, creates the
process, clears its messages, and waits. An ending process sends its message, closes
its files and is freed in three steps (`kill.c:29-60`), since each may lose the processor.
`shghost` says that an awaited message was refused because the word was full, that
files were left open when the second `open` or the creation failed (`shell.c:274`,
`292`), and that an ending process was killed again.

`Calendar` counts hours; it compares what `ascdate` shows in successive hours.


## What the runs check

| run | instance | distinct states | shows |
|---|---|---|---|
| `kernel_sched` | 3 user processes, 2 priorities, slice 2 | 1,477,900 | `NullEligible`, `MessageWaiting`, `ShutdownNotMissed`, `DispatchFirst` |
| `kernel_sem` | 3 user processes, 1 semaphore, counts up to 1 | 2,279,964 | `SemCount`, `SemtabIsSemaphore` |
| `kernel_sleep` | 3 user processes that sleep, await messages with a timeout, send and kill; delays 1 and 2 | 1,448,770 | `PlacedOnce`, `DeferBracket`, `SleepIsAlarm` |
| `kernel_time` | 2 user processes, delays 1 to 3, slice 2, fair | 24,026 | `ReadyRuns`, `SleepersWake` |
| `kernel_halt` | 2 user processes | finding | `HaltOnlyAtLast` is violated |
| `kernel_starve` | 2 user processes, delays 0 and 2, fair | finding | `SleepersWake` is violated |
| `tables` | 6 units of heap, 5 of page tables, 3 of frames, 2 pools, 2 processes; or 3 processes, 2 ports of size 2, 3 semaphores, 2 nodes | about 404,000 | see below |
| `memory_overlap` | the same storage without pools | finding | `AllocationsApart` is violated |
| `tty` | rings of 3, 2 and 3 places, a UART of 2, all modes; 1 reader and 1 process that looks ahead, or 2 writers | 559,248 | `OutputInOrder`, `TtyIsLine`, `OutputNeverStalls` |
| `net` | 7 scenarios, see the bounds | 648,948 | see below |
| `storage` | 8 scenarios, see the bounds | about 877,000 | see below |
| `disk_block` | the remote disk of `storage` | finding | `RdsCacheHoldsBlock` is violated |

* `NullEligible`, `PlacedOnce`: the queues are what `resched` and `getitem` assume.
* `MessageWaiting`: nobody sleeps in `receive` with a message in the buffer, and nobody
  leaves it without one. (A timeout leaves it without one by design; that is
  `recvtime`.)
* `ShutdownNotMissed`: the count of processes never exceeds the processes there are, so
  the machine cannot outlive its last process. The converse is what `kernel_halt`
  refutes.
* `DispatchFirst`: a switch goes to a process with a greatest key. The instance's
  `chprio` only raises priorities, to the greatest there is: `chprio` does not move a ready
  process, whose key remains the old priority, and does not reschedule.
* `SemtabIsSemaphore`: `semtab` implements `SemaphoreSpec`; kills, resets and deletions
  included. Only a killed process leaves a queue out of turn.
* `SleepIsAlarm`: summing deltas along the list gives each sleeper's remaining ticks,
  and every step of the kernel is a step of `AlarmClock` under that mapping. It needs
  delays of at least one tick; a delay of zero breaks it, which is `kernel_starve`.
* `tables`, ports: a port is a `Channel` (`PortIsChannel`); no node is lost, and the panic
  for want of nodes happens only when the ports promise more messages than there are nodes
  (`NodesConserved`); `ptrecv` always finds the message its semaphore promised and `ptsend`
  the room (`RoomAndMessageForEach`); nobody is left on a semaphore of a past life of a port
  (`NobodyStranded`).
* `tables`, storage: every unit of page memory is in one free block or in use
  (`PagesPartitioned`), free blocks are in order and never touch (`BlocksApart`),
  storage and stacks do not overlap until as much was asked for as there is
  (`ApartUntilSpent`), `getbuf` always finds the buffer its semaphore promised
  (`BufferForEach`), and no two buffers share a byte, with each other or with a
  stack (`BuffersApart`).
* `tty`: `TtyIsLine` is the refinement of `LineSpec` (what is typed is read once, in order,
  as edited); `OutputInOrder` bounds what is sent twice or out of turn by the writers
  released and not yet running; `OutputNeverStalls` is liveness.
* `net`: a resolver returns the right address or has an excuse, and owns its entry while it
  waits undisturbed (`AnswerOrExcuse`); every buffer is in the pool, a queue or somebody's
  hands (`BuffersConserved`); who waits alone at an endpoint will be told of the next packet
  (`WaiterOwnsEndpoint`); the rings of driver and adapter agree with the semaphores
  (`RingsKept`); a download is the beginning of the file (`TftpOneFile`); addresses and
  names are answers to what was asked, and endpoints belong to one call (`ClientsServed`).
* `storage`: `FileIsSequence` is the refinement of `FileSpec`; blocks belong to one file or
  the free list (`LfsBlocksKept`), and a clean directory is on the disk
  (`DirectoryOnDisk`). What remote calls were told is so (`ToldIsTrue`). Buffers of the
  remote disk are where the semaphore says (`RdsBuffersKept`) and written data is on
  its way or with the server (`RdsWritesLand`). Names, command lines, waiting for
  commands, their files, and dates are right (`NamesMapped`, `ArgsAsTyped`, `ChildAwaited`,
  `FilesHeld`, `DatesRight`). The exceptions, which are defects of the code, are named in the
  comment of each property and gathered below.

**Bounds and why they are enough.** Three user processes are one to act, one to be acted
on and one to interfere; with the null process they fill `proctab`, so ids are reused
all the time. Two priorities distinguish preemption from round robin. One semaphore
suffices because semaphores meet only in the ready list; its count is bounded by
`MaxCount` in `Signal` and `Signaln`, and one unit already separates available from
exhausted. Three sleepers with delays of one and two ticks, set at different ticks, are
inserted before, between and behind each other, and one of them can be killed or sent a
message by a process that is awake while two others sleep (`SleepNext` in `MCKernel`
restricts the instance to the calls that matter for it); two users would never have
anybody behind the one that leaves. `kernel_time` needs only two users for its liveness
properties. Two ports of size 2 with two nodes in all can each be filled alone but
not together; three semaphores leave the second port without one, as when `semcreate`
fails; `MaxSeq` = 3 lets a port be created, deleted or reset, and created again.
`View` in `MCKernel`, `MCTables` and `MCStorage` identifies states that differ in fields nobody reads before
they are overwritten. Processes and messages of `tables` are symmetric; its only temporal property is a
safety property.

In `tables` the program ends at unit 6 and page tables begin at 14, so the heap has 6
units below the null process's stack: requests of one and of three units and `MaxSpent`
= 8 reach every way of splitting it, and beyond its end. The page memory is large
enough for three blocks with gaps between (freeing before, between and behind, with and
without touching), and a request of 12 bytes is rounded. One pool has two buffers whose
size is a multiple of 4 but not of 8, the other one buffer whose size is rounded. The
three lists share no state, so `OneAtATime` explores page memory only next to a fresh
heap; every behaviour of each list alone is still there.

The rings of `tty` wrap after few characters, and each can be full while the others are
not. Two writers are one that is released and one that overtakes it; the two halves of the
driver share only flags, so that readers and writers move in different behaviours.

In `net`, two resolvers and three hosts compete for a cache of two entries, so that entries
are taken from one another; two tries separate a retry from the last one. Two endpoints
of each protocol, queues of two (UDP) and one (ICMP) packets, and a queue of one reply can
each be full while others are not, and the ICMP queue's head wraps elsewhere than its
tail. A receive ring of 6 with batches of 2 and a transmit ring of 3 wrap and fill.
A file of 4 blocks in 2 transfers, in room for 3 or 4, has a last block that fits and one
that does not. Two callers of DHCP and DNS meet in one endpoint.

In `storage`, a block has 2 bytes and an index block 2 data blocks, so that a file of 5
bytes needs two index blocks; other disks have fewer blocks than files need. Two processes
open two files in two control blocks. The remote file server gets 3 requests with two
tries each, the remote disk 3 exchanges, from two callers for two blocks with two values in two
buffers, fewer than the requests there can be. Names are each prefix, detours
through the name space included, with an end that makes them short, about 127 or about 255
characters long. The shell has 3 process ids and 2 files and reads lines from a list
with each form of command; all lines of up to 5 characters from the 7 that
matter, and rows of up to 7 tokens against a table of 6, are parsed. Dates are the hours 0 to 3, 22 and 23
of every day of 1970-1976 (each first day of the week, leap or not as they come), 2000, 2001 and 2099, in the
three modes of daylight saving. Of states in which the code has lost track (`raced`, `rdstolen`,
`wild`, a file closed twice, all blocks in doubt) no successors are explored or nothing is
claimed.

**Fairness.** `WF(KernelStep)`: code in the kernel runs on. `SF(Clock)`: the clock keeps
interrupting, and since a pending interrupt is taken when interrupts are enabled again,
it is enough that they are enabled again and again. No fairness is assumed of what
processes choose to call: `SleepersWake` and `ReadyRuns` hold although a process may
loop for ever outside the kernel. `Tty` assumes `WF(Drain)`, the UART transmits, and
`WF(Ttyhandle_out)`, its interrupts are taken; nothing is assumed of readers, writers
and the person who types.

**Findings the runs show.** `kernel_halt`: `kill` counts down before it can lose the processor and
marks the victim free afterwards, so the same victim can be killed twice and the machine
halts with a process alive. `kernel_starve`: `recvtime(0)` puts a key of zero in front of
the sleep queue, and the next tick is charged to it; a process that polls this way
stops time for all sleepers. `memory_overlap`: `meminit` says it makes two blocks that
straddle the hole; with the program above the hole both contain the heap, and once as
much was asked for as there is (counting what was given back, which is refused) a stack
overlaps storage. `disk_block`: `rdsprocess` fills every field of a read request but the
number of the block (`rdsprocess.c:46`), so the server reads the block of the message before.

**What the properties except.** The models follow the code in these places too; the
properties say what remains true in spite of them.

* Terminal: a released writer can be overtaken; newlines overrun the input buffer, and an
  end of file at its last place leaves the tail behind it; output let go on by a character that is
  not echoed waits for the next write.
* ARP: any message ends the wait for a reply. UDP and ICMP: a receiver whose slot was
  released and registered by another puts it in state USED under that one's wait; a
  killed receiver leaves its slot in RECV, where `icmp_release` refuses it; the ICMP queue can be
  overrun.
* DHCP: a call that fails on its way leaves the endpoint registered for ever. DNS takes an answer to
  another question whose name begins the same. TFTP takes the blocks of another transfer
  for those of its own.
* Local files: two processes can open one file at once (`lfsopen.c:49`); a change of the
  directory while it is written is not marked; a new file without bytes is not on
  the disk. A disk made by `lfscreate` is rejected when it is opened.
* Remote disk: a buffer is counted as available while it is still being read, so that
  `rdsbufalloc` panics where a comment says it cannot; a write that reuses its block's copy takes that
  buffer although it was promised to a caller (`semreset` to a negative count fails unnoticed); a write queued behind a read of the same block can be lost
  with it; a reply to another request of the same type is taken for the answer; searches made
  before the wait for a buffer are stale after it; a request to synchronize has 0 for its block
  (`rdscontrol.c`), so that a read of block 0 that meets it in the queue looks no further and misses
  a write of that block behind it (`rdsread.c:52`; the attempt to prove `RdsWritesLand` found this:
  it takes three buffers, and the run has two).
* Names from 127 characters on lose their end.
* Shell: when main has made it anew it has the commands' priority, and the message of a
  background command can take the place of the awaited one, for which it then waits for
  ever; files stay open when a later step of the line fails; a process killed while it
  ends closes its descriptors twice. A line that fills the token table and
  ends in a blank is refused.
* Date: the name of the day is yesterday's in the first hour of a day with daylight
  saving; with daylight saving set on, two hours of a year are shown in a month that
  has not come, December's in one beyond the table (`ascdate.c:211`).

Every property has a mutant of the code in `PROJECT.json` that it refutes.

## What is proved

**The kernel.** `KernelProofs` proves, for every `NPROC` of at least 2, every `NSEM`, time slice, set of
priorities, counts and delays (chprio and zero delays included), and without `MaxCount`
playing a role: `TypeCorrect`, `QueuePlacement`, `NullAlwaysEligible`,
`SemaphoreCounts`, `DeletedSemaphoresEmpty` and `DeferralBracketed`, each as
`Spec => []P`. The runs check the same properties but two: types, and that a deleted semaphore's
queue is empty, which `SemtabIsSemaphore` implies on the instance. The assumptions are
`TableAssumption` and `ArgumentAssumption` of `Kernel`.

The properties are not inductive one by one. Placement in the ready list needs the
placement in the other queues (a process taken off the sleep queue is put on the ready
list without looking), that the current process is in none of them, and that the null
process is never blocked (or `Head` of the ready list is undefined and `currpid` loses
its type). Semaphore counts need placement (`kill` counts up when it removes a waiter:
one removal per waiter), need to know that only the current process can be inside a
deferred loop (so that `SemCount` may exempt that one semaphore), and that in turn needs
that `ndefers` is positive exactly then. `IInv` is the conjunction, in the parts
`SchedOK` (states, ready list and current process), `QueuesOK` (sleep queue and
semaphore queues against states), `ContOK` (continuations), `SemCount`, `FreeSemEmpty`
and `RestOK` (types). The proof has lemmas on sequences (`QueueProofs`: what insertion,
removal and dequeueing do to the set of elements), lemmas on the scheduler parametrised
by the states, list and keys at the call (`ReadyOK`, `BlockOK`, `DispatchOK`), and one
lemma per action that says the action preserves `IInv`; `StepInv` puts them together.

**Storage.** `MemoryProofs` proves of `MemSpec`, for every layout that satisfies
`MemoryAssumption` and all sets of sizes: `MemoryTyped` (`MemTypeOK`),
`PageMemoryConserved` (`PagesPartitioned`), `PageBlocksApart` (`BlocksApart`) and
`HeapApartUntilSpent` (`ApartUntilSpent`). `MaxSpent` may be any number.
`PoolsKeepStorage` says the same of `PoolsSpec`, where pools are cut from that heap.

*Page memory.* `PagesPartitioned` alone is not inductive: `freemem` tests only the
blocks next to where its walk stops, which is enough because the list is in order.
`PageInv` says the blocks are in order, with a gap between any two, inside the list's
part of memory (`Ordered`), and that they and the memory in use make up that part
(`Partition`). The lemmas are about lists, not states: taking the low end of a block
removes just that and keeps the order (`TakeLowOrdered`); after an insertion or an
extension only one pair of neighbours may touch (`AlmostOrdered`), and `Merged` repairs
it (`MergedOrdered`, `ReleasedOrdered`). They use that the list ends below `WORD`, so
that no sum wraps.

*The heap.* `HeapInv`: while less was asked for than there is, the list is exactly
two blocks, and what was handed out lies in `g` units above the program and `h` units
below the null process's stack, with `g + h = spent`. The first block's wrapped length
exceeds anything asked for, so it is never used up and `getmem` always takes from it;
the second is longer than what is left, because it contains the program, so `getstk`
always takes from it; and `freemem` refuses everything, so nothing ever comes back.

*Buffer pools.* `ABufferForEach` (`BufferForEach`) and `TheBuffersApart` (`BuffersApart`) are
about `PoolsSpec`: the pools with everything else that takes storage. `BufferForEach`
needs that every pool has a semaphore of its own and that whoever stands in its queue
waits for one of its buffers (`PoolSems`): a `freebuf` that let go somebody else would
leave a promise without a buffer. `BuffersApart` needs to know where a buffer lies. The
buffers of a pool are `Width` bytes apart and lie in one block that `getmem` handed out
(`CutFrom`), and as long as the heap is `Roomy` no two pools have one block, since
`getmem` never hands out an address twice: `Freemem` refuses every block below the page
tables, and all that is left for `getmem` begins behind all it gave away (`RoomInv`). That in turn
needs that no block reaches over the hole when an address wraps (`EndOK`), or a block
taken from the top could come round to an address among the pools. It holds
beyond the point where `getmem` and `getstk` overlap; what `BuffersApart` says of bytes is
under the condition that they do not.

**Messages, processes, dispatching.** A second part of `KernelProofs` stands on `IInv`.
`NoGarbageReceived` (`MessageWaiting`) and `ShutdownHappens` (`ShutdownNotMissed`) come
from `LifeInv`, which adds that the count of processes is behind the table by the
kills under way (`CountOK`): `kill` counts its victim off, may lose the processor while it
sends to the parent, and removes the victim later, and several kills can have one
victim. Most steps are `Quiet`: one lemma per group of calls says that they neither
create nor remove a process nor touch a message. `HighestKeyRuns` (`DispatchFirst`, an action
property) rests on the ready list staying in the order of its keys, which the lemmas on
`insert` and on removals show of every step.

**The refinements of the kernel.** `KernelProofs` proves also that `semtab` implements
`SemaphoreSpec` (`SemaphoresKeepPromise`) and the sleep queue `AlarmClock`
(`SleepQueueKeepsTime`), one lemma per step of the kernel that says which abstract step
it is, or that it is none. The second has the hypothesis `0 \notin Delays`, for the reason
`kernel_starve` shows. Its lemmas are about running sums of deltas; induction over the
list is replaced by least counterexamples: the sums are unique (`SumsUnique`), so it is
enough to exhibit those of the list after `insertd`, `unsleep`, a dequeue and a tick.

**Semaphore tables.** `SemTableProofs` has what each semaphore call does to a table whose counts
and queues agree (`SemOK`), for any users. `Ports`, `Buffers` and the terminal stand on it.

**Ports.** In `PortsProofs`, `PortsInv` says who may have which semaphore:
a port that is allocated or being cleared has its own, not free and no other's
(`OwnOK`); whoever waits there called this life of the port or will be released by the clearing
(`WaitOK`); a port has one process that clears it (`ClearOK`); lives only advance (`SeqOK`);
a reset leaves no message and its semaphores as new (`EmptyOK`). That gives `NobodyIsStranded`. `PInv` adds
what is promised: messages, and free places, suffice for the units of the semaphore and
the calls it let go (`RoomOK`), no port has more messages than it was made for (`LenOK`),
the nodes add up (`NodesOK`), and why `panic` was called (`PanicOK`). From it come
`RoomAndMessages`, `NodesAreConserved` and, with one lemma per call, `PortsAreChannels`. These
three have the hypothesis `CountsFit`: `ptmaxcnt` has 16 bits and keeps a count of
`ptcreate` modulo 65536, while the semaphore gets all of it, so that a larger one makes
a port that holds more than its own limit.

**The network.** `NetProofs`: for `Arp`, `ArpAnswersRight` (`AnswerOrExcuse`). An undisturbed
resolver owns its entry, with the address it asked for (`Owned`), and one entry at
most holds an address (`OneHolds`); both are needed, since an entry may be taken
from a waiting resolver. For `Stack`, `BuffersKept` (`BuffersConserved`) and `WaiterServed`
(`WaiterOwnsEndpoint`), for all packets that may arrive and be sent. Until memory is misused, every
queue is a ring whose head and tail are `count` apart (`RingAt`) and the buffers add up
(`Conserved`), where the ones in queues are counted with the lemmas of `QueueProofs`. A
user who waits alone at an endpoint and has been told of a packet has one (`Served`). The assumption
`ICMP_QSIZ <= ICMP_SLOTS` is what makes `icmp.c:201` wrap the head inside the array.
For `Ethernet`, `RingsAreKept` (`RingsKept`). The filled descriptors of the ring of received
packets are one arc, of which the handler has counted an initial part, and that part is
what the semaphore lets `ethread` take (`RxIs`, `RxCounts`); the adapter is behind by the
descriptors `Lent` to the driver until it crosses a boundary, so that it never reaches
a packet that is still to be read. The other ring is an arc of done descriptors followed
by one of queued ones (`TxIs`), and the units of the semaphore, the senders it let pass
and the two arcs add up to the ring, with as many senders waiting as the count is below
zero (`TxCounts`).

**Network clients.** Also in `NetProofs`: `TftpStoresOneFile` (`TftpOneFile`) and `DhcpServesClients`
(`ClientsServed`). Both use that messages never
disappear from the sets the network delivers from, so that what a message says about its
sender stays so; TFTP's needs also that blocks of a transfer are sent
in turn, DHCP's that each endpoint is of one call. The assumptions on
constants are those of the modules: kinds of messages are distinct from addresses and
names, at least one try, at least one byte per packet.

**Remote files.** In `DeviceProofs`, `RemoteFilesAreAsTold` (`ToldIsTrue`): `CallOK` relates the
server's file now to the file when the call began: it is that file, or that file with the request
executed; executing it again changes nothing, whatever other copies arrive
(`ExchangeOK`), because the mutex lets in one call at a time.

**The remote disk.** `RdsBuffersAreKept` (`RdsBuffersKept`) and `RdsWritesAreLanded`
(`RdsWritesLand`), of `DiskSpec`, for every number of buffers, retries, callers and
blocks and for all data. `ListsOK` says that the free list, the request queue and the
cache hold each buffer once, and `AvailOK` that the semaphore counts what `Room` there is beyond the
buffers promised to callers that were let go. Both are about the
driver before it panics, and the second about it before a buffer is taken from one to whom it was promised.
A write is on its way as long as its block is not in doubt, which takes four facts
about the block together (`Orderly`): at most one write of it is in the lists, with the data written last (`OneWrite`);
no read of it is queued behind that write (`NothingAfter`), and when the write is in the cache no
other copy comes before it and no read is queued (`FirstCopy`); and when no write is queued the server
has the data written last or is being told it (`Landed`). The last one needs
`RepliesOK`: an answer that bears the number of the last request belongs to
the exchange under way, so that a write is not taken for done by an older answer. Each
call changes the lists in one place, and there is a lemma for each such change (a
request queued, one taken off, a buffer used again, a copy moved to the cache).

**The terminal.** `OutputIsInOrder` (`OutputInOrder`), of `Spec` of `Tty`, for any sizes of the
rings and the UART and any number of writers. It is not inductive: that a store does not hit a
character that is still owed follows from the count of `tyosem`, which the handler
also uses for the length of what it sends. `PlacesOK` says what that count is
worth: the units that are left, the writers that were let go or wait, and the characters
owed, less the debt, are the places of the ring; and there is debt only
when nothing is owed. `InPlace` is the ring itself, `TtySemsOK` says that whoever stands in
the queue of `tyosem` is writing. The lemmas are about indices modulo the size of a ring
(`ModUnique`, `ModShift`, `ModApart`) and about whom `signaln` lets go (`SignallnOK`).

`TerminalKeepsLines` (`TtyIsLine`) is the refinement of `LineSpec`, for any size of the input
ring, any finite number of readers, among them some that only look ahead, and with both
halves of the driver moving, where the run has readers and writers in separate behaviours.
What is unread is not a variable: it is what `tyisem` has left and what readers that were let
go have still to take. `UnreadIs` makes one sum of it, the count of `tyisem` plus the readers
that were let go or wait, because whoever waits makes up for a unit the count is below
zero; so a reader that blocks, is released, or gives back a unit it only looked at leaves the
sum as it was. `InputOK` relates it to the ring as long as nothing in it was overwritten: the
tail is as far from the head, modulo the size, as there are unread and edited characters, and
it stands behind the ring only after an end of file. A store then either hits
something, which `LineSpec` allows only when the ring is full or after an end of file, or
adds one character to the end of both parts (`StoreLine`, over `RingWithOneMore`); the three ways a
store goes on are `PassedLine`, `TypedLine` and `EnteredLine`, taking the tail back is
`TakenLine`, and `ttygetc` is `ReadLine`.

**Local files.** In `LocalFileProofs`, `DirectoryIsOnDisk` (`DirectoryOnDisk`), of `LocalSpec`: any number of processes
that open files, any number of open ones, of blocks and of their sizes, and no stop once a file was
opened twice, where the run stops. The property alone is not inductive, because between the write of
the directory and the clearing of its mark other calls go on. `LfsInv` adds two things. A call that
is about to clear the mark remembers the directory it wrote as it was in memory and as it came to be on the disk, and
the two are the same (`WroteOK`), so that the mark is right when both are still current (`missed`). And the entries of
the directory are records with a size (`DirOK`), without which setting the index block of a file might be said
to change its size. The lemma the rest stands on is `SetupKnown`: either `lfsetup` writes the directory it leaves
in memory, or that directory has the files and free lists it had before; an index block is
never added without a data block (`BlockPlace`: the place of a position in an index block
is inside of it), and that addition is what writes the directory.

**Only model-checked**: liveness (`ReadyRuns`, `SleepersWake`, `OutputNeverStalls`), which
the prover does not do; `LfsBlocksKept`; `NamesMapped`;
`ChildAwaited`, `FilesHeld`, `ArgsAsTyped`; `DatesRight`; and the refinement
`FileIsSequence`. `LocalFile` finds a block of a file by walking its chain of index blocks, a
recursive function over what is on the disk, and what a walk returns after a block was
added or the chain freed is an induction over data. `CommandLine` has a recursive operator, so neither it nor `Shell` can
have theorems. `DatesRight` rests on tables that are recursive functions over
years and months, whose values the provers cannot compute.

## What is not modelled, and the plan

What the proofs leave is the list above, and the links of `queuetab` as a module that implements `Queues`.

Not modelled:

* the paging extension: in the source `vfree` is empty, `vmalloc` returns nothing,
  `free_virtual_mem` clears each entry's present bit before it tests it and so frees no
  frame, and the fault handler is a draft; there is no promise to check;
* processor, bus, Ethernet and SD card set-up: register programming;
* `pxe.c` and `mark.c`, which nothing calls; the ram disk, which copies blocks;
* packet dumps, the shell commands that print tables, the library, and the device
  switch's table: sequential code or formatting with no state shared between steps;
* the configuration compiler, a build-time program that is mostly generated by yacc and lex;
* layout of packets, byte order and checksums; the option parser of DHCP, which takes a
  pad byte for an option with a length and is called with the length of the message sent last;
* preemption between instructions of code that runs with interrupts enabled (the
  lists of `device/rds`, `lfs` without its mutexes), beyond the places named above.
