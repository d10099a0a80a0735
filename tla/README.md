# packet_replay: models, checks and proofs

packet_replay replays capture files onto two network interfaces so that a device
between them sees the recorded conversation. It has a Windows GUI (`src/gui`) and a
command line (`src/src/basic_dump.cpp`) over one header-only engine (`src/src`).
This directory holds TLA+ models of the parts with interesting state, the TLC runs
that check them on small instances, and TLAPS proofs for all instances.

## 1. The system

| Part | State | Operations | Correct when |
|---|---|---|---|
| Replay control (`gui/MainFrm.cpp`, `gui/replay_action.hpp`) | `replay_data` (files, settings, the flag `started`), the thread wrapper `m_ReplayThread` and its `m_bAutoDelete` | `OnPlay`, `StopReplay`, `OnClose`, `~CMainFrame`, `ReplayThreadProc` | one replay at a time, Stop stops, Close leaves no thread behind, no capture skipped or repeated, the button comes back |
| Split replay and statistics (`traffic_replay.hpp` 366-746, `replay_action.hpp` 69-211) | three host maps, counters per capture and per replay, three lists of captures | `do_action` per capture and per packet, `clean_stats`, `dump_stats` | no packet lost from the statistics, success reported only when true, the peers of a conversation on opposite interfaces |
| Fragmenter (`ethernet_ipv4_fragmenter.hpp`) | remaining payload, offset, an 8-bit result | `do_fragment` | the fragments are the packet: consecutive, complete, within the MTU and within what was captured |
| Folder walk (`windows.hpp` 94-206) | find handles, the recursion | `dir_files`, `dir_files_recursive` | visits every capture once, notices Stop, gives its handles back |
| Settings store (`settingsTV.cpp`) | a map of typed settings in sections, a file | `init`, get, set, export, three kinds of import | what is saved is what is loaded, also after a failure, by this version or another |
| Properties pane (`PropertiesWnd.cpp`) | the grid's values | `SaveSettings`, `LoadSettings`, readers | hands the settings on unchanged |
| Interface lookup (`traffic_replay.hpp` 60-230, `windows.hpp` 36-87, `cmd_actions/*getif*`) | the list of devices | `get_ifs` with an action, `get_network_adapter` | an address or number finds its interface, its MAC and its first address |
| Command line (`basic_dump.cpp`) | the capture and the interfaces it opened | dispatch on `argv`, replay, mirror, statistics | options mean what they say, every command ends, what can be done is done |
| CPU limiter (`CPULimiter.cpp`) | the times last seen | `CalculateAndSleep` | keeps the thread to its share of the time |
| Checksums, byte order, protocol headers (`crypto`, `endian`, `protocols`) | the bytes of a packet | field access, `change_ips`, `fix_checksum` | what leaves has right checksums and is otherwise what was captured |

How they interact: the GUI thread fills `replay_data` in `OnPlay` and begins a thread.
The thread walks every selected path, hands every capture to `replay_action`, which
feeds its packets to `pcap_layer2_split_replay_t`, which hands large packets to the
fragmenter. The thread logs through `COutputWnd`; a log line is a `SendMessage` that
returns only when the GUI thread dispatches messages. The GUI thread tells the thread
to stop by an unsynchronised `bool`, which the folder walk polls.

What is hard here:

* interleavings of the two threads over `replay_data`, whose flag is raised by the
  thread and lowered by anybody;
* the lifetime of the thread wrapper, shared between MFC and the frame;
* closing while a replay runs, with the thread waiting on the window that closes;
* partial failure: any frame of any fragment of any packet may be refused;
* 16-bit and 8-bit arithmetic at packet boundaries, and sums that carry;
* state that outlives a capture (host maps) or must not (counters);
* a settings file that any version of the program, an editor or a crash may have left.

`PROJECT.json` lists these hazards at their lines with the properties aimed at them.

## 2. Modules

| Module | What it is |
|---|---|
| `ReplayControl` | the GUI thread and the replay threads |
| `MCReplayControl` | paths and selections for TLC |
| `ReplayControl_proofs` | theorems about `ReplayControl`, that it implements `ReplayJob`, and about `CPULimiter` |
| `ReplayJob` | what the window promises its user: the abstract specification |
| `ReplayImplementsJob` | the refinement mapping from `ReplayControl` to `ReplayJob` |
| `SplitReplay` | one replay: captures, packets, host maps, statistics |
| `HostKeys` | the keys of the host maps |
| `MCSplitReplay` | six small captures |
| `SplitReplay_proofs` | theorems about `SplitReplay` |
| `Fragmenter` | `do_fragment` frame by frame |
| `MCFragmenter` | packets at the boundaries of its arithmetic |
| `Fragmenter_proofs` | theorems about `Fragmenter` |
| `Settings` | the properties pane and its settings file |
| `MCSettings` | four settings and six hand-made files |
| `Settings_proofs` | theorems about `Settings` |
| `TypedSettings` | the settings library as any program may use it |
| `MCTypedSettings` | five programs, nine hand-made files |
| `TypedSettings_proofs` | theorems about `TypedSettings` |
| `Devices` | the device list and every lookup in it, as operators |
| `FolderWalk` | the two walks over the captures below a path |
| `Programs` | a whole run of the command line or of Play, over `Devices` and `FolderWalk` |
| `MCPrograms` | four devices, a tree three deep, thirty command lines |
| `Programs_proofs` | theorems about `Programs`, with the walk over any tree |
| `SequenceLemmas` | induction over numbers and sequences; `FlattenSeq`, `FoldLeft` and `IsPrefix` of the community modules |
| `Headers` | byte order, fields, sums and checksums, as operators on bytes |
| `Rewrite` | one packet from the capture to the wire, over `Headers` |
| `MCRewrite` | fourteen packets, a link of 44 bytes |
| `Rewrite_proofs` | theorems about `Rewrite`, with the arithmetic of the checksums |
| `CPULimiter` | `CalculateAndSleep` under any load |

`Programs` composes `Devices` and `FolderWalk`, `Rewrite` composes with `Headers`,
`MCSplitReplay` takes its hosts from `HostKeys`, and `ReplayImplementsJob` instantiates
`ReplayJob` over `ReplayControl`. `ReplayControl`, `SplitReplay`, `Fragmenter` and
`Rewrite` meet at what each leaves open: how many captures a path has, how many frames a
packet has, which frames the interface takes, which interface stands for which host.

An operator named `A_Something`, standing above `A`, is a *seeded bug*: `A` with a
plausible mistake, used by no specification. Put in the place of `A`, each makes TLC
report the property it is paired with in `PROJECT.json`, which shows that the
property can fail.

### ReplayControl

`gui` is where the GUI thread stands: `idle` between handlers, `selecting`,
`beginning`, `created` inside `OnPlay`, `terminating`, `destroying` inside `OnClose`,
`destroyed` after the frame's destructor, `exited`. `pc[t]` is where thread `t`
stands in `ReplayThreadProc`. A step ends wherever another thread can see or change
what it uses: each read of the flag, each operation on `files`, each log line.

| Code | Actions |
|---|---|
| `OnPlay` 388-418 | `ClickPlay`, `SelectFiles`, `BeginThread` or `BeginThreadFails`, `KeepWrapper` |
| `StopReplay` 420-427 | `ClickStop` |
| `OnClose` 438-465, `~CMainFrame` 51-62 | `ClickClose`, `Terminate`, `Destroy`, `ProcessExit` |
| `ReplayThreadProc` 337-386 | `Start`, `Log`, `InitFromIf`, `Loop`, `GetAt`, `Clear`, `Catch`, `Done`, `Exit` |
| `dir_files_recursive` 138-206, `system::sleep` 89-92 | `Walk` (the tests of the flag and the next capture), `FallAsleep` |
| `replay_action::do_action` 112-147 | `BeginPcap`, `EndPcap` |

Abstractions: the captures below a path are their number; the settings copied into
`replay_data` are not modelled one by one (they are written where `files` is); a log line is a step that needs
`WindowAnswers`. One operation on the `CStringArray` is one step. Once the
destructor freed `replay_data`, what a thread reads in it is arbitrary (`Freed`): the
flag may be up or down, an entry of `files` may be lost; a crash is `ProcessExit`.
A refused Play click changes nothing and is left out.

`AfxBeginThread` may return NULL, and `m_bAutoDelete` is then written through it (417):
`BeginThreadFails` ends the process. A delay of -1 is INFINITE for `Sleep`: with `Endless = TRUE`
a thread may fall asleep for ever before any capture, and only the end of the process moves it
again. A walk that finds the flag down leaves its folder; what the call for a subfolder
returned nobody reads (`windows.hpp` 200), so that, if another thread raises the flag
meanwhile, only that folder is lost and the walk goes on above it: the third way of `Walk`,
which drops some of the captures that are left. `IsRunning` is what a test of the flag may
answer: what is in memory, and anything once it was freed.

`Patient = TRUE` restricts the user, not the code: clicks come while nothing runs, or
while the one replay that runs has announced itself and has not been stopped.
`Patient = FALSE` allows every click whenever the GUI thread is idle.

`ReplayImplementsJob` reads a `ReplayJob` off these variables: the job is `running`
from `AfxBeginThread`, `stopping` from a click on Stop, `ending` once the files are given
up, and its captures are those below the selected paths. `CPULimiter::CalculateAndSleep`,
which the thread calls before each capture, is a stutter here and the subject of
`CPULimiter`.

### SplitReplay

One `replay_action` with its `pcap_layer2_split_replay_t`. `OpenPcap`, `EndPcap` and
`EndReplay` are `do_action`, its end, and `dump_stats` with `clean_stats`; `NotEthernet`,
`NotIPv4` and `SendPacket` are the branches of the packet handler. A host is the key
of the code's maps (hash of address and port, for TCP and UDP; of the address for the
rest, as `HostKeys` has it; the hash of the MAC address is computed and dropped, so that a
host behind another router is the same one): two keys never collide. `m_host_map` joins the three maps by transport. A packet
carries its number of fragments; `SendPacket` lets the interface take any prefix of
its frames. The history variables `seen`, `skipped`, `delivered`, `frames`, `partial`,
and `talked` record what happened, for the properties to compare the books with.
The paths on which the header of a TCP or UDP packet cannot be read need a null
pointer, which the caller excluded; they are left out. The command line's
`offline_pcaps_action_replay_t` keeps the same books.

### Fragmenter

`Packet` is the set of packets the caller hands over after `Repaired`, its repair of
the length field. `Enter`, `FullFragment`, `LastFragment` are the parts of `do_fragment`;
`Refuse` is the allocation that fails. A fragment records the bytes it carries beside
what its header claims. The result is an 8-bit number, and the offset field drops the
low three bits of a 16-bit parameter, as in the code.

### Rewrite and Headers

`Headers` has the fields of Ethernet, IPv4, TCP and UDP at their bytes, the byte order of
`endianness.hpp` on a little-endian host, and the sums of `checksum.hpp`: `Sum` adds two
bytes at a time, `Fold` adds the carries until none is left. `Rewrite` follows the bytes of
one packet: `Repair` (the length), `Address` (MAC for TCP only, IP for all), `FixChecksum`,
then `Send` or `FullFragment` and `LastFragment`. `data` is the buffer, `given` what was
captured, `wire` the frames the interface took.

What is assumed of the constants. A frame is bytes with an Ethernet header
(`traffic_replay.hpp` 487 looks no further), and if it is IPv4 it has its headers
(`FramesAssumption`): those of IPv4 with its options, those of TCP or UDP where the protocol
is one, within the length the replay will use, and at most 65535 bytes behind the Ethernet
header. The code does not ask for that, and reads and writes past what there is in a packet
that has less (section 5). The link carries the longest header of IPv4 and that of TCP, as the
code's 1500 bytes do. An interface has six bytes of a MAC and four of an IP address
(`InterfacesAssumption`).

### Programs, FolderWalk and Devices

A run begins with a job: what a command line (`Command`) or Play with the values of the pane
(`Plays`) asks for. `stage` is where the program is: opening the interfaces, finding their
MAC and IP addresses, at the files, in a walk, in the destructors. In the job, `asked` is
what the options say their values are, and `by` what the code takes them for: they differ for
`-r` with `-sip` (`basic_dump.cpp` 262).

What is assumed of the constants: an interface has a name of its own, and an IPv4 address is
that of one interface (`DevicesAssumption`); a disk holds finitely many paths, and a folder
that was found lists a dot first and then dots and paths that exist (`TreeAssumption`); items
of the explorer have a path or none (`PathsAssumption`); where the TrafficIQ options want the
number of a device there is a number (`NumbersAssumption`).

| Code | Actions |
|---|---|
| `main` 164-333, `replay_pcap_if`, `replay_pcap_ip` | `Lookup`, `Tell`, `TellAll`, `NextFile`, `PlayBack` |
| `pcap_layer2_split_replay_t::init` 411-474, `open_if` 704-719 | `OpenIf`, `FindMac`, `FindIp` |
| `pcap_mirror_replay_t` 299-350 | `OpenMirror`, `PlayBack`, `Destroy` |
| `dir_files` 98-136, `dir_files_recursive` 138-206 | `Enter`, `FirstFile`, `FirstFolder`, `NextEntry`, `EntryFile`, `Begin`, `EndListing` inside `Walk` and `DoAction` |
| `StopReplay` | `Stop`, at any time after `start()` |

`stack` holds the calls of the walk, `finds` its open handles, `begun` the captures handed on,
each with whether it began after a Stop. `FindFirstFile` of a folder lists `.` and `..` first; the
root of a drive, for which it fails, is a path that does not exist. `dir_files` takes files
with the archive attribute of one folder only, `dir_files_recursive` every file. An
interface may fail to open although it exists, which `fault` remembers. Sending through a
null `pcap_t` or closing it crashes or does nothing.

`Below`, `Listed` and `Meant` say what a walk is to hand on, as a function of the tree alone:
the paths of a folder in the order it lists them, each subfolder in its place. `WalkFaithful`
compares it with `begun`, which the calls on `stack` build step by step.

### CPULimiter

`system` and `thread` are the times `GetSystemTimes` and `GetThreadTimes` report. `Work`
lets the thread use any of `Works` while others use any of `Others`; `Within`, `Keep`, `Sleep`
and `DivideByZero` are the ways through `CalculateAndSleep`. While the thread sleeps a
unit, the total of all processors grows by any of `Rates`.

### Settings

`pane` is where the program stands with its settings: `closed` while it does not run,
`constructed`, `importing`, `loaded` up to the end of `InitPropList`, `open` while the
user works with the pane, `saving` and `writing` inside `SaveSettings`. `file` is the
sequence of lines of the settings file, `store` the map inside `settingsTV`, `grid` what
the pane shows.

| Code | Actions |
|---|---|
| `CPropertiesWnd` 80-99, `settingsTV::init` 82-136 | `Construct` |
| `LoadSettings` 425-438, `importSettingsFromFile` 410-544 | `BeginImport`, then per line `ImportLine`, `RefuseLine` or `ThrowLine`, `EndImport` |
| `InitPropList` 238-351 | `Show`, `Choose` |
| `SaveSettings` 413-423, `saveSettingsToFile` 346-407 | `SaveSettings`, `OpenFile`, `WriteSetting` per line, `CloseFile` |
| the end of the process | `Exit`, possible everywhere, between two lines of a save too |
| the user and an editor | `HandEdit`, while the program does not run |

A line is written with `endl`, which flushes it, so that a process that dies leaves a
prefix of the lines. What reading and writing a line do to a value is kept where it
matters: quotes and backslashes are escaped and read back, and an empty value, written as
`""`, ends the line for the reader. All lines the import refuses before it looks at a type
are of one kind, `broken`; the seven numeric types whose range is checked are one,
`UI8`. What `stoll` throws nobody catches, so `ThrowLine` ends the program. All settings of
the program are strings of the section "".

### TypedSettings

The same library called by any program, one call a step: `Initialize`, `Set`, the getters
(`Got`, which the invariant uses), `saveSettingsToFile`, `importSettingsFromFile` of each
kind, `End`. A text is a number, a number with something behind it, or a word, and a value
is what `stoll`, `atoll` and the stream operators make of it in the width of its type
(`Cast`, `Parsed`, `StollThrows`). `Size` has how many numbers a type holds; that of a type
whose range is checked has no more than half of those of 64 bits (`LibraryAssumption`). `kept`
remembers the store last saved. A key of the map is a section and a name, and `Sorted` their
order, which may be any: the map sorts "section.name", so that a section may come between
two names of another, and then its header is written twice. That "a.b" with "c" and "a" with
"b.c" are one key in the map (`settingsTV.cpp` 124) is left out, as are names with blanks or
quotes inside. Init and the import turn every `BOOL` into true (620-621); `Reread` says so.

## 3. Runs

| Run | Question | Bounds | Result |
|---|---|---|---|
| `control_any_user` | What survives any clicking? `TypeOK`, `ButtonNeverStuck`, `NoDanglingWrapper`, `StopLatency`, `PcapsBegunOnce`. Does every replay end, and Close? `EveryReplayEnds`, `CloseCompletes` | 2 plays, one capture or an empty selection, a delay that may be endless | holds, 171 856 states |
| `control_patient_user` | What may a patient user rely on? `NoReplayAfterFree`, `CompleteUnlessStopped`, `FilesEmptiedBeforePlay`, and the refinement `ImplementsJob` | 3 plays, a folder, a capture, a path that is gone, selections of up to two, a delay that may be endless | holds, 352 752 states |
| `fragmenter` | Are the fragments the packet? `Consecutive`, `FitsLink`, `WithinCapture`, `WholePacketSent`, `OffsetsHonest`, `Returns` | 5 length fields, 7 captured lengths, 3 header lengths | holds, 3 312 states |
| `split_replay` | Are the books and the sides right? `PacketsAccounted`, `FramesAccounted`, `SuccessMeansDelivered`, `PairsAreSplit`, `SidesFixed` | replays of up to 4 captures out of 6 | holds, 134 356 states |
| `settings` | Does what was saved come back? `SavedIsShown`, `TornSaveShown` | 4 of the 6 settings, one of each sort; 6 hand-made files | holds, 332 504 states |
| `typed_settings` | Does it for every type, section and version? `TypeOK`, `RoundTrip`, `VersionKept` | 5 programs, 6 keys, 9 hand-made files | holds, 34 304 states |
| `programs` | Does a command or a Play do what its options mean, and end? `WalkFaithful`, `AtMostOneLate`, `FindsAccounted`, `ConfiguredRight`, `RefusedForReason`, `EveryCommandEnds` | 30 command lines, 4 selections, 4 devices, 9 paths three deep | holds, 16 019 states |
| `rewrite` | Is what leaves valid, and what was captured? `ChecksumsValid`, `OnlyFixesMade` | 14 packets, 2 interfaces, a link of 44 bytes | holds, 736 states |
| `two_workers` | `OneWorker` for any user | 2 plays | violated |
| `empty_setting` | `SettingsKept` | as `settings` | violated |
| `cpu_limit` | `UsageAveraged` | 2 loads, 2 loads of others, 3 ratios, 600 units | violated |
| `folder_by_address` | `MappedByAddress` | as `programs` | violated |

Why the bounds are enough. Two plays are needed for two threads to meet, and suffice
for a pair; the third play of the patient run lets a replay begin after one that
failed and one that was stopped. For any user a second selection added to the first gives a
thread two captures; two captures in a folder, in the patient run, give the flag a place to
change within a walk. The fragmenter uses the code's own MTU with lengths on both
sides of each comparison: an MTU, two full fragments, one byte more, 16 bits exceeded.
Four captures allow a host to come back after another capture placed its peer.
Four settings are one that is chosen from a list (`cpu`; `dump_log` is another), the one
that can be typed (`delay`), the one whose initial and fallback values differ
(`frag_off`) and one that names an interface (`src_ip`; `dst_ip` is another). The files an
editor leaves have a section header in the way, an error behind a good line, a number out
of range, no number at all, a setting of no or another type, and a wrong `BOOL`. Starts,
saves and crashes are not bounded.
In `typed_settings` widths of two to five bits stand for 8 to 64, each narrower than the next
by a bit, so that a number can be too large for one type and not for another, and negative for
an unsigned one; the programs are of today, of yesterday (another type of a setting, blanks for
a name), one with a version in section ".", and two that `init` refuses or does not survive. The tree of `programs` has two folders within a folder,
a file without the archive attribute, one that is no capture and one without packets; its
devices have two addresses, an address behind one of another family, none, and no adapter;
its command lines are those of the help, each also with an option that cannot be met. The
packets of `rewrite` are the least at which each branch is taken on a link of 44 bytes (the
code's 1500 is `Fragmenter`'s); one of them has a sum that carries again after it was folded.
Every theorem of section 4 removes the bounds for its property.

Fairness. `LiveSpec` of ReplayControl has weak fairness of `Handler`: a handler of
the GUI thread runs on by itself. It has strong fairness of every worker: a log line waits
for the GUI thread to be between two handlers, and Windows dispatches a pending
`SendMessage` before it fetches the next posted click, so that clicks cannot starve a
worker. A delay ends, except one that `FallAsleep` made endless: nothing wakes such a thread,
and `EveryReplayEnds` and `EveryCommandEnds` except it by name, while `CloseCompletes` does not
need to. Nothing is assumed of the user. `Fragmenter` has weak fairness of its own
steps, and `FairSpec` of Programs of `Run`: the program runs, and nobody has to click Stop.

### What the violated runs show

* `two_workers`: `OnPlay` tests `started` (390), the thread raises it (346). A second
  click in between, or Stop followed by Play while the stopped thread is still inside
  a capture, gives two threads over one `replay_data`.
* `empty_setting`: the delay box can be emptied (`PropertiesWnd.cpp` 340); the line
  written for it is refused at the next start (`settingsTV.cpp` 467, 486), the import
  fails as a whole, and the pane shows its built-in values for all settings. The next
  Play or Close saves those.
* `cpu_limit`: the sample kept after a sleep is the one from before it
  (`CPULimiter.cpp` 84), so the sleep makes up for the work before it and is credited to the
  work after it. The share of the thread tends to twice the ratio.
* `folder_by_address`: the help offers `-r` between two addresses and says that "Map from IP to
  interface will be done automatically" (`basic_dump.cpp` 58-59), but the command takes them for
  the names of interfaces (262) and gives up. `RefusedForReason` is therefore about names
  for `-r`.

### Where the code falls short and no property speaks

A property of a passing run claims nothing where the code is known to fail. These are the
places, each also a hazard of `PROJECT.json`:

* An impatient user. A Stop before the thread's `start()` is undone by it (346). `OnClose` asks
  the flag (443), not the thread: after Stop the thread runs on while the frame frees what it
  uses, although `src/README.md` 29 says "Capture close event and stop the replaying thread.";
  `NoReplayAfterFree` is checked and proved for a patient user. A replay whose interfaces fail
  leaves its selection to the next Play (353), which `FilesEmptiedBeforePlay` excepts.
* The settings library, in settings this program does not have. `sanitizeValueString` ends with
  the text "true" for every `BOOL` (620-621), so that an import turns a setting saved false into
  true, where `settingsTV.h` 77-78 promises the settings found in the file. And a version in
  section ".", as `settingsTV.h` 51 proposes, sorts before the settings without a section: these
  then get the header `[]` (`settingsTV.cpp` 392), which the import refuses (478). `RoundTrip`
  leaves such a `BOOL` open, and promises the success of an import only without empty texts and
  such headers (`NoneEmpty`, `NoneNameless`).
* The delay between captures. The call for a subfolder does not hand it on (`windows.hpp` 200),
  so that the captures there follow at once, where `windows.hpp` 96, `PropertiesWnd.cpp` 338 and
  `src/README.md` 12 promise a delay between files. `WalkFaithful` is about which captures are begun
  and in which order.
* The checksum of an IP header with options, which is left zero (`ipv4.hpp` 98). `ChecksumsValid`
  speaks of headers without options.
* Fragments in the capture. A checksum over the one fragment is written where the header of TCP
  or UDP would be, into the payload if it is not the first (`traffic_replay.hpp` 572);
  `ChecksumsValid` says nothing of the sums of such packets, and `OnlyFixesMade` nothing of these two
  bytes, but guards all others. One that is cut again gets offsets counted from 0 and loses
  its own (`ethernet_ipv4_fragmenter.hpp` 96, 114, 154); `OffsetsHonest` speaks of packets that were whole.
* Headers with 4 or 12 bytes of options. The payload of a fragment is then no multiple of eight, and
  the offset field loses bits (`ethernet_ipv4_fragmenter.hpp` 81, `ipv4.hpp` 91): `OffsetsHonest` says
  which fragments are misplaced, and by how much at most.
* MAC addresses. Only TCP gets new ones, where `traffic_replay.hpp` 37 lists "change MACs using
  the interfaces" for every packet. `OnlyFixesMade` lets any packet have its MAC addresses changed, and
  asks for those of the two ends in TCP only.

The patient run shows that its control properties need no more than a user who
waits, and the theorems of section 4 show it for any number of plays. `SavedIsShown` shows
that empty values are the only obstacle to `SettingsKept`.

## 4. Proofs

All theorems are of the form `Spec => []P`, or `Spec => P` for an action property, for
every value of the constants that satisfies the module's named assumption. Those about
a patient user also assume `Patient = TRUE`.

**ReplayControl_proofs.** `TypeInv` strengthens `TypeOK` by `PcapPending` (a
thread that begins or plays a capture has one left, so `left` never goes below zero) and
`TerminatesOne` (`Terminate` has a wrapper to terminate). `WrapperInv` shows that the
wrapper the frame holds was never deleted: a thread begun by the handler that is still
in `created` waits at its first log line (`CreatedWaits`), so `m_bAutoDelete` is
cleared before it can end. `ButtonNeverStuck` is inductive with these. `LateInv`
gives `StopLatency`, the bound on late captures that holds for any user, however often the flag goes
up and down: a thread that may still begin a capture with the flag down has
begun none since. For a patient user `SoleWorker` says that at most one thread is active and
that the GUI thread is in `OnPlay` or past the destructor only while none is: from it follow
`NoReplayAfterFree` and `NoLiveWrapperFreed`. `StopInv` (after a Stop no thread is before its
`start()`) serves the refinement.

Its next part is the refinement. `PcapsBegunOnce` holds for any user because a thread goes through
its paths, and through the captures below each, in order: what it has begun is behind where
it stands (`Progress`). For a patient user the same invariant counts: every capture before
that place was begun unless the replay was stopped (`BegunBefore`), which gives
`CompleteUnlessStopped`, and `Emptied` gives `FilesEmptiedBeforePlay`. With both,
`ThreadsImplementJob` goes through the steps of the GUI thread and of a worker, one lemma
each, and finds for each the step of `ReplayJob` it is, or none: `GetAt` and `Walk` may lose
nothing that was promised, `Clear` comes only when all of it was begun or Stop was clicked,
and after Stop only the thread that had already read the flag can begin one more.

**Fragmenter_proofs.** `Inv` joins the types, what holds at the call, `LoopInv` (the
bytes sent so far and those remaining make up the payload, and the result counts the
fragments) and the properties of the fragments. The 8-bit result does not wrap because
a payload below 2^16 and at least 1440 bytes per fragment make fewer than 256 fragments
(`LoopNumbers`). `OffsetExact` is the arithmetic of the offset field, which keeps the multiples of
eight and rounds the others down.

**SplitReplay_proofs.** `BooksInv` keeps the sums of the counters equal to the
history together with `CleanInv` (the counters of a capture are zero between captures),
`LinkInv` and `ListedInv` (a list is empty only if its counter is zero). `Placed` says
that a host is mapped exactly if it talked; with it, two hosts with no other partner
were placed by one packet, on opposite sides.

**Settings_proofs.** `FileInv` says that, unless the user edited it, the file holds the first
lines of the settings last written, all of them once it was closed. `LoadInv` follows
the import: the store has the values of the lines it passed (`Taken`) and initial ones for
the rest, and without an empty value no line is refused (`OwnLine`). `SavedComesBack`
and `TornSave` are then a matter of the one step `Show`.

**TypedSettings_proofs.** For any sizes of the types of whole numbers, any sections and names in
any order, any initializers, setters and files. A text that a getter would give back is one of its
type's own (`Setting`); init, the setters and the import store no others (`Sanitized`,
`RenderedOwn`), since a cast has its range (`CastRange`) and a number of its type is read as it
is (`ParsedOwn`). `IInv` says that the store has only such texts, and that a file nobody edited is
`Lines` of the store last saved; `TypeCorrect` follows.

`RoundTrip` puts one loop behind another: an import of the lines that an export wrote. The export
adds for each key of `Sorted` none, one or two lines, so the induction is over these keys, and
`Comes` is its claim: once the lines of some keys are read, the import is in the section the
export is in, and the store is `Seen`, the old one with what was saved under these keys
(`Met`). It must also say when the import has failed, for good: when the keys so far are not
`Clean`. `ComesFurther` adds a key, `ReadOwnLine` being its line: a text of the store is never
refused for its value (`OwnMatches`), only for being empty, and a header only for having no name,
which is written only behind a section with one (`Named`). `SavedComesBack` is `Comes` for all keys;
`VersionStays` takes from it whether the version differs (`Differs`), and from `StoredState`, for
any file, that it is not stored.

**ReplayControl_proofs, the limiter.** What the limiter does keep, although not what its comment
says. The invariant weighs what was used since the first sample against the time that passed, the last
sleep included twice: what a sleep is credited for is no longer than that sleep, so the
thread stays below twice its share, and a sleep that was rounded down to whole milliseconds
loses less than the sleep itself, which makes three times. `LimitWithinThree` holds for any
loads, ratios and number of calls.

**SequenceLemmas.** What the proofs about `Programs` need of `FlattenSeq`, which the community
modules define by a recursive function. The induction theorems of the library take an
operator the provers cannot instantiate; `Induction` here is about a set of numbers instead, and
follows from the order of the numbers being well-founded. With it the function behind
`FlattenSeq` exists (`JoinsExist`), its values depend on what comes before alone
(`JoinsAgree`), and a list of sequences can be taken apart at both ends (`FlattenAppend`,
`FlattenFirst`, `FlattenShift`). `FoldLeft` is treated alike: a fold over no elements is its start,
and one element more is one step more (`FoldEmpty`, `FoldAppend`). What is folded is a constant
of the module, `Step`, and a module that proves about loops takes one instance for each:
`TypedSettings_proofs` has `Adding`, `Writing` and `Reading`. `SequencesInduct` is induction over
sequences, for a set of them.

**Programs_proofs.** For any devices, adapters, command lines, selections and any finite tree.
`StageInv` says which job can be at which stage, `HeldInv` what the program holds of the
interfaces, and `ConfigInv` that what was found of an end is what its options mean as far as
the configuration has come; `GetIfMeaning` and `ByNumberMeaning` are the two lookups.
`ConfiguredRightHolds` follows, and with `RefusedInv` (nothing was done before all was
configured) `RefusedForReasonHolds`.

The walk has `StackInv`: a call that waits for another is between two entries, and the k-th
call is below k - 1 folders, which bounds the handles a stopped walk leaves open
(`FindsInv`). `LateInv` says that after a capture that began late no call is at its delay: a
stopped walk only returns (`StoppedTop`). For `WalkFaithful` every call *owes* what is meant by
the rest of its listing, with the capture it is about to hand on in front (`Owed`).
`OwingInv` is the balance: what was handed on, what the calls owe from the innermost out,
and what is meant by the rest of the selection are together what was meant. A step that
begins no capture leaves what is owed as it is (`WalkOwes`), one that does moves it across
(`BeginOwes`). Once the flag is down the balance is given up, since calls return with
debts, and what is kept is that the captures handed on, with the one whose delay is being
slept, are the beginning of what was meant (`BeginningInv`). That `Below` is defined on every
tree is an induction on the length of paths, of which a finite tree has a greatest
(`Depth`, `BelowExists`).

**Rewrite_proofs.** For any packets with whole headers, any two interfaces and any link. The
arithmetic comes first. A byte order changes nothing about the sequence of bytes a field has
(`EndianFields`). `Sum`, a recursive function, exists and is a number by the induction of
`SequenceLemmas` (`SumsExist`, `SumType`); turning the two bytes of every word multiplies it by
256 up to multiples of 65535 (`SumSwapped`), so that the header, summed by `calc` in words of the
host, is balanced for a receiver who sums words of the network (`BalancedSwapped`); and a sum
over bytes of which two were zero grows by the word put there (`SumChanged`, `SumFilled`).
`Fold`, which calls itself, keeps a sum up to multiples of 65535 (`FoldValue`), so that what is
written is what balances the sum (`Complement`). `HeaderFixed` and `UpperFixed` say so of the two
checksums of a packet, wherever the checksum is and however long the payload.

Then the bytes. `SameBut(f, g, P)` is the frame condition of all writes: g is f but for the places P.
Every write of `Headers` has a lemma of this form, and lemmas say which fields are kept by
which places. `RewriteInv` follows the packet through its stages. `Traced`: the buffer is the
packet captured but for the places of the fixes, and it has what its length says (`Sound`).
`Addressed`: its header is right and bears the addresses of the ends. `Cutting`: the frames on the
wire carry the first `cut` bytes of the payload, in order and each once (`Rides`), and with
fragmentation disabled there is none yet. `Framed`: every frame begins with the header of the
packet but for length, fragment word and checksum, and what they carry is what was captured but
for the checksum, and is summed right once it is complete. It has to be this strong because the
checksum of TCP is computed over the whole packet before it is cut: that it is right for what
the receiver puts together needs the pieces to be those bytes again. The first fragment alone is
summed anew (`FirstFramed`), which is right because the link leaves room for the header of TCP.

**Checked by TLC only**: `EveryReplayEnds`, `CloseCompletes`, `Returns` and
`EveryCommandEnds`, since liveness under fairness is out of the prover's reach. Every invariant
and every action property that a passing run checks is proved.

## 5. Not modelled

* Locks of the run-time library that `TerminateThread` may leave held, and torn
  operations on a `CStringArray` used by two threads at once.
* Compiler effects of the unsynchronised flag: every test reads memory. A build that keeps it in a
  register is the seeded bug `IsRunning_Stale`, which breaks `StopLatency`.
* Time: the delay between captures is a step without duration, or an endless one, and the CPU
  limiter, the subject of `CPULimiter`, takes none in `ReplayControl`.
* Collisions of the host hashes, whose function is vendored.
* `print` of the settings library; names with blanks or quotes inside, and with dots that make two
  settings one; a disk that fills up
  while the settings are written; a machine without an IPv4 address, where the pane reads the
  first element of an empty list (`PropertiesWnd.cpp` 278).
* The snapshot limit of captures: beyond 65549 captured bytes the length repair is cut to 16
  bits (`traffic_replay.hpp` 520). A packet, or a fragment in a capture, that is shorter than the
  headers it should have: the checksum is written behind it.
* A second `init` of one replayer, which resets all counters but `m_pkt_replayed`
  (`traffic_replay.hpp` 416): no caller has one.
* What the statistics of a capture print. As committed,
  `offline_pcaps_action_stats_t.hpp` 58 uses an undeclared `pcap_file` where its parameter is
  meant; `Programs` takes it for the parameter.
* `flows.hpp`, which no file uses; layout, docking, dialogs; vendored code (WinPcap,
  jody_hash, stdint).

## 6. Plan

Done, in order of importance: `ReplayControl` with its safety, liveness and proofs;
`SplitReplay`; `Fragmenter`; `Settings`; `ReplayJob` and the refinement; `FolderWalk` with
`Devices` in `Programs`; `TypedSettings`; `Rewrite` over `Headers`; `CPULimiter`.

All safety properties that the runs check are proved. What would come next: the refinement of
`ReplayControl`'s count of captures by `FolderWalk`, and the settings file on a disk that fills up.
