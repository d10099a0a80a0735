-------------------------------- MODULE Programs --------------------------------
(***************************************************************************)
(* A run of the command line (basic_dump.cpp) or of the thread behind Play *)
(* (gui/MainFrm.cpp) from its options to its end: which interfaces it asks *)
(* for, how it opens and describes them, which captures it hands to them,  *)
(* and what it closes.                                                     *)
(*                                                                         *)
(* The command line is sequential.  In the window, Stop comes from another *)
(* thread at any time after start().  Opening an interface and making it   *)
(* non-blocking may fail at any time; a capture may be no capture.  Using  *)
(* a null pcap_t is undefined: the program crashes or goes on.             *)
(*                                                                         *)
(* An operator X_Y is a seeded bug: what X would be with the mistake Y.    *)
(***************************************************************************)
EXTENDS Devices, FolderWalk, SequencesExt

CONSTANTS
    Lines,      \* the command lines: argv without the program's name
    Selections, \* the items that may be selected when Play is clicked: their paths,
                \* or None for those that are not in the file system
    Saved,      \* addresses the settings file may name that no interface has
    Delays,     \* what is typed for the delay
    Times       \* of the files that are captures: the times of their packets

\* Items have paths or none, and a file has one.
ASSUME PathsAssumption ==
    /\ \A items \in Selections : items \in Seq(Seq(STRING))
    /\ << >> \notin DOMAIN Times

VARIABLES
    job,      \* what the options ask for
    stage,    \* where the program is
    names,    \* src_if and dst_if
    capture,  \* offline_pcap_t of the commands that read one capture
    split,    \* the interfaces, pcap_mirror_replay_t using only the first
    todo,     \* the files of the selection not yet walked
    report,   \* pcap_count, corrupted_pcaps and what dump_stats told of the rest
    fault     \* the library refused an interface that exists

progVars == <<job, stage, names, capture, split, todo, report, fault>>
vars == <<progVars, walkVars>>

None == << >>
NoSplit == [handle |-> <<NoIf, NoIf>>, mac |-> <<{}, {}>>, ip |-> <<{}, {}>>]

-----------------------------------------------------------------------------
(* What the options mean.                                                  *)

Value == {}

\* argc and the tests on argv: a set of options, or Value for anything.
Fits(argv, shape) ==
    /\ Len(argv) = Len(shape)
    /\ \A i \in DOMAIN shape : shape[i] = Value \/ argv[i] \in shape[i]

\* A job: what it does, to which paths, through which interfaces.  `asked' is
\* what the options say src and dst are, `by' what the code takes them for,
\* and ips the addresses given beside names.
Job(kind, paths, asked, by, ends, ips, delay) ==
    [kind |-> kind, paths |-> paths, asked |-> asked, by |-> by,
     ends |-> ends, ips |-> ips, delay |-> delay]

Idle(kind, paths) == Job(kind, paths, "name", "name", None, None, 0)

Delayed(shape) == shape \o <<{"-de"}, Value>>
FolderShape == <<{"-r"}, Value, {"-s", "-sip"}, Value, {"-d", "-dip"}, Value>>
AnyIpShape == <<{"-r"}, Value, {"-si"}, Value, {"-di"}, Value,
                {"-sip"}, Value, {"-dip"}, Value>>
TrafficIqShape == <<{"-ia"}, Value, {"-ea"}, Value, {"-tfile"}, Value, {"-iport"}, Value,
                    {"-eport"}, Value, {"-retry"}, Value, {"-path"}, Value>>

\* The flag of stats.init is whether the options were -sip and -dip.
Folder_ByAddress(argv, delay) ==
    LET asked == IF argv[3] = "-sip" THEN "ip" ELSE "name"
    IN  Job("folder", <<argv[2]>>, asked, asked, <<argv[4], argv[6]>>, None, delay)

\* -r: what follows -sip is taken for the name of an interface all the same.
Folder(argv, delay) ==
    LET asked == IF argv[3] = "-sip" THEN "ip" ELSE "name"
    IN  Job("folder", <<argv[2]>>, asked, "name", <<argv[4], argv[6]>>, None, delay)

AnyIp(argv, delay) ==
    Job("folder", <<argv[2]>>, "name", "name", <<argv[4], argv[6]>>,
        <<argv[8], argv[10]>>, delay)

\* What stands for the number of a device is a number.
ASSUME NumbersAssumption ==
    \A i \in DOMAIN Lines : Fits(Lines[i], TrafficIqShape) =>
      atoi[Lines[i][2]] \in Int /\ atoi[Lines[i][4]] \in Int

\* The dispatch of main.
Command(argv) ==
    CASE Fits(argv, <<{"-l"}>>) -> Idle("list", None)
      [] Fits(argv, <<{"-v"}>>) -> Idle("version", None)
      [] Fits(argv, <<{"-p"}, Value>>) -> Idle("stats", <<argv[2]>>)
      [] Fits(argv, <<{"-s"}, Value>>) -> Idle("stats_all", <<argv[2]>>)
      [] Fits(argv, <<{"-p"}, Value, {"-i"}, Value>>) ->
           Job("mirror", <<argv[2]>>, "name", "name", <<argv[4], argv[4]>>, None, 0)
      [] Fits(argv, <<{"-p"}, Value, {"-s"}, Value, {"-d"}, Value>>) ->
           Job("replay", <<argv[2]>>, "name", "name", <<argv[4], argv[6]>>, None, 0)
      [] Fits(argv, <<{"-p"}, Value, {"-sip"}, Value, {"-dip"}, Value>>) ->
           Job("replay", <<argv[2]>>, "ip", "ip", <<argv[4], argv[6]>>, None, 0)
      [] Fits(argv, FolderShape) -> Folder(argv, 0)
      [] Fits(argv, Delayed(FolderShape)) -> Folder(argv, atoi[argv[8]])
      [] Fits(argv, AnyIpShape) -> AnyIp(argv, 0)
      [] Fits(argv, Delayed(AnyIpShape)) -> AnyIp(argv, atoi[argv[12]])
      [] Fits(argv, TrafficIqShape) ->
           Job("replay", <<Append(argv[14], argv[6])>>, "number", "number",
               <<argv[2], argv[4]>>, None, 0)
      [] OTHER -> Idle("help", None)

\* CFileExplorer::GetSelectedFiles passes over what has no path.
GetSelectedFiles(items) ==
    FlattenSeq([i \in DOMAIN items |-> IF items[i] = None THEN << >> ELSE <<items[i]>>])

\* What is in the box for the delay, a number or not.
GetDelayValue(delay) == atoi[delay]

\* Play with the values of the properties pane, whose boxes offer the addresses
\* of the interfaces and begin with those of the settings file.  Nothing is
\* begun without a file.
Plays ==
    {Job("window", files, "ip", "ip", <<src, dst>>, None, GetDelayValue(delay)) :
       files \in {GetSelectedFiles(items) : items \in Selections} \ {None},
       src \in IfNames \cup Saved, dst \in IfNames \cup Saved, delay \in Delays}

-----------------------------------------------------------------------------
(* The interfaces.                                                         *)

\* The name of the interface an option stands for: as it is, or that of the
\* device with the address.
Interface(by_address, end) == IF by_address THEN GetIf(end) ELSE end

\* Both ends; the fake TrafficIQ options number their devices.
Interfaces ==
    [side \in 1..2 |-> IF job.by = "number" THEN ByNumber(atoi[job.ends[side]])
                       ELSE Interface(job.by = "ip", job.ends[side])]

Following(at) ==
    CASE at = "open_src" -> "open_dst"
      [] at = "open_dst" -> "mac_src"
      [] at = "mac_src" -> "mac_dst"
      [] at = "mac_dst" -> "ip_src"
      [] at = "ip_src" -> "ip_dst"
      [] at = "ip_dst" -> IF job.kind = "replay" THEN "play" ELSE "files"

Side == IF stage \in {"open_src", "mac_src", "ip_src"} THEN 1 ELSE 2
Proceed(good) == stage' = IF good THEN Following(stage) ELSE "destroy"

Init ==
    /\ job \in {Command(Lines[i]) : i \in DOMAIN Lines} \cup Plays
    /\ stage = "begin"
    /\ names = <<NoIf, NoIf>>
    /\ capture = None
    /\ split = NoSplit
    /\ todo = job.paths
    /\ report = [total |-> 0, corrupted |-> None, stats |-> None]
    /\ fault = FALSE
    /\ WalkInit

\* offline_pcap_t::open
Opened(path) == path \in DOMAIN Times

NoPackets == [count |-> 0, start |-> 0, end |-> 0]

\* pcap_stat_t of a capture: its first and its last packet.
DumpStats(path) ==
    LET times == Times[path]
    IN  IF times = None THEN NoPackets
        ELSE [count |-> Len(times), start |-> Head(times), end |-> Last(times)]

\* -l, -v, help and -p with a path: one look and the end.
Tell ==
    /\ stage = "begin"
    /\ job.kind \in {"list", "version", "help", "stats"}
    /\ stage' = "destroy"
    /\ report' = IF job.kind = "stats" /\ Opened(job.paths[1])
                   THEN [report EXCEPT !.stats = <<DumpStats(job.paths[1])>>]
                   ELSE report
    /\ UNCHANGED <<job, names, capture, split, todo, fault, walkVars>>

\* -s: no interface is needed.
TellAll ==
    /\ stage = "begin"
    /\ job.kind = "stats_all"
    /\ stage' = "files"
    /\ UNCHANGED <<job, names, capture, split, todo, report, fault, walkVars>>

\* The interfaces are found; a command that replays one capture opens it
\* first, and gives up if it is none, where the mirror goes on.
Lookup ==
    /\ stage = "begin"
    /\ job.kind \in {"mirror", "replay", "folder", "window"}
    /\ names' = Interfaces
    /\ LET readable == Opened(job.paths[1])
           one == job.kind \in {"mirror", "replay"}
       IN  /\ capture' = IF one /\ readable THEN job.paths[1] ELSE None
           /\ stage' = IF job.kind = "replay" /\ ~readable THEN "destroy" ELSE "open_src"
           /\ report' = IF job.kind = "replay" /\ job.by # "number" /\ readable
                          THEN [report EXCEPT !.stats = <<DumpStats(job.paths[1])>>]
                          ELSE report
    /\ UNCHANGED <<job, split, todo, fault, walkVars>>

\* open_if, which may leave a handle behind when it fails.
OpenIf ==
    /\ stage \in {"open_src", "open_dst"}
    /\ job.kind # "mirror"
    /\ \E opens, nonblock \in BOOLEAN :
         LET open == opens /\ names[Side] \in Names
         IN  /\ split' = [split EXCEPT !.handle[Side] = IF open THEN names[Side] ELSE NoIf]
             /\ fault' = (fault \/ ~opens \/ ~nonblock)
             /\ Proceed(open /\ nonblock)
    /\ UNCHANGED <<job, names, capture, todo, report, walkVars>>

\* pcap_mirror_replay_t::init, whose answer main ignores.
OpenMirror ==
    /\ stage = "open_src"
    /\ job.kind = "mirror"
    /\ \E opens \in BOOLEAN :
         /\ split' = [split EXCEPT !.handle[1] = IF opens /\ names[1] \in Names
                                                   THEN names[1] ELSE NoIf]
         /\ fault' = ~opens
    /\ stage' = "play"
    /\ UNCHANGED <<job, names, capture, todo, report, walkVars>>

\* get_network_adapter
FindMac ==
    /\ stage \in {"mac_src", "mac_dst"}
    /\ split' = [split EXCEPT !.mac[Side] = AdapterMac(names[Side])]
    /\ Proceed(AdapterMac(names[Side]) # {})
    /\ UNCHANGED <<job, names, capture, todo, report, fault, walkVars>>

\* The addresses the packets get: those given, or the first of each interface.
FindIp ==
    /\ stage \in {"ip_src", "ip_dst"}
    /\ LET ip == IF job.ips = None THEN FirstIp(names[Side])
                 ELSE {inet_addr[a] : a \in {job.ips[Side]} \cap DOMAIN inet_addr}
       IN  /\ split' = [split EXCEPT !.ip[Side] = ip]
           /\ Proceed(ip # {})
    /\ UNCHANGED <<job, names, capture, todo, report, fault, walkVars>>

-----------------------------------------------------------------------------
(* The captures.                                                           *)

\* play_back of one capture.  The mirror sends without a look at its handle.
PlayBack ==
    /\ stage = "play"
    /\ IF capture = None THEN UNCHANGED begun
       ELSE begun' = Append(begun, [path |-> capture, late |-> FALSE])
    /\ \/ stage' = "destroy"
       \/ /\ split.handle[1] = NoIf
          /\ capture # None
          /\ Times[capture] # None
          /\ stage' = "crashed"
    /\ UNCHANGED <<job, names, capture, split, todo, report, fault, running, stack, finds>>

\* The selection is begun anew, as if its files were never taken off.
NextFile_Again ==
    /\ stage = "files"
    /\ IF todo = None \/ ~running
         THEN stage' = "destroy" /\ UNCHANGED stack
         ELSE /\ stage' = "walk"
              /\ stack' = <<Call(Head(todo), job.kind = "window", job.delay)>>
    /\ UNCHANGED <<job, names, capture, split, todo, report, fault, running, finds, begun>>

\* The loop over the selection, of one path in the command line.
NextFile ==
    /\ stage = "files"
    /\ IF todo = None \/ ~running
         THEN stage' = "destroy" /\ UNCHANGED <<stack, todo>>
         ELSE /\ stage' = "walk"
              /\ stack' = <<Call(Head(todo), job.kind = "window", job.delay)>>
              /\ todo' = Tail(todo)
    /\ UNCHANGED <<job, names, capture, split, report, fault, running, finds, begun>>

Walk ==
    /\ stage = "walk"
    /\ WalkStep
    /\ UNCHANGED progVars

\* do_action of a replay: a capture is counted, and refused if it is none.  What
\* a capture that was opened adds to the books is the subject of SplitReplay.
Replayed(file) ==
    [report EXCEPT !.total = @ + 1,
                   !.corrupted = IF Opened(file) THEN @ ELSE Append(@, file)]

\* do_action of the statistics.
Described(file) ==
    [Replayed(file) EXCEPT !.stats = IF Opened(file) THEN Append(@, DumpStats(file)) ELSE @]

DoAction ==
    /\ stage = "walk"
    /\ Begin
    /\ report' = IF job.kind = "stats_all" THEN Described(Top.file) ELSE Replayed(Top.file)
    /\ UNCHANGED <<job, stage, names, capture, split, todo, fault>>

EndWalk ==
    /\ stage = "walk"
    /\ stack = << >>
    /\ stage' = "files"
    /\ UNCHANGED <<job, names, capture, split, todo, report, fault, walkVars>>

\* StopReplay from the window's thread, after start().
Stop ==
    /\ job.kind = "window"
    /\ stage \notin {"begin", "end"}
    /\ running' = FALSE
    /\ UNCHANGED <<progVars, stack, finds, begun>>

\* The destructors.  The one of the mirror closes whatever it has.
Destroy ==
    /\ stage = "destroy"
    /\ split' = NoSplit
    /\ capture' = None
    /\ \/ stage' = "end"
       \/ /\ job.kind = "mirror"
          /\ split.handle[1] = NoIf
          /\ stage' = "crashed"
    /\ UNCHANGED <<job, names, todo, report, fault, walkVars>>

Run ==
    \/ Tell \/ TellAll \/ Lookup \/ OpenIf \/ OpenMirror \/ FindMac \/ FindIp
    \/ PlayBack \/ NextFile \/ Walk \/ DoAction \/ EndWalk \/ Destroy

Next == Run \/ Stop

Spec == Init /\ [][Next]_vars

\* The program runs; nobody has to click Stop.
FairSpec == Spec /\ WF_vars(Run)

-----------------------------------------------------------------------------
(* Properties.                                                             *)

TypeOK ==
    /\ stage \in {"begin", "open_src", "open_dst", "mac_src", "mac_dst", "ip_src", "ip_dst",
                  "play", "files", "walk", "destroy", "end", "crashed"}
    /\ \A side \in 1..2 : split.handle[side] \in Names \cup {NoIf}
    /\ \A side \in 1..2 : Cardinality(split.ip[side]) <= 1
    /\ capture = None \/ capture \in DOMAIN Times
    /\ finds \in Nat
    /\ running \in BOOLEAN /\ fault \in BOOLEAN

\* All the captures below a path in the order of the listings.
Below[path \in DOMAIN Attributes] ==
    IF IsDirectory(path)
      THEN FlattenSeq([i \in DOMAIN Entries[path] |->
             IF Entries[path][i] \in Dots THEN << >> ELSE Below[Append(path, Entries[path][i])]])
      ELSE <<path>>

\* What is to be replayed of an entry of a folder that was given.
OfEntry(path, name, recursive) ==
    LET found == Append(path, name)
    IN  IF name \in Dots \/ (~recursive /\ ~IsArchive(found)) THEN << >>
        ELSE IF recursive /\ IsDirectory(found) THEN Below[found]
        ELSE <<found>>

Listed(path, listing, recursive) ==
    FlattenSeq([i \in DOMAIN listing |-> OfEntry(path, listing[i], recursive)])

\* What is to be replayed of a path.
Meant(path, recursive) ==
    IF path \notin DOMAIN Attributes THEN << >>
    ELSE IF (recursive /\ ~IsDirectory(path)) \/ (~recursive /\ IsArchive(path))
      THEN <<path>>
    ELSE IF IsDirectory(path) THEN Listed(path, Entries[path], recursive)
    ELSE << >>

MeantOf(paths) ==
    FlattenSeq([i \in DOMAIN paths |-> Meant(paths[i], job.kind = "window")])

\* A walk hands on every capture below the paths it was given once, in the
\* order of the listings, and nothing else; a Stop or a crash cuts the list
\* short, and what is no capture is counted as corrupted (windows.hpp:98-206).
\* Of the time before each capture it says nothing: in a subfolder the code
\* does not wait as windows.hpp:96 says it does (windows.hpp:200).
WalkFaithful ==
    job.kind \in {"folder", "window", "stats_all"} =>
      LET told == [i \in DOMAIN begun |-> begun[i].path]
      IN  /\ IsPrefix(told, MeantOf(job.paths))
          /\ stage = "end" /\ todo = None /\ running => told = MeantOf(job.paths)
          /\ report.total = Len(begun)
          /\ report.corrupted =
               FlattenSeq([i \in DOMAIN begun |-> IF Opened(begun[i].path) THEN << >>
                                                 ELSE <<begun[i].path>>])

\* However deep the walk is, no more than one capture begins after a Stop: the
\* one whose delay was being slept (windows.hpp:154-158, 192-196).
AtMostOneLate == Cardinality({i \in DOMAIN begun : begun[i].late}) <= 1

\* A walk nobody stops holds one find handle for each folder it is in and gives
\* back all; a stopped one leaves no more open than there are folders within
\* folders (windows.hpp:141-204).
FindsAccounted ==
    /\ running => finds = Cardinality({i \in DOMAIN stack : stack[i].at # "enter"})
    /\ finds = 0 \/ \E path \in DOMAIN Attributes : finds <= Len(path)

\* The interfaces an end can mean: that of that name, those with that address
\* among theirs, or that with the number in the list of -l, in eight bits.
Meaning(end, sort) ==
    {Devs[i].name : i \in {i \in DOMAIN Devs :
       CASE sort = "name" -> Devs[i].name = end
         [] sort = "ip" -> \E j \in DOMAIN Devs[i].addresses :
              Devs[i].addresses[j] = [family |-> "AF_INET", ip |-> end]
         [] sort = "number" -> DumpedAs(i) = atoi[end] % 256}}

\* -r takes names, whatever the option before them (basic_dump.cpp:262).
Asked(end) == Meaning(end, IF job.kind = "folder" THEN "name" ELSE job.asked)

\* Captures are replayed between the interfaces the options mean, with the MAC
\* address of each and with the addresses given or the first of each interface
\* (traffic_replay.hpp:411-474, basic_dump.cpp:133-162, PropertiesWnd.cpp:440-469).
ConfiguredRight ==
    job.kind \in {"replay", "folder", "window"} /\ stage \in {"play", "files", "walk"} =>
      \A side \in 1..2 :
        /\ split.handle[side] \in Asked(job.ends[side])
        /\ split.mac[side] = AdapterMac(split.handle[side])
        /\ split.ip[side] = IF job.ips = None THEN FirstIp(split.handle[side])
                            ELSE {inet_addr[job.ips[side]]}

\* Whether a job can be done: its options mean interfaces with a MAC address
\* and an IPv4 address, and its one capture is a capture.
Possible ==
    /\ \A side \in 1..2 :
         \E name \in Asked(job.ends[side]) :
           /\ AdapterMac(name) # {}
           /\ IF job.ips = None THEN FirstIp(name) # {}
              ELSE job.ips[side] \in DOMAIN inet_addr
    /\ job.kind = "replay" => job.paths[1] \in DOMAIN Times

\* A replay that nobody stopped and in which the library opened what exists was
\* done if it could be, and only then (basic_dump.cpp:164-333).
RefusedForReason ==
    job.kind \in {"replay", "folder", "window"} /\ stage = "end" /\ running /\ ~fault =>
      (Possible <=> IF job.kind = "replay" THEN begun # None ELSE todo = None)

\* "Map from IP to interface will be done automatically" (basic_dump.cpp:59): a
\* replay of a folder between addresses of interfaces that can be used is done.
MappedByAddress ==
    /\ job.kind = "folder" /\ job.asked = "ip" /\ stage = "end" /\ ~fault
    /\ \A side \in 1..2 :
         \E name \in Meaning(job.ends[side], "ip") : AdapterMac(name) # {} /\ FirstIp(name) # {}
    => todo = None

\* The mirror forgets whether its interface opened, sends through a null pcap_t
\* and closes it (traffic_replay.hpp:307, 345; basic_dump.cpp:219).
MirrorBlind == job.kind = "mirror" /\ (fault \/ names[1] \notin Names)

\* Every command ends, and every replay of the window, unless it was told to
\* wait for ever; and none but a blind mirror ends by a crash.
EveryCommandEnds ==
    job.delay # Forever => <>(stage = "end" \/ (stage = "crashed" /\ MirrorBlind))
=============================================================================
