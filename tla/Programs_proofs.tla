----------------------------- MODULE Programs_proofs -----------------------------
(***************************************************************************)
(* Programs, for every list of interfaces, every tree of files, every      *)
(* command line and every selection: what a walk hands on, how many find   *)
(* handles it has, and which interfaces a replay is between.               *)
(***************************************************************************)
EXTENDS Programs, SequenceLemmas, FiniteSetTheorems

-----------------------------------------------------------------------------
(* Jobs.                                                                   *)

Replays == {"replay", "folder", "window"}
Walkers == {"folder", "window", "stats_all"}
Kinds == Replays \cup Walkers \cup {"list", "version", "help", "stats", "mirror"}

\* Whatever stands where a path is wanted, and the paths of selections.
Paths == Seq(STRING) \cup {Lines[i][2] : i \in DOMAIN Lines}
           \cup {Append(Lines[i][14], Lines[i][6]) : i \in DOMAIN Lines}

JobOK(j) ==
    /\ j.kind \in Kinds
    /\ j.paths \in Seq(Paths)
    /\ j.kind \notin {"list", "version", "help"} => j.paths # None
    /\ j.kind \in {"replay", "window"} =>
         j.asked = j.by /\ j.by \in {"name", "ip", "number"} /\ j.ips = None
    /\ j.kind = "folder" => j.by = "name"
    /\ j.kind \in Replays /\ j.by = "number" =>
         atoi[j.ends[1]] \in Int /\ atoi[j.ends[2]] \in Int

LEMMA CommandOK ==
  ASSUME NEW i \in DOMAIN Lines
  PROVE  JobOK(Command(Lines[i]))
<1>. DEFINE argv == Lines[i]
            j == Command(argv)
<1>1. <<argv[2]>> \in Seq(Paths) /\ <<argv[2]>> # << >>
  BY DEF Paths
<1>2. <<Append(argv[14], argv[6])>> \in Seq(Paths) /\ <<Append(argv[14], argv[6])>> # << >>
  BY DEF Paths
<1>3. << >> \in Seq(Paths)
  OBVIOUS
<1>. HIDE DEF argv
<1>4. \A delay : JobOK(Folder(argv, delay)) /\ JobOK(AnyIp(argv, delay))
  BY <1>1 DEF Folder, AnyIp, Job, JobOK, Kinds, Walkers, Replays, None
<1>5. \A kind \in {"list", "version", "help"} : JobOK(Idle(kind, None))
  BY <1>3 DEF Idle, Job, JobOK, Kinds, Walkers, Replays, None
<1>6. \A kind \in {"stats", "stats_all"} : JobOK(Idle(kind, <<argv[2]>>))
  BY <1>1 DEF Idle, Job, JobOK, Kinds, Walkers, Replays, None
<1>7. \A ends : JobOK(Job("mirror", <<argv[2]>>, "name", "name", ends, None, 0))
  BY <1>1 DEF Job, JobOK, Kinds, Walkers, Replays, None
<1>8. \A ends : \A sort \in {"name", "ip"} : JobOK(Job("replay", <<argv[2]>>, sort, sort, ends, None, 0))
  BY <1>1 DEF Job, JobOK, Kinds, Walkers, Replays, None
<1>9. ASSUME Fits(argv, TrafficIqShape)
      PROVE  JobOK(Job("replay", <<Append(argv[14], argv[6])>>, "number", "number",
                       <<argv[2], argv[4]>>, None, 0))
  <2>1. atoi[argv[2]] \in Int /\ atoi[argv[4]] \in Int
    BY <1>9, NumbersAssumption DEF argv
  <2>. QED
    BY <1>2, <2>1 DEF Job, JobOK, Kinds, Walkers, Replays, None
<1>. HIDE DEF JobOK
<1>. QED
  BY <1>4, <1>5, <1>6, <1>7, <1>8, <1>9 DEF Command, argv

\* The files of a selection.
LEMMA SelectedType ==
  ASSUME NEW items \in Selections
  PROVE  GetSelectedFiles(items) \in Seq(Paths)
<1>. DEFINE kept == [i \in DOMAIN items |-> IF items[i] = None THEN << >> ELSE <<items[i]>>]
<1>1. items \in Seq(Seq(STRING))
  BY PathsAssumption
<1>2. DOMAIN items = 1..Len(items) /\ Len(items) \in Nat
  BY <1>1, LenProperties
<1>3. \A i \in 1..Len(items) : items[i] \in Paths
  BY <1>1, <1>2, ElementOfSeq DEF Paths
<1>4. \A i \in 1..Len(items) : kept[i] \in Seq(Paths)
  BY <1>2, <1>3
<1>5. kept \in [1..Len(items) -> Seq(Paths)]
  BY <1>2, <1>4
<1>. HIDE DEF kept
<1>6. kept \in Seq(Seq(Paths))
  BY <1>2, <1>5, FunctionIsSeq
<1>. QED
  BY <1>6, FlattenType DEF GetSelectedFiles, kept

LEMMA PlaysOK ==
  ASSUME NEW j \in Plays
  PROVE  JobOK(j)
<1>1. PICK files \in {GetSelectedFiles(items) : items \in Selections} \ {None},
           src \in IfNames \cup Saved, dst \in IfNames \cup Saved, delay \in Delays :
        j = Job("window", files, "ip", "ip", <<src, dst>>, None, GetDelayValue(delay))
  BY SMT DEF Plays
<1>2. files \in Seq(Paths) /\ files # None
  BY SelectedType
<1>. QED
  BY <1>1, <1>2 DEF Job, JobOK, Kinds, Walkers, Replays

LEMMA InitJob == Init => JobOK(job)
BY CommandOK, PlaysOK DEF Init

-----------------------------------------------------------------------------
(* Interfaces.                                                             *)

LEMMA DevsType ==
  /\ Len(Devs) \in Nat /\ DOMAIN Devs = 1..Len(Devs)
  /\ \A i \in DOMAIN Devs :
       /\ Devs[i].name \in STRING
       /\ DOMAIN Devs[i].addresses \subseteq Nat
       /\ \A j \in DOMAIN Devs[i].addresses :
            Devs[i].addresses[j] \in [family : STRING, ip : STRING]
<1>. DEFINE Device == [name : STRING, addresses : Seq([family : STRING, ip : STRING])]
<1>1. Devs \in Seq(Device)
  BY DevicesAssumption
<1>2. Len(Devs) \in Nat /\ DOMAIN Devs = 1..Len(Devs)
  BY <1>1, LenProperties
<1>3. ASSUME NEW i \in DOMAIN Devs
      PROVE  /\ Devs[i].name \in STRING
             /\ DOMAIN Devs[i].addresses \subseteq Nat
             /\ \A j \in DOMAIN Devs[i].addresses :
                  Devs[i].addresses[j] \in [family : STRING, ip : STRING]
  <2>1. Devs[i] \in Device
    BY <1>1, <1>2, ElementOfSeq
  <2>2. Devs[i].addresses \in Seq([family : STRING, ip : STRING])
    BY <2>1
  <2>3. DOMAIN Devs[i].addresses = 1..Len(Devs[i].addresses) /\ Len(Devs[i].addresses) \in Nat
    BY <2>2, LenProperties
  <2>4. \A j \in 1..Len(Devs[i].addresses) :
          Devs[i].addresses[j] \in [family : STRING, ip : STRING]
    BY <2>2, ElementOfSeq
  <2>. QED
    BY <2>1, <2>3, <2>4
<1>. QED
  BY <1>2, <1>3

\* What get_ifs leaves begins with the first hit.
LEMMA FirstHit ==
  ASSUME NEW S, NEW devs \in Seq(S), NEW hits, hits \subseteq DOMAIN devs
  PROVE  /\ hits = {} => get_ifs(devs, hits) = << >>
         /\ hits # {} => /\ get_ifs(devs, hits) # << >>
                        /\ \E i \in hits : /\ \A j \in hits : i <= j
                                           /\ Head(get_ifs(devs, hits)) = devs[i]
<1>1. CASE hits = {}
  BY <1>1 DEF get_ifs
<1>2. CASE hits # {}
  <2>. DEFINE i == CHOOSE i \in hits : \A j \in hits : i <= j
  <2>1. hits \subseteq Nat
    BY LenProperties
  <2>2. i \in hits /\ \A j \in hits : i <= j
    BY <1>2, <2>1, LeastNumber
  <2>3. get_ifs(devs, hits) = SubSeq(devs, i, Len(devs))
    BY <1>2 DEF get_ifs
  <2>. HIDE DEF i
  <2>4. Len(devs) \in Nat /\ i \in 1..Len(devs) /\ Len(devs) \in i..Len(devs)
    BY <2>2, LenProperties
  <2>5. Head(SubSeq(devs, i, Len(devs))) = devs[i]
    BY <2>4, HeadTailOfSubSeq
  <2>6. SubSeq(devs, i, Len(devs)) # << >>
    <3>1. \A k \in i..Len(devs) : devs[k] \in S
      BY <2>4, ElementOfSeq
    <3>2. i \in Int /\ Len(devs) \in Int
      BY <2>4
    <3>3. SubSeq(devs, i, Len(devs)) = <<devs[i]>> \o SubSeq(devs, i+1, Len(devs))
      BY <2>4, <3>1, <3>2, SubSeqRecursiveFirst
    <3>4. SubSeq(devs, i+1, Len(devs)) \in Seq(S) /\ <<devs[i]>> \in Seq(S)
      BY <2>4, <3>1, SubSeqProperties
    <3>5. Len(<<devs[i]>> \o SubSeq(devs, i+1, Len(devs))) # 0
      BY <3>4, ConcatProperties
    <3>. QED
      BY <3>3, <3>5
  <2>. QED
    BY <1>2, <2>2, <2>3, <2>5, <2>6
<1>. QED
  BY <1>1, <1>2

\* An address finds the interface that has it.
LEMMA GetIfMeaning ==
  ASSUME NEW end
  PROVE  /\ GetIf(end) \in Names => Meaning(end, "ip") = {GetIf(end)}
         /\ GetIf(end) \notin Names => Meaning(end, "ip") = {}
<1>. DEFINE hits == {n \in DOMAIN Devs : \E i \in Ipv4(Devs[n]) : Devs[n].addresses[i].ip = end}
<1>1. Meaning(end, "ip") = {Devs[n].name : n \in hits}
  <2>1. \A n \in DOMAIN Devs : \A j \in DOMAIN Devs[n].addresses :
          Devs[n].addresses[j] = [family |-> "AF_INET", ip |-> end]
            <=> Devs[n].addresses[j].family = "AF_INET" /\ Devs[n].addresses[j].ip = end
    BY DevsType
  <2>. QED
    BY <2>1 DEF Meaning, Ipv4
<1>2. GetIf(end) = Found(get_ifs(Devs, hits))
  BY DEF GetIf
<1>3. hits \subseteq DOMAIN Devs /\ Devs \in Seq([name : STRING, addresses : Seq([family : STRING, ip : STRING])])
  BY DevicesAssumption
<1>4. \A m, n \in hits : Devs[m].name = Devs[n].name
  BY DevicesAssumption
<1>. HIDE DEF hits
<1>5. CASE hits = {}
  BY <1>1, <1>2, <1>3, <1>5, FirstHit, DevicesAssumption DEF Found
<1>6. CASE hits # {}
  <2>1. PICK i \in hits : get_ifs(Devs, hits) # << >> /\ Head(get_ifs(Devs, hits)) = Devs[i]
    BY <1>3, <1>6, FirstHit
  <2>2. GetIf(end) = Devs[i].name
    BY <1>2, <2>1 DEF Found
  <2>3. Devs[i].name \in Names
    BY <1>3 DEF Names
  <2>. QED
    BY <1>1, <1>4, <2>2, <2>3
<1>. QED
  BY <1>5, <1>6

\* A number finds the interface that -l prints it before.
LEMMA ByNumberMeaning ==
  ASSUME NEW end, atoi[end] \in Int
  PROVE  /\ ByNumber(atoi[end]) \in Names => Meaning(end, "number") = {ByNumber(atoi[end])}
         /\ ByNumber(atoi[end]) \notin Names => Meaning(end, "number") = {}
<1>. DEFINE numbered == [i \in DOMAIN Devs |-> [name |-> Devs[i].name, count |-> (i - 1) % 256]]
            hits == {i \in DOMAIN Devs : numbered[i].count = atoi[end] % 256}
            S == [name : STRING, count : Int]
<1>1. numbered \in Seq(S) /\ DOMAIN numbered = DOMAIN Devs
  <2>1. \A i \in 1..Len(Devs) : numbered[i] \in S
    BY DevsType
  <2>2. numbered \in [1..Len(Devs) -> S]
    BY <2>1, DevsType
  <2>. HIDE DEF numbered
  <2>3. numbered \in Seq(S)
    BY <2>2, DevsType, FunctionIsSeq
  <2>. QED
    BY <2>2, <2>3, DevsType
<1>2. ByNumber(atoi[end]) = Found(get_ifs(numbered, hits))
  BY DEF ByNumber
<1>3. Meaning(end, "number") = {Devs[i].name : i \in {i \in DOMAIN Devs : i - 1 = atoi[end] % 256}}
  BY DEF Meaning, DumpedAs
<1>4. hits = {i \in DOMAIN Devs : (i - 1) % 256 = atoi[end] % 256}
  OBVIOUS
<1>5. \A i \in DOMAIN Devs : numbered[i].name = Devs[i].name
  OBVIOUS
<1>6. hits \subseteq DOMAIN numbered
  BY <1>1
<1>. HIDE DEF numbered, hits, S
<1>7. CASE hits = {}
  <2>1. \A i \in DOMAIN Devs : i - 1 # atoi[end] % 256
    BY <1>4, <1>7, DevsType
  <2>2. Meaning(end, "number") = {}
    BY <1>3, <2>1
  <2>3. ByNumber(atoi[end]) = NoIf
    BY <1>1, <1>2, <1>6, <1>7, FirstHit DEF Found
  <2>. QED
    BY <2>2, <2>3, DevicesAssumption
<1>8. CASE hits # {}
  <2>1. PICK i \in hits : /\ \A j \in hits : i <= j
                         /\ get_ifs(numbered, hits) # << >>
                         /\ Head(get_ifs(numbered, hits)) = numbered[i]
    BY <1>1, <1>6, <1>8, FirstHit
  <2>2. i \in DOMAIN Devs /\ (i - 1) % 256 = atoi[end] % 256
    BY <1>4
  <2>3. i - 1 = atoi[end] % 256
    <3>. DEFINE m == ((i - 1) % 256) + 1
    <3>1. i \in 1..Len(Devs) /\ Len(Devs) \in Nat
      BY <2>2, DevsType
    <3>2. m \in 1..i /\ (m - 1) % 256 = (i - 1) % 256
      BY <3>1
    <3>3. m \in hits
      BY <1>4, <2>2, <3>1, <3>2, DevsType
    <3>. QED
      BY <2>1, <2>2, <3>1, <3>2, <3>3
  <2>4. ByNumber(atoi[end]) = Devs[i].name
    BY <1>2, <1>5, <2>1, <2>2 DEF Found
  <2>5. Devs[i].name \in Names
    BY <2>2 DEF Names
  <2>6. \A j \in DOMAIN Devs : j - 1 = atoi[end] % 256 => j = i
    BY <2>2, <2>3, DevsType
  <2>7. Meaning(end, "number") = {Devs[i].name}
    BY <1>3, <2>2, <2>3, <2>6
  <2>. QED
    BY <2>4, <2>5, <2>7
<1>. QED
  BY <1>7, <1>8

-----------------------------------------------------------------------------
(* The inductive invariants.                                               *)

Opening == {"open_src", "open_dst", "mac_src", "mac_dst", "ip_src", "ip_dst"}
Busy == {"play", "files", "walk"}

\* Where each kind of job can be.
StageInv ==
    /\ JobOK(job)
    /\ stage \in {"begin", "destroy", "end", "crashed"} \cup Opening \cup Busy
    /\ stage \in Opening => job.kind \in Replays \/ (job.kind = "mirror" /\ stage = "open_src")
    /\ stage = "play" => job.kind \in {"replay", "mirror"}
    /\ stage \in {"files", "walk"} => job.kind \in Walkers
    /\ stage # "walk" => stack = << >>
    /\ running \in BOOLEAN
    /\ fault \in BOOLEAN
    /\ running \/ job.kind = "window"

Macs == {Adapters[i].mac : i \in DOMAIN Adapters}
Ips == IfNames \cup {inet_addr[a] : a \in DOMAIN inet_addr}

\* What the program holds of the interfaces and of the one capture.
HeldInv ==
    /\ split \in [handle : [1..2 -> Names \cup {NoIf}], mac : [1..2 -> SUBSET Macs],
                  ip : [1..2 -> SUBSET Ips]]
    /\ \A side \in 1..2 : \A a, b \in split.ip[side] : a = b
    /\ capture = None \/ capture \in DOMAIN Times

\* The steps that come after the one that does something for an end.
OpenedBy == <<(Opening \ {"open_src"}) \cup Busy,
              (Opening \ {"open_src", "open_dst"}) \cup Busy>>
MacBy == <<{"mac_dst", "ip_src", "ip_dst"} \cup Busy, {"ip_src", "ip_dst"} \cup Busy>>
IpBy == <<{"ip_dst"} \cup Busy, Busy>>

IpOf(side) ==
    IF job.ips = None THEN FirstIp(Interfaces[side])
    ELSE {inet_addr[a] : a \in {job.ips[side]} \cap DOMAIN inet_addr}

\* What has been found and kept of an end so far.
EndInv(side) ==
    /\ stage \in OpenedBy[side] =>
         split.handle[side] = Interfaces[side] /\ Interfaces[side] \in Names
    /\ stage \in MacBy[side] =>
         split.mac[side] = AdapterMac(Interfaces[side]) /\ AdapterMac(Interfaces[side]) # {}
    /\ stage \in IpBy[side] => split.ip[side] = IpOf(side) /\ IpOf(side) # {}

ConfigInv ==
    job.kind \in Replays =>
      /\ stage \in Opening \cup Busy => names = Interfaces
      /\ \A side \in 1..2 : EndInv(side)

Done == IF job.kind = "replay" THEN begun # None ELSE todo = None

\* Nothing is done before the interfaces are configured, and what ended was
\* refused for a reason.
RefusedInv ==
    job.kind \in Replays =>
      /\ stage \in {"begin"} \cup Opening => todo = job.paths /\ begun = None
      /\ job.kind = "replay" /\ stage \in Opening \cup {"play"} =>
           capture = job.paths[1] /\ capture \in DOMAIN Times /\ begun = None
      /\ stage \in {"destroy", "end"} /\ running /\ ~fault => (Possible <=> Done)

-----------------------------------------------------------------------------
(* The walk.                                                               *)

Frame == [path : Paths, recursive : BOOLEAN, delay : {0, job.delay},
          at : {"enter", "first", "next", "entry", "sleep"}, rest : Seq(STRING), file : Paths]

\* The k-th call, outermost first, is below k - 1 folders.
FrameOK(k, f) ==
    /\ f \in Frame
    /\ f.recursive <=> job.kind = "window"
    /\ f.path \in DOMAIN Attributes => k <= Len(f.path)
    /\ f.at # "enter" => f.path \in DOMAIN Attributes
    /\ f.at \in {"enter", "first"} => f.rest = << >> /\ f.file = f.path
    /\ f.at \in {"entry", "sleep"} => f.file \in DOMAIN Attributes
    /\ f.at = "entry" => f.file # f.path
    /\ f.at = "sleep" /\ f.file = f.path => f.rest = << >>
    /\ \A i \in DOMAIN f.rest : f.rest[i] \in Dots \/ Append(f.path, f.rest[i]) \in DOMAIN Attributes

\* A call that waits for the one it made is between two entries.
Waits(s) ==
    /\ s \in Seq(Frame)
    /\ \A k \in 1..Len(s) : FrameOK(k, s[k]) /\ s[k].at = "next"

StackInv ==
    /\ todo \in Seq(Paths)
    /\ stack \in Seq(Frame)
    /\ stack # << >> => Waits(Up) /\ FrameOK(Len(stack), Top)

\* The calls that hold a find handle.
OpenCount == IF stack = << >> THEN 0 ELSE IF Top.at = "enter" THEN Len(stack) - 1 ELSE Len(stack)

FindsInv ==
    /\ finds \in Nat
    /\ OpenCount <= finds
    /\ running => finds = OpenCount
    /\ finds = 0 \/ \E path \in DOMAIN Attributes : finds <= Len(path)

Captures == IF job.kind \in Walkers THEN DOMAIN Attributes ELSE DOMAIN Times
Begun == [path : Captures, late : BOOLEAN]

\* A late capture was the last.
LateInv ==
    /\ begun \in Seq(Begun)
    /\ running => \A i \in DOMAIN begun : ~begun[i].late
    /\ \A i, j \in DOMAIN begun : begun[i].late /\ begun[j].late => i = j
    /\ (\E i \in DOMAIN begun : begun[i].late) /\ stack # << >> => Top.at # "sleep"

Capture == DOMAIN Attributes
ToldOf(b) == [i \in DOMAIN b |-> b[i].path]
Told == ToldOf(begun)

\* The captures that were none, in the order of begun.
RefusedOf(b) == [i \in DOMAIN b |-> IF Opened(b[i].path) THEN << >> ELSE <<b[i].path>>]

ReportInv ==
    job.kind \in Walkers =>
      /\ report.total = Len(begun)
      /\ report.corrupted = FlattenSeq(RefusedOf(begun))

\* What a call has still to hand on.
Owed(f) ==
    IF f.at \in {"enter", "first"} THEN Meant(f.path, f.recursive)
    ELSE (IF f.at \in {"entry", "sleep"} THEN <<f.file>> ELSE << >>)
           \o Listed(f.path, f.rest, f.recursive)

\* What all calls have, from the innermost out.
OwedAll(s) == FlattenSeq([i \in 1..Len(s) |-> Owed(s[Len(s) + 1 - i])])

\* What was handed on and what is still to be are what was meant.
Balanced == Told \o (OwedAll(stack) \o MeantOf(todo)) = MeantOf(job.paths)

\* What was handed on is the beginning of what was meant, and so it is with the
\* capture whose delay is being slept.
BeginningInv ==
    /\ IsPrefix(Told, MeantOf(job.paths))
    /\ stack # << >> /\ Top.at = "sleep" =>
         IsPrefix(Told \o <<Top.file>>, MeantOf(job.paths))

\* A walk told to stop drops what it owes.
OwingInv ==
    job.kind \in Walkers =>
      /\ running => Balanced
      /\ ~running => BeginningInv

-----------------------------------------------------------------------------
(* The stages.                                                             *)

LEMMA WalkKeeps == (WalkStep => running' = running) /\ (Begin => running' = running)
<1>1. Enter => running' = running
  BY DEF Enter, Abandon
<1>2. FirstFile => running' = running
  BY DEF FirstFile, Abandon
<1>3. FirstFolder => running' = running
  BY DEF FirstFolder
<1>4. EndListing => running' = running
  BY DEF EndListing
<1>5. NextEntry => running' = running
  BY DEF NextEntry, Abandon
<1>6. EntryFile => running' = running
  BY DEF EntryFile, Abandon
<1>7. Begin => running' = running
  BY DEF Begin
<1>. QED
  BY <1>1, <1>2, <1>3, <1>4, <1>5, <1>6, <1>7 DEF WalkStep

LEMMA JobStays == [Next]_vars => job' = job
BY DEF Next, Run, vars, progVars, Tell, TellAll, Lookup, OpenIf, OpenMirror, FindMac, FindIp,
       PlayBack, NextFile, Walk, DoAction, EndWalk, Destroy, Stop

\* Every step goes from where its kind of job can be to where it can be.
LEMMA StageStep == StageInv /\ [Next]_vars => StageInv'
<1>. SUFFICES ASSUME StageInv, [Next]_vars
              PROVE  StageInv'
  OBVIOUS
<1>0. JobOK(job)' /\ job' = job
  BY JobStays DEF StageInv
<1>. DEFINE Rest == /\ stage \in {"begin", "destroy", "end", "crashed"} \cup Opening \cup Busy
                    /\ stage \in Opening => job.kind \in Replays \/ (job.kind = "mirror" /\ stage = "open_src")
                    /\ stage = "play" => job.kind \in {"replay", "mirror"}
                    /\ stage \in {"files", "walk"} => job.kind \in Walkers
                    /\ stage # "walk" => stack = << >>
                    /\ running \in BOOLEAN
                    /\ fault \in BOOLEAN
                    /\ running \/ job.kind = "window"
<1>1. Rest /\ job.kind \in Kinds
  BY DEF StageInv, JobOK
<1>. SUFFICES Rest'
  BY <1>0 DEF StageInv
<1>. USE <1>0, <1>1 DEF Opening, Busy, Replays, Walkers, Kinds, walkVars
<1>2. CASE Tell
  BY <1>2 DEF Tell
<1>3. CASE TellAll
  BY <1>3 DEF TellAll
<1>4. CASE Lookup
  BY <1>4 DEF Lookup
<1>5. CASE OpenIf
  BY <1>5 DEF OpenIf, Proceed, Following
<1>6. CASE OpenMirror
  BY <1>6 DEF OpenMirror
<1>7. CASE FindMac
  BY <1>7 DEF FindMac, Proceed, Following
<1>8. CASE FindIp
  BY <1>8 DEF FindIp, Proceed, Following
<1>9. CASE PlayBack
  BY <1>9 DEF PlayBack
<1>10. CASE NextFile
  BY <1>10 DEF NextFile
<1>11. CASE Walk
  BY <1>11, WalkKeeps DEF Walk, progVars
<1>12. CASE DoAction
  BY <1>12, WalkKeeps DEF DoAction
<1>13. CASE EndWalk
  BY <1>13 DEF EndWalk
<1>14. CASE Destroy
  BY <1>14 DEF Destroy
<1>15. CASE Stop
  BY <1>15 DEF Stop, progVars
<1>16. CASE UNCHANGED vars
  BY <1>16 DEF vars, progVars
<1>. QED
  BY <1>2, <1>3, <1>4, <1>5, <1>6, <1>7, <1>8, <1>9, <1>10, <1>11, <1>12, <1>13, <1>14,
     <1>15, <1>16 DEF Next, Run

LEMMA StageInvariant == Spec => []StageInv
<1>1. Init => StageInv
  BY InitJob DEF Init, WalkInit, StageInv, Opening, Busy
<1>. QED
  BY <1>1, StageStep, PTL DEF Spec

-----------------------------------------------------------------------------
(* What is held.                                                           *)

\* The first address of an interface.
LEMMA FirstIpType ==
  ASSUME NEW name
  PROVE  FirstIp(name) \in SUBSET IfNames /\ \A a, b \in FirstIp(name) : a = b
<1>. DEFINE hits == {i \in DOMAIN Devs : Devs[i].name = name}
            rest == get_ifs(Devs, hits)
            ips == {Head(rest).addresses[i].ip :
                      i \in {i \in Ipv4(Head(rest)) : \A j \in Ipv4(Head(rest)) : i <= j}}
<1>1. FirstIp(name) = IF rest = << >> THEN {} ELSE ips
  BY DEF FirstIp
<1>2. hits \subseteq DOMAIN Devs /\ Devs \in Seq([name : STRING, addresses : Seq([family : STRING, ip : STRING])])
  BY DevicesAssumption
<1>. HIDE DEF hits
<1>3. CASE rest = << >>
  BY <1>1, <1>3
<1>4. CASE rest # << >>
  <2>1. PICK n \in DOMAIN Devs : Head(rest) = Devs[n]
    BY <1>2, <1>4, FirstHit
  <2>. HIDE DEF rest
  <2>2. Ipv4(Devs[n]) \subseteq Nat
    BY DevsType DEF Ipv4
  <2>3. ips \subseteq IfNames
    BY <2>1 DEF IfNames
  <2>4. \A i, j \in Ipv4(Devs[n]) : i <= j /\ j <= i => i = j
    BY <2>2
  <2>5. \A a, b \in ips : a = b
    BY <2>1, <2>4
  <2>. QED
    BY <1>1, <1>4, <2>3, <2>5
<1>. QED
  BY <1>3, <1>4

LEMMA AdapterMacType ==
  ASSUME NEW name
  PROVE  AdapterMac(name) \in SUBSET {Adapters[i].mac : i \in DOMAIN Adapters}
<1>. DEFINE hits == {i \in DOMAIN Adapters :
                       /\ Adapters[i].length = 6
                       /\ name \in DOMAIN Guid
                       /\ Adapters[i].guid = Guid[name]}
            least == CHOOSE i \in hits : \A j \in hits : i <= j
<1>1. AdapterMac(name) = IF hits = {} THEN {} ELSE {Adapters[least].mac}
  BY DEF AdapterMac
<1>2. DOMAIN Adapters \subseteq Nat
  BY DevicesAssumption
<1>3. hits \subseteq DOMAIN Adapters
  OBVIOUS
<1>. HIDE DEF hits
<1>4. CASE hits # {}
  <2>1. least \in hits
    BY <1>2, <1>3, <1>4, LeastNumber
  <2>. HIDE DEF least
  <2>. QED
    BY <1>1, <1>3, <2>1
<1>. QED
  BY <1>1, <1>4

LEMMA HeldStep == StageInv /\ HeldInv /\ [Next]_vars => HeldInv'
<1>. SUFFICES ASSUME StageInv, HeldInv, [Next]_vars
              PROVE  HeldInv'
  OBVIOUS
<1>. DEFINE Type == [handle : [1..2 -> Names \cup {NoIf}], mac : [1..2 -> SUBSET Macs],
                     ip : [1..2 -> SUBSET Ips]]
<1>1. Side \in 1..2
  BY DEF Side
<1>2. CASE UNCHANGED <<split, capture>>
  BY <1>2 DEF HeldInv
<1>3. ASSUME split' \in Type, split'.ip = split.ip, UNCHANGED capture
      PROVE  HeldInv'
  BY <1>3 DEF HeldInv
<1>4. CASE Lookup
  BY <1>4 DEF Lookup, HeldInv, Opened, None
<1>5. CASE OpenIf
  <2>1. PICK handle \in Names \cup {NoIf} : split' = [split EXCEPT !.handle[Side] = handle]
    BY <1>5 DEF OpenIf
  <2>2. split' \in Type /\ split'.ip = split.ip
    BY <1>1, <2>1 DEF HeldInv
  <2>. QED
    BY <1>3, <1>5, <2>2 DEF OpenIf
<1>6. CASE OpenMirror
  <2>1. PICK handle \in Names \cup {NoIf} : split' = [split EXCEPT !.handle[1] = handle]
    BY <1>6 DEF OpenMirror
  <2>2. split' \in Type /\ split'.ip = split.ip
    BY <2>1 DEF HeldInv
  <2>. QED
    BY <1>3, <1>6, <2>2 DEF OpenMirror
<1>7. CASE FindMac
  <2>1. split' = [split EXCEPT !.mac[Side] = AdapterMac(names[Side])]
    BY <1>7 DEF FindMac
  <2>2. AdapterMac(names[Side]) \in SUBSET Macs
    BY AdapterMacType DEF Macs
  <2>3. split' \in Type /\ split'.ip = split.ip
    BY <1>1, <2>1, <2>2 DEF HeldInv
  <2>. QED
    BY <1>3, <1>7, <2>3 DEF FindMac
<1>8. CASE FindIp
  <2>. DEFINE ip == IF job.ips = None THEN FirstIp(names[Side])
                    ELSE {inet_addr[a] : a \in {job.ips[Side]} \cap DOMAIN inet_addr}
  <2>1. split' = [split EXCEPT !.ip[Side] = ip] /\ UNCHANGED capture
    BY <1>8 DEF FindIp
  <2>2. ip \in SUBSET Ips /\ \A a, b \in ip : a = b
    BY FirstIpType DEF Ips
  <2>. HIDE DEF ip
  <2>3. split' \in Type
    BY <1>1, <2>1, <2>2 DEF HeldInv
  <2>4. \A side \in 1..2 : split'.ip[side] = IF side = Side THEN ip ELSE split.ip[side]
    BY <1>1, <2>1 DEF HeldInv
  <2>5. \A side \in 1..2 : \A a, b \in split'.ip[side] : a = b
    BY <2>2, <2>4 DEF HeldInv
  <2>. QED
    BY <2>1, <2>3, <2>5 DEF HeldInv
<1>9. CASE Destroy
  <2>1. split' = NoSplit /\ capture' = None
    BY <1>9 DEF Destroy
  <2>2. NoSplit \in Type /\ \A side \in 1..2 : NoSplit.ip[side] = {}
    BY DEF NoSplit
  <2>. QED
    BY <2>1, <2>2 DEF HeldInv
<1>10. CASE Tell \/ TellAll \/ PlayBack \/ NextFile \/ Walk \/ DoAction \/ EndWalk \/ Stop
            \/ UNCHANGED vars
  BY <1>2, <1>10 DEF Tell, TellAll, PlayBack, NextFile, Walk, DoAction, EndWalk, Stop, vars, progVars
<1>. QED
  BY <1>4, <1>5, <1>6, <1>7, <1>8, <1>9, <1>10 DEF Next, Run

LEMMA HeldInvariant == Spec => []HeldInv
<1>1. Init => HeldInv
  <2>1. NoSplit \in [handle : [1..2 -> Names \cup {NoIf}], mac : [1..2 -> SUBSET Macs],
                     ip : [1..2 -> SUBSET Ips]]
    BY DEF NoSplit
  <2>2. \A side \in 1..2 : NoSplit.ip[side] = {}
    BY DEF NoSplit
  <2>. QED
    BY <2>1, <2>2 DEF Init, HeldInv
<1>. QED
  BY <1>1, HeldStep, StageInvariant, PTL DEF Spec

-----------------------------------------------------------------------------
(* The configuration.                                                      *)

\* What a step leaves of an end that it does not configure.
LEMMA EndStays ==
  ASSUME NEW side \in 1..2, EndInv(side), job' = job,
         stage' \in OpenedBy[side] => stage \in OpenedBy[side] /\ split'.handle[side] = split.handle[side],
         stage' \in MacBy[side] => stage \in MacBy[side] /\ split'.mac[side] = split.mac[side],
         stage' \in IpBy[side] => stage \in IpBy[side] /\ split'.ip[side] = split.ip[side]
  PROVE  EndInv(side)'
<1>1. Interfaces' = Interfaces
  BY DEF Interfaces
<1>2. IpOf(side)' = IpOf(side)
  BY <1>1 DEF IpOf
<1>. QED
  BY <1>1, <1>2 DEF EndInv

LEMMA OpenIfConfig ==
  ASSUME StageInv, HeldInv, ConfigInv, OpenIf, job.kind \in Replays, job' = job
  PROVE  \A side \in 1..2 : EndInv(side)'
<1>1. stage \in {"open_src", "open_dst"} /\ names = Interfaces /\ names' = names
  BY DEF OpenIf, ConfigInv, Opening
<1>2. Side = (IF stage = "open_src" THEN 1 ELSE 2)
  BY <1>1 DEF Side
<1>3. PICK opens, nonblock \in BOOLEAN :
        LET open == opens /\ names[Side] \in Names
        IN  /\ split' = [split EXCEPT !.handle[Side] = IF open THEN names[Side] ELSE NoIf]
            /\ Proceed(open /\ nonblock)
  BY DEF OpenIf
<1>4. stage' = "destroy" \/ (stage' = Following(stage) /\ names[Side] \in Names
                             /\ split' = [split EXCEPT !.handle[Side] = names[Side]])
  BY <1>3 DEF Proceed
<1>5. Interfaces' = Interfaces
  BY DEF Interfaces
<1>6. CASE stage' = "destroy"
  BY <1>6 DEF EndInv, OpenedBy, MacBy, IpBy, Opening, Busy
<1>7. CASE stage' # "destroy" /\ stage = "open_src"
  <2>1. stage' = "open_dst" /\ split'.handle[1] = Interfaces[1] /\ Interfaces[1] \in Names
    BY <1>1, <1>2, <1>4, <1>7 DEF Following, HeldInv
  <2>. QED
    BY <1>5, <2>1 DEF EndInv, OpenedBy, MacBy, IpBy, Opening, Busy
<1>8. CASE stage' # "destroy" /\ stage = "open_dst"
  <2>1. stage' = "mac_src" /\ split'.handle[2] = Interfaces[2] /\ Interfaces[2] \in Names
        /\ split'.handle[1] = split.handle[1]
    BY <1>1, <1>2, <1>4, <1>8 DEF Following, HeldInv
  <2>2. split.handle[1] = Interfaces[1] /\ Interfaces[1] \in Names
    BY <1>8 DEF ConfigInv, EndInv, OpenedBy, Opening, Busy
  <2>. QED
    BY <1>5, <2>1, <2>2 DEF EndInv, OpenedBy, MacBy, IpBy, Opening, Busy
<1>. QED
  BY <1>1, <1>6, <1>7, <1>8

LEMMA FindMacConfig ==
  ASSUME StageInv, HeldInv, ConfigInv, FindMac, job.kind \in Replays, job' = job
  PROVE  \A side \in 1..2 : EndInv(side)'
<1>1. stage \in {"mac_src", "mac_dst"} /\ names = Interfaces
  BY DEF FindMac, ConfigInv, Opening
<1>2. Side = (IF stage = "mac_src" THEN 1 ELSE 2)
  BY <1>1 DEF Side
<1>3. split' = [split EXCEPT !.mac[Side] = AdapterMac(Interfaces[Side])]
  BY <1>1 DEF FindMac
<1>4. stage' = "destroy" \/ (stage' = Following(stage) /\ AdapterMac(Interfaces[Side]) # {})
  BY <1>1 DEF FindMac, Proceed
<1>5. Interfaces' = Interfaces
  BY DEF Interfaces
<1>6. \A side \in 1..2 : /\ split'.handle[side] = split.handle[side]
                        /\ split'.mac[side] = IF side = Side THEN AdapterMac(Interfaces[Side])
                                              ELSE split.mac[side]
  BY <1>2, <1>3 DEF HeldInv
<1>7. \A side \in 1..2 : EndInv(side)
  BY DEF ConfigInv
<1>8. CASE stage' = "destroy"
  BY <1>8 DEF EndInv, OpenedBy, MacBy, IpBy, Opening, Busy
<1>9. CASE stage' # "destroy" /\ stage = "mac_src"
  <2>1. stage' = "mac_dst"
    BY <1>4, <1>9 DEF Following
  <2>. QED
    BY <1>2, <1>4, <1>5, <1>6, <1>7, <1>9, <2>1 DEF EndInv, OpenedBy, MacBy, IpBy, Opening, Busy
<1>10. CASE stage' # "destroy" /\ stage = "mac_dst"
  <2>1. stage' = "ip_src"
    BY <1>4, <1>10 DEF Following
  <2>. QED
    BY <1>2, <1>4, <1>5, <1>6, <1>7, <1>10, <2>1 DEF EndInv, OpenedBy, MacBy, IpBy, Opening, Busy
<1>. QED
  BY <1>1, <1>8, <1>9, <1>10

LEMMA FindIpConfig ==
  ASSUME StageInv, HeldInv, ConfigInv, FindIp, job.kind \in Replays, job' = job
  PROVE  \A side \in 1..2 : EndInv(side)'
<1>1. stage \in {"ip_src", "ip_dst"} /\ names = Interfaces
  BY DEF FindIp, ConfigInv, Opening
<1>2. Side = IF stage = "ip_src" THEN 1 ELSE 2
  BY <1>1 DEF Side
<1>3. split' = [split EXCEPT !.ip[Side] = IpOf(Side)]
  BY <1>1 DEF FindIp, IpOf
<1>4. stage' = "destroy" \/ (stage' = Following(stage) /\ IpOf(Side) # {})
  BY <1>1 DEF FindIp, Proceed, IpOf
<1>5. Interfaces' = Interfaces
  BY DEF Interfaces
<1>6. \A side \in 1..2 : /\ split'.handle[side] = split.handle[side]
                        /\ split'.mac[side] = split.mac[side]
                        /\ split'.ip[side] = IF side = Side THEN IpOf(Side) ELSE split.ip[side]
  BY <1>2, <1>3 DEF HeldInv
<1>7. \A side \in 1..2 : EndInv(side)
  BY DEF ConfigInv
<1>8. \A side \in 1..2 : IpOf(side)' = IpOf(side)
  BY <1>5 DEF IpOf
<1>9. CASE stage' = "destroy"
  BY <1>9 DEF EndInv, OpenedBy, MacBy, IpBy, Opening, Busy
<1>10. CASE stage' # "destroy" /\ stage = "ip_src"
  <2>1. stage' = "ip_dst"
    BY <1>4, <1>10 DEF Following
  <2>. QED
    BY <1>2, <1>4, <1>5, <1>6, <1>7, <1>8, <1>10, <2>1
       DEF EndInv, OpenedBy, MacBy, IpBy, Opening, Busy
<1>11. CASE stage' # "destroy" /\ stage = "ip_dst"
  <2>1. stage' \in {"play", "files"}
    BY <1>4, <1>11 DEF Following
  <2>. QED
    BY <1>2, <1>4, <1>5, <1>6, <1>7, <1>8, <1>11, <2>1
       DEF EndInv, OpenedBy, MacBy, IpBy, Opening, Busy
<1>. QED
  BY <1>1, <1>9, <1>10, <1>11

LEMMA ConfigStep == StageInv /\ HeldInv /\ ConfigInv /\ [Next]_vars => ConfigInv'
<1>. SUFFICES ASSUME StageInv, HeldInv, ConfigInv, [Next]_vars, job.kind \in Replays, job' = job
              PROVE  /\ stage' \in Opening \cup Busy => names' = Interfaces
                     /\ \A side \in 1..2 : EndInv(side)'
  BY JobStays DEF ConfigInv, Interfaces
<1>1. stage \in Opening \cup Busy => names = Interfaces
  BY DEF ConfigInv
<1>2. \A side \in 1..2 : EndInv(side)
  BY DEF ConfigInv
<1>3. CASE OpenIf
  BY <1>1, <1>3, OpenIfConfig DEF OpenIf, Opening
<1>4. CASE FindMac
  BY <1>1, <1>4, FindMacConfig DEF FindMac, Opening
<1>5. CASE FindIp
  BY <1>1, <1>5, FindIpConfig DEF FindIp, Opening
<1>6. CASE Lookup
  <2>1. names' = Interfaces /\ stage' \in {"destroy", "open_src"}
    BY <1>6 DEF Lookup
  <2>. QED
    BY <2>1 DEF EndInv, OpenedBy, MacBy, IpBy, Opening, Busy
<1>7. CASE stage' \in {"destroy", "end", "crashed"}
  BY <1>7 DEF EndInv, OpenedBy, MacBy, IpBy, Opening, Busy
<1>8. ASSUME UNCHANGED <<names, split>>,
             stage' = stage \/ (stage \in {"files", "walk"} /\ stage' \in {"files", "walk"})
      PROVE  /\ stage' \in Opening \cup Busy => names' = Interfaces
             /\ \A side \in 1..2 : EndInv(side)'
  <2>1. \A side \in 1..2 : EndInv(side)'
    BY <1>2, <1>8, EndStays DEF OpenedBy, MacBy, IpBy, Opening, Busy
  <2>. QED
    BY <1>1, <1>8, <2>1 DEF Opening, Busy
<1>9. CASE Tell \/ PlayBack \/ Destroy
  BY <1>7, <1>9 DEF Tell, PlayBack, Destroy
<1>10. CASE TellAll \/ OpenMirror
  BY <1>10 DEF TellAll, OpenMirror, Replays
<1>11. CASE NextFile \/ Walk \/ DoAction \/ EndWalk \/ Stop \/ UNCHANGED vars
  BY <1>7, <1>8, <1>11 DEF NextFile, Walk, DoAction, EndWalk, Stop, vars, progVars
<1>. QED
  BY <1>3, <1>4, <1>5, <1>6, <1>9, <1>10, <1>11 DEF Next, Run

LEMMA ConfigInvariant == Spec => []ConfigInv
<1>1. Init => ConfigInv
  BY DEF Init, ConfigInv, EndInv, OpenedBy, MacBy, IpBy, Opening, Busy
<1>. QED
  BY <1>1, ConfigStep, StageInvariant, HeldInvariant, PTL DEF Spec

\* The interfaces looked up are those the options mean.
LEMMA AskedIs ==
  ASSUME JobOK(job), job.kind \in Replays, NEW side \in 1..2
  PROVE  /\ Interfaces[side] \in Names => Asked(job.ends[side]) = {Interfaces[side]}
         /\ Interfaces[side] \notin Names => Asked(job.ends[side]) = {}
<1>. DEFINE end == job.ends[side]
<1>1. /\ Interfaces[side] = IF job.by = "number" THEN ByNumber(atoi[end])
                            ELSE Interface(job.by = "ip", end)
  BY DEF Interfaces
<1>2. Asked(end) = Meaning(end, job.by) /\ job.by \in {"name", "ip", "number"}
  BY DEF Asked, JobOK, Replays
<1>3. CASE job.by = "name"
  <2>1. Interfaces[side] = end
    BY <1>1, <1>3 DEF Interface
  <2>2. Meaning(end, "name") = {Devs[i].name : i \in {i \in DOMAIN Devs : Devs[i].name = end}}
    BY DEF Meaning
  <2>3. end \in Names <=> \E i \in DOMAIN Devs : Devs[i].name = end
    BY DEF Names
  <2>4. Asked(end) = Meaning(end, "name")
    BY <1>2, <1>3
  <2>. HIDE DEF end
  <2>. QED
    BY <2>1, <2>2, <2>3, <2>4 DEF end
<1>4. CASE job.by = "ip"
  <2>1. Interfaces[side] = GetIf(end)
    BY <1>1, <1>4 DEF Interface
  <2>. QED
    BY <1>2, <1>4, <2>1, GetIfMeaning
<1>5. CASE job.by = "number"
  <2>1. Interfaces[side] = ByNumber(atoi[end])
    BY <1>1, <1>5
  <2>2. atoi[end] \in Int
    BY <1>5 DEF JobOK
  <2>. QED
    BY <1>2, <1>5, <2>1, <2>2, ByNumberMeaning
<1>. QED
  BY <1>2, <1>3, <1>4, <1>5

-----------------------------------------------------------------------------
(* Refusals.                                                               *)

\* An end can be configured if the options mean an interface with addresses.
LEMMA PossibleIs ==
  ASSUME JobOK(job), job.kind \in Replays
  PROVE  Possible <=>
           /\ \A side \in 1..2 : /\ Interfaces[side] \in Names
                                 /\ AdapterMac(Interfaces[side]) # {}
                                 /\ IpOf(side) # {}
           /\ job.kind = "replay" => job.paths[1] \in DOMAIN Times
<1>1. ASSUME NEW side \in 1..2
      PROVE  (\E name \in Asked(job.ends[side]) :
                /\ AdapterMac(name) # {}
                /\ IF job.ips = None THEN FirstIp(name) # {}
                   ELSE job.ips[side] \in DOMAIN inet_addr)
             <=> /\ Interfaces[side] \in Names
                 /\ AdapterMac(Interfaces[side]) # {}
                 /\ IpOf(side) # {}
  <2>1. IpOf(side) # {} <=> IF job.ips = None THEN FirstIp(Interfaces[side]) # {}
                            ELSE job.ips[side] \in DOMAIN inet_addr
    BY DEF IpOf
  <2>. QED
    BY <2>1, AskedIs
<1>. QED
  BY <1>1 DEF Possible

\* Nobody is refused for nothing: an interface that is not there, or has no
\* address, cannot be what was asked for.
LEMMA RefusalRight ==
  ASSUME StageInv, HeldInv, ConfigInv, job.kind \in Replays, OpenIf \/ FindMac \/ FindIp,
         stage' = "destroy", ~fault'
  PROVE  ~Possible
<1>1. Side \in 1..2 /\ names = Interfaces
  BY DEF OpenIf, FindMac, FindIp, ConfigInv, Opening, Side
<1>2. \/ Interfaces[Side] \notin Names
      \/ AdapterMac(Interfaces[Side]) = {}
      \/ IpOf(Side) = {}
  <2>1. CASE OpenIf
    BY <1>1, <2>1 DEF OpenIf, Proceed, Following
  <2>2. CASE FindMac
    BY <1>1, <2>2 DEF FindMac, Proceed, Following
  <2>3. CASE FindIp
    BY <1>1, <2>3 DEF FindIp, Proceed, Following, IpOf
  <2>. QED
    BY <2>1, <2>2, <2>3
<1>. QED
  BY <1>1, <1>2, PossibleIs DEF StageInv

\* What is done was possible.
LEMMA BusyPossible ==
  ASSUME StageInv, ConfigInv, RefusedInv, job.kind \in Replays, stage \in Busy
  PROVE  Possible
<1>1. ASSUME NEW side \in 1..2
      PROVE  Interfaces[side] \in Names /\ AdapterMac(Interfaces[side]) # {} /\ IpOf(side) # {}
  BY DEF ConfigInv, EndInv, OpenedBy, MacBy, IpBy, Busy
<1>2. job.kind = "replay" => stage = "play"
  BY DEF StageInv, Busy, Walkers
<1>3. job.kind = "replay" => job.paths[1] \in DOMAIN Times
  BY <1>2 DEF RefusedInv
<1>. QED
  BY <1>1, <1>3, PossibleIs DEF StageInv

LEMMA RefusedStep == StageInv /\ HeldInv /\ ConfigInv /\ RefusedInv /\ [Next]_vars => RefusedInv'
<1>. SUFFICES ASSUME StageInv, HeldInv, ConfigInv, RefusedInv, [Next]_vars,
                     job.kind \in Replays, job' = job
              PROVE  RefusedInv'
  BY JobStays DEF RefusedInv
<1>1. /\ stage \in {"begin"} \cup Opening => todo = job.paths /\ begun = None
      /\ job.kind = "replay" /\ stage \in Opening \cup {"play"} =>
           capture = job.paths[1] /\ capture \in DOMAIN Times /\ begun = None
      /\ stage \in {"destroy", "end"} /\ running /\ ~fault => (Possible <=> Done)
  BY DEF RefusedInv
<1>2. Possible' = Possible
  BY DEF Possible, Asked, Meaning
<1>3. job.paths # None
  BY DEF StageInv, JobOK, Replays
<1>4. CASE Lookup
  <2>1. stage = "begin" /\ begun' = None /\ todo' = job.paths
    BY <1>1, <1>4 DEF Lookup, walkVars
  <2>2. CASE stage' = "open_src"
    BY <1>4, <2>1, <2>2 DEF Lookup, RefusedInv, Opened, Opening
  <2>3. CASE stage' = "destroy"
    <3>1. job.kind = "replay" /\ job.paths[1] \notin DOMAIN Times
      BY <1>4, <2>3 DEF Lookup, Opened
    <3>2. ~Possible
      BY <3>1 DEF Possible
    <3>. QED
      BY <1>2, <2>1, <2>3, <3>1, <3>2 DEF RefusedInv, Done, Opening
  <2>. QED
    BY <1>4, <2>2, <2>3 DEF Lookup
<1>5. CASE OpenIf \/ FindMac \/ FindIp
  <2>1. stage \in Opening /\ UNCHANGED <<todo, begun, capture>>
    BY <1>5 DEF OpenIf, FindMac, FindIp, Opening, walkVars
  <2>2. CASE stage' = "destroy"
    <3>1. ~fault' => ~Possible
      BY <1>5, <2>2, RefusalRight
    <3>2. ~Done'
      BY <1>1, <1>3, <2>1 DEF Done
    <3>. QED
      BY <1>2, <2>2, <3>1, <3>2 DEF RefusedInv, Opening
  <2>3. CASE stage' # "destroy"
    <3>1. stage' = Following(stage)
      BY <1>5, <2>3 DEF OpenIf, FindMac, FindIp, Proceed
    <3>2. stage' \in Opening \cup {"play", "files"}
      BY <2>1, <3>1 DEF Following, Opening
    <3>. QED
      BY <1>1, <2>1, <3>2 DEF RefusedInv, Opening
  <2>. QED
    BY <2>2, <2>3
<1>6. CASE PlayBack
  <2>1. stage = "play" /\ job.kind = "replay"
    BY <1>6 DEF PlayBack, StageInv, Replays
  <2>2. begun' = Append(begun, [path |-> capture, late |-> FALSE]) /\ begun = << >>
    BY <1>1, <1>6, <2>1, PathsAssumption DEF PlayBack, None
  <2>3. begun' # None
    BY <2>2 DEF None
  <2>4. Possible
    BY <2>1, BusyPossible DEF Busy
  <2>5. stage' \in {"destroy", "crashed"}
    BY <1>6 DEF PlayBack
  <2>. QED
    BY <1>2, <2>1, <2>3, <2>4, <2>5 DEF RefusedInv, Done, Opening
<1>7. CASE NextFile
  <2>1. job.kind # "replay" /\ stage = "files"
    BY <1>7 DEF NextFile, StageInv, Walkers
  <2>2. CASE stage' = "destroy"
    <3>1. UNCHANGED <<todo, running, begun>> /\ (todo = None \/ ~running)
      BY <1>7, <2>2 DEF NextFile
    <3>2. Possible
      BY <2>1, BusyPossible DEF Busy
    <3>. QED
      BY <1>2, <2>1, <2>2, <3>1, <3>2 DEF RefusedInv, Done, Opening
  <2>3. CASE stage' = "walk"
    BY <2>1, <2>3 DEF RefusedInv, Opening
  <2>. QED
    BY <1>7, <2>2, <2>3 DEF NextFile
<1>8. CASE Walk \/ DoAction \/ EndWalk
  <2>1. stage' \in {"walk", "files"} /\ job.kind # "replay"
    BY <1>8 DEF Walk, DoAction, EndWalk, progVars, StageInv, Walkers
  <2>. QED
    BY <2>1 DEF RefusedInv, Opening
<1>9. CASE Destroy
  <2>1. stage = "destroy" /\ stage' \in {"end", "crashed"} /\ UNCHANGED <<todo, begun, running, fault>>
    BY <1>9 DEF Destroy, walkVars
  <2>. QED
    BY <1>1, <1>2, <2>1 DEF RefusedInv, Opening, Done
<1>10. CASE Stop
  <2>1. running' = FALSE /\ UNCHANGED <<stage, todo, begun, capture>>
    BY <1>10 DEF Stop, progVars
  <2>. QED
    BY <1>1, <2>1 DEF RefusedInv
<1>11. CASE UNCHANGED vars
  BY <1>1, <1>2, <1>11 DEF vars, progVars, walkVars, RefusedInv, Done
<1>12. CASE Tell \/ TellAll \/ OpenMirror
  BY <1>12 DEF Tell, TellAll, OpenMirror, Replays
<1>. QED
  BY <1>4, <1>5, <1>6, <1>7, <1>8, <1>9, <1>10, <1>11, <1>12 DEF Next, Run

LEMMA RefusedInvariant == Spec => []RefusedInv
<1>1. Init => RefusedInv
  BY DEF Init, WalkInit, RefusedInv, None, Opening
<1>. QED
  BY <1>1, RefusedStep, StageInvariant, HeldInvariant, ConfigInvariant, PTL DEF Spec

\* Captures are replayed between the interfaces the options mean, with their
\* addresses: main and init find an end's name, handle, MAC and IP one after
\* the other, and what is kept of an end is never that of another.
THEOREM ConfiguredRightHolds == Spec => []ConfiguredRight
<1>1. ASSUME StageInv, ConfigInv
      PROVE  ConfiguredRight
  <2>. SUFFICES ASSUME job.kind \in Replays, stage \in Busy, NEW side \in 1..2
                PROVE  /\ split.handle[side] \in Asked(job.ends[side])
                       /\ split.mac[side] = AdapterMac(split.handle[side])
                       /\ split.ip[side] = IF job.ips = None THEN FirstIp(split.handle[side])
                                           ELSE {inet_addr[job.ips[side]]}
    BY DEF ConfiguredRight, Replays, Busy
  <2>1. EndInv(side)
    BY <1>1 DEF ConfigInv
  <2>2. /\ split.handle[side] = Interfaces[side] /\ Interfaces[side] \in Names
        /\ split.mac[side] = AdapterMac(Interfaces[side])
        /\ split.ip[side] = IpOf(side) /\ IpOf(side) # {}
    BY <2>1 DEF EndInv, OpenedBy, MacBy, IpBy, Busy
  <2>3. Asked(job.ends[side]) = {Interfaces[side]}
    BY <1>1, <2>2, AskedIs DEF StageInv
  <2>. QED
    BY <2>2, <2>3 DEF IpOf
<1>. QED
  BY <1>1, StageInvariant, ConfigInvariant, PTL

\* A replay that the library and the user leave alone is refused exactly when
\* it cannot be done: each early return of main and of play_back is taken for a
\* reason, and none is missing.
THEOREM RefusedForReasonHolds == Spec => []RefusedForReason
<1>1. RefusedInv => RefusedForReason
  BY DEF RefusedInv, RefusedForReason, Replays, Done
<1>. QED
  BY <1>1, RefusedInvariant, PTL

-----------------------------------------------------------------------------
(* The calls.                                                              *)

LEMMA InitialPart ==
  ASSUME NEW S, NEW s, NEW n \in Nat, \A k \in 1..n : s[k] \in S
  PROVE  /\ SubSeq(s, 1, n) \in Seq(S)
         /\ Len(SubSeq(s, 1, n)) = n
         /\ \A k \in 1..n : SubSeq(s, 1, n)[k] = s[k]
BY SubSeqProperties

\* A stack taken apart.
LEMMA LastCall ==
  ASSUME NEW S, NEW s \in Seq(S), s # << >>
  PROVE  /\ SubSeq(s, 1, Len(s) - 1) \in Seq(S)
         /\ Len(SubSeq(s, 1, Len(s) - 1)) = Len(s) - 1
         /\ \A k \in 1..Len(s) - 1 : SubSeq(s, 1, Len(s) - 1)[k] = s[k]
         /\ s[Len(s)] \in S
         /\ s = Append(SubSeq(s, 1, Len(s) - 1), s[Len(s)])
<1>1. Len(s) \in Nat \ {0}
  BY EmptySeq, LenProperties
<1>2. PICK n \in Nat : n = Len(s) - 1
  BY <1>1
<1>3. Len(s) = n + 1 /\ n + 1 \in 1..Len(s)
  BY <1>1, <1>2
<1>4. \A k \in 1..Len(s) : s[k] \in S
  BY ElementOfSeq
<1>5. /\ SubSeq(s, 1, n) \in Seq(S)
      /\ Len(SubSeq(s, 1, n)) = n
      /\ \A k \in 1..n : SubSeq(s, 1, n)[k] = s[k]
  <2>1. \A k \in 1..n : s[k] \in S
    BY <1>3, <1>4
  <2>. QED
    BY <2>1, InitialPart
<1>6. s = Append(SubSeq(s, 1, n), s[n+1])
  <2>. DEFINE t == SubSeq(s, 1, n)
  <2>1. t \in Seq(S) /\ Len(t) = n /\ \A k \in 1..n : t[k] = s[k]
    BY <1>5
  <2>2. s[n+1] \in S
    BY <1>3, <1>4
  <2>. HIDE DEF t
  <2>3. /\ Append(t, s[n+1]) \in Seq(S)
        /\ Len(Append(t, s[n+1])) = n + 1
        /\ \A k \in 1..n : Append(t, s[n+1])[k] = s[k]
        /\ Append(t, s[n+1])[n+1] = s[n+1]
    BY <2>1, <2>2, AppendProperties
  <2>4. \A k \in 1..Len(s) : Append(t, s[n+1])[k] = s[k]
    BY <1>3, <2>3
  <2>5. s = Append(t, s[n+1])
    BY <1>3, <2>3, <2>4, SeqEqual
  <2>. QED
    BY <2>5 DEF t
<1>. QED
  BY <1>2, <1>3, <1>4, <1>5, <1>6

LEMMA AllButLast ==
  ASSUME NEW S, NEW u \in Seq(S), NEW s \in Seq(S), Len(s) = Len(u) + 1,
         \A k \in 1..Len(u) : s[k] = u[k]
  PROVE  SubSeq(s, 1, Len(s) - 1) = u
<1>1. PICK n \in Nat : n = Len(u)
  BY LenProperties
<1>2. \A k \in 1..n : s[k] \in S
  BY <1>1, ElementOfSeq
<1>3. /\ SubSeq(s, 1, n) \in Seq(S) /\ Len(SubSeq(s, 1, n)) = n
      /\ \A k \in 1..n : SubSeq(s, 1, n)[k] = s[k]
  BY <1>2, InitialPart
<1>4. SubSeq(s, 1, n) = u
  <2>1. \A k \in 1..n : SubSeq(s, 1, n)[k] = u[k]
    BY <1>1, <1>3
  <2>. QED
    BY <1>1, <1>3, <2>1, SeqEqual
<1>. QED
  BY <1>1, <1>4

\* A stack put together.
LEMMA PutCall ==
  ASSUME NEW S, NEW u \in Seq(S), NEW f \in S, NEW s, s = Append(u, f)
  PROVE  /\ s \in Seq(S) /\ s # << >> /\ Len(s) = Len(u) + 1
         /\ s[Len(s)] = f
         /\ SubSeq(s, 1, Len(s) - 1) = u
         /\ \A k \in 1..Len(u) : s[k] = u[k]
<1>1. s \in Seq(S) /\ Len(s) = Len(u) + 1 /\ s[Len(u)+1] = f /\ \A k \in 1..Len(u) : s[k] = u[k]
  BY AppendProperties
<1>2. s # << >>
  BY <1>1
<1>3. SubSeq(s, 1, Len(s) - 1) = u
  BY <1>1, AllButLast, Zenon
<1>. QED
  BY <1>1, <1>2, <1>3

LEMMA WaitsPop ==
  ASSUME NEW u, Waits(u), u # << >>
  PROVE  /\ Waits(SubSeq(u, 1, Len(u) - 1))
         /\ FrameOK(Len(u), u[Len(u)]) /\ u[Len(u)].at = "next"
<1>1. u \in Seq(Frame)
  BY DEF Waits
<1>2. Len(u) \in Nat \ {0}
  BY <1>1, EmptySeq, LenProperties
<1>3. /\ SubSeq(u, 1, Len(u) - 1) \in Seq(Frame)
      /\ Len(SubSeq(u, 1, Len(u) - 1)) = Len(u) - 1
      /\ \A k \in 1..Len(u) - 1 : SubSeq(u, 1, Len(u) - 1)[k] = u[k]
  BY <1>1, LastCall
<1>4. \A k \in 1..Len(u) : FrameOK(k, u[k]) /\ u[k].at = "next"
  BY DEF Waits
<1>. QED
  BY <1>2, <1>3, <1>4 DEF Waits

LEMMA WaitsPush ==
  ASSUME NEW u, Waits(u), NEW f, FrameOK(Len(u) + 1, f), f.at = "next"
  PROVE  Waits(Append(u, f))
<1>1. u \in Seq(Frame) /\ f \in Frame
  BY DEF Waits, FrameOK
<1>2. PICK n \in Nat : n = Len(u)
  BY <1>1, LenProperties
<1>3. /\ Append(u, f) \in Seq(Frame) /\ Len(Append(u, f)) = n + 1
      /\ Append(u, f)[n+1] = f /\ \A k \in 1..n : Append(u, f)[k] = u[k]
  BY <1>1, <1>2, AppendProperties
<1>4. \A k \in 1..n : FrameOK(k, u[k]) /\ u[k].at = "next"
  BY <1>2 DEF Waits
<1>5. FrameOK(n + 1, f)
  BY <1>2
<1>6. \A k \in 1..n + 1 : FrameOK(k, Append(u, f)[k]) /\ Append(u, f)[k].at = "next"
  BY <1>3, <1>4, <1>5
<1>. QED
  BY <1>3, <1>6 DEF Waits

\* What each kind of step leaves of the stack.
LEMMA StackPut ==
  ASSUME job' = job, todo' \in Seq(Paths),
         NEW u, Waits(u), NEW f, FrameOK(Len(u) + 1, f), stack' = Append(u, f)
  PROVE  StackInv'
<1>1. u \in Seq(Frame) /\ f \in Frame
  BY DEF Waits, FrameOK
<1>2. /\ stack' \in Seq(Frame) /\ Len(stack') = Len(u) + 1
      /\ stack'[Len(stack')] = f /\ SubSeq(stack', 1, Len(stack') - 1) = u
  BY <1>1, PutCall
<1>3. Frame' = Frame
  BY DEF Frame
<1>4. \A k, g : FrameOK(k, g)' <=> FrameOK(k, g)
  BY <1>3 DEF FrameOK
<1>5. Waits(u)'
  BY <1>3, <1>4 DEF Waits
<1>6. FrameOK(Len(stack), Top)' /\ Waits(Up)'
  BY <1>2, <1>4, <1>5 DEF Top, Up
<1>. QED
  BY <1>2, <1>3, <1>6 DEF StackInv

LEMMA StackNone ==
  ASSUME job' = job, todo' \in Seq(Paths), stack' = << >>
  PROVE  StackInv'
<1>1. << >> \in Seq(Frame')
  OBVIOUS
<1>. QED
  BY <1>1 DEF StackInv

LEMMA StackPop ==
  ASSUME job' = job, todo' \in Seq(Paths), StackInv, stack # << >>, stack' = Up
  PROVE  StackInv'
<1>1. Waits(Up)
  BY DEF StackInv
<1>2. CASE Up = << >>
  BY <1>2, StackNone
<1>3. CASE Up # << >>
  <2>. DEFINE u == Up
              v == SubSeq(u, 1, Len(u) - 1)
              f == u[Len(u)]
  <2>1. u \in Seq(Frame)
    BY <1>1 DEF Waits
  <2>2. Waits(v) /\ FrameOK(Len(u), f)
    BY <1>1, <1>3, WaitsPop
  <2>3. u = Append(v, f) /\ Len(v) + 1 = Len(u)
    BY <1>3, <2>1, LastCall
  <2>. HIDE DEF u, v, f
  <2>4. stack' = Append(v, f)
    BY <2>3 DEF u
  <2>. QED
    BY <2>2, <2>3, <2>4, StackPut
<1>. QED
  BY <1>2, <1>3

\* The innermost call, and what it can become.
LEMMA TopCall ==
  ASSUME StackInv, stack # << >>
  PROVE  /\ Waits(Up) /\ FrameOK(Len(stack), Top) /\ Top \in Frame
         /\ Len(stack) \in Nat \ {0} /\ Len(Up) + 1 = Len(stack)
         /\ stack = Append(Up, Top)
<1>1. stack \in Seq(Frame) /\ Waits(Up) /\ FrameOK(Len(stack), Top)
  BY DEF StackInv
<1>2. Len(stack) \in Nat \ {0}
  BY <1>1, EmptySeq, LenProperties
<1>3. Len(Up) = Len(stack) - 1 /\ stack = Append(Up, Top)
  BY <1>1, LastCall DEF Up, Top
<1>. QED
  BY <1>1, <1>2, <1>3 DEF FrameOK

LEMMA StackMove ==
  ASSUME job' = job, todo' \in Seq(Paths), StackInv, stack # << >>,
         NEW f, FrameOK(Len(stack), f), Move(f)
  PROVE  StackInv'
<1>1. Waits(Up) /\ Len(Up) + 1 = Len(stack)
  BY TopCall
<1>2. stack' = Append(Up, f)
  BY DEF Move
<1>. QED
  BY <1>1, <1>2, StackPut

LEMMA TailParts ==
  ASSUME NEW S, NEW s \in Seq(S), s # << >>
  PROVE  /\ Head(s) = s[1] /\ 1 \in DOMAIN s /\ Head(s) \in S /\ Tail(s) \in Seq(S)
         /\ \A i \in DOMAIN Tail(s) : i + 1 \in DOMAIN s /\ Tail(s)[i] = s[i+1]
<1>1. /\ Head(s) \in S /\ Tail(s) \in Seq(S) /\ Len(Tail(s)) = Len(s) - 1
      /\ \A i \in 1..Len(Tail(s)) : Tail(s)[i] = s[i+1]
  BY HeadTailProperties
<1>2. Len(s) \in Nat \ {0} /\ DOMAIN s = 1..Len(s) /\ DOMAIN Tail(s) = 1..Len(Tail(s))
  BY <1>1, EmptySeq, LenProperties
<1>. QED
  BY <1>1, <1>2

\* The next entry of a listing, and the call that passes over it.
NextPath == Append(Top.path, Head(Top.rest))
Passed == [Top EXCEPT !.rest = Tail(@), !.file = NextPath]
Skips == Head(Top.rest) \in Dots \/ (~Top.recursive /\ ~IsArchive(NextPath))

LEMMA EntryFrame ==
  ASSUME StackInv, stack # << >>, Top.at = "next", Top.rest # << >>
  PROVE  /\ FrameOK(Len(stack), Passed)
         /\ Passed.at = "next" /\ Passed.path = Top.path /\ Passed.file = NextPath
         /\ Passed.rest = Tail(Top.rest) /\ Passed.recursive = Top.recursive
         /\ Passed.delay = Top.delay
         /\ Top.path \in Seq(STRING) /\ Head(Top.rest) \in STRING
         /\ NextPath \in Seq(STRING) /\ NextPath # Top.path /\ Len(NextPath) = Len(Top.path) + 1
         /\ Len(stack) <= Len(Top.path)
         /\ Head(Top.rest) \notin Dots => NextPath \in DOMAIN Attributes
<1>1. FrameOK(Len(stack), Top) /\ Top \in Frame
  BY TopCall
<1>2. Top.path \in DOMAIN Attributes /\ Top.path \in Seq(STRING) /\ Top.rest \in Seq(STRING)
  BY <1>1, TreeAssumption DEF FrameOK, Frame
<1>3. /\ Head(Top.rest) = Top.rest[1] /\ 1 \in DOMAIN Top.rest
      /\ Head(Top.rest) \in STRING /\ Tail(Top.rest) \in Seq(STRING)
      /\ \A i \in DOMAIN Tail(Top.rest) : i + 1 \in DOMAIN Top.rest
                                          /\ Tail(Top.rest)[i] = Top.rest[i+1]
  BY <1>2, TailParts
<1>4. NextPath \in Seq(STRING) /\ Len(NextPath) = Len(Top.path) + 1
  BY <1>2, <1>3, AppendProperties DEF NextPath
<1>5. NextPath # Top.path
  BY <1>2, <1>4, LenProperties
<1>6. Head(Top.rest) \notin Dots => NextPath \in DOMAIN Attributes
  BY <1>1, <1>3 DEF FrameOK, NextPath
<1>7. Passed \in Frame
  BY <1>1, <1>3, <1>4 DEF Frame, Paths, Passed
<1>8. /\ Passed.path = Top.path /\ Passed.at = "next" /\ Passed.rest = Tail(Top.rest)
      /\ Passed.recursive = Top.recursive /\ Passed.file = NextPath /\ Passed.delay = Top.delay
  BY <1>1 DEF Frame, Passed
<1>9. \A i \in DOMAIN Passed.rest :
        Passed.rest[i] \in Dots \/ Append(Passed.path, Passed.rest[i]) \in DOMAIN Attributes
  BY <1>1, <1>3, <1>8 DEF FrameOK
<1>10. FrameOK(Len(stack), Passed)
  BY <1>1, <1>7, <1>8, <1>9 DEF FrameOK
<1>11. Len(stack) <= Len(Top.path)
  BY <1>1, <1>2 DEF FrameOK
<1>. QED
  BY <1>2, <1>3, <1>4, <1>5, <1>6, <1>8, <1>10, <1>11

\* What becomes of an entry, and that what is gone into is a folder; dir_files
\* goes into none.
LEMMA NextEntryCases ==
  ASSUME NextEntry
  PROVE  \/ Abandon /\ ~Signalled
         \/ /\ UNCHANGED <<running, finds, begun>>
            /\ \/ Skips /\ Move(Passed)
               \/ ~Skips /\ Takes(NextPath) /\ Move([Passed EXCEPT !.at = "entry"])
               \/ /\ ~Skips /\ Top.recursive /\ IsDirectory(NextPath)
                  /\ stack' = Append(Append(Up, Passed), Call(NextPath, TRUE, 0))
<1>1. ~Skips /\ ~Takes(NextPath) => Top.recursive /\ IsDirectory(NextPath)
  BY DEF Skips, Takes
<1>. QED
  BY <1>1 DEF NextEntry, Skips, NextPath, Passed

LEMMA EntryFrames ==
  ASSUME StackInv, NextEntry, Head(Top.rest) \notin Dots
  PROVE  /\ FrameOK(Len(stack), [Passed EXCEPT !.at = "entry"])
         /\ Top.recursive => FrameOK(Len(stack) + 1, Call(NextPath, TRUE, 0))
<1>1. stack # << >> /\ Top.at = "next" /\ Top.rest # << >>
  BY DEF NextEntry
<1>2. FrameOK(Len(stack), Top) /\ Len(stack) \in Nat \ {0}
  BY <1>1, TopCall
<1>3. /\ FrameOK(Len(stack), Passed) /\ Passed \in Frame
      /\ Passed.path = Top.path /\ Passed.file = NextPath /\ NextPath # Top.path
      /\ NextPath \in DOMAIN Attributes /\ NextPath \in Seq(STRING)
      /\ Len(NextPath) = Len(Top.path) + 1 /\ Len(stack) <= Len(Top.path)
      /\ Top.path \in Seq(STRING)
  BY <1>1, EntryFrame DEF FrameOK
<1>4. FrameOK(Len(stack), [Passed EXCEPT !.at = "entry"])
  BY <1>3 DEF FrameOK, Frame
<1>5. ASSUME Top.recursive
      PROVE  FrameOK(Len(stack) + 1, Call(NextPath, TRUE, 0))
  <2>1. Call(NextPath, TRUE, 0) \in Frame
    BY <1>3 DEF Call, Frame, Paths
  <2>2. Len(stack) + 1 <= Len(NextPath)
    BY <1>2, <1>3, LenProperties
  <2>3. job.kind = "window"
    BY <1>2, <1>5 DEF FrameOK
  <2>. QED
    BY <2>1, <2>2, <2>3 DEF FrameOK, Call
<1>. QED
  BY <1>4, <1>5

\* The listing of a folder, without its first entry.
Listing == [Top EXCEPT !.at = "next", !.rest = Tail(Entries[Top.path])]

LEMMA FolderFrame ==
  ASSUME StackInv, FirstFolder, IsDirectory(Top.path)
  PROVE  /\ FrameOK(Len(stack), Listing)
         /\ Listing.at = "next" /\ Listing.path = Top.path /\ Listing.delay = Top.delay
         /\ Listing.recursive = Top.recursive /\ Listing.rest = Tail(Entries[Top.path])
         /\ Top.path \in DOMAIN Attributes /\ Top \in Frame
<1>1. stack # << >> /\ Top.at = "first"
  BY DEF FirstFolder
<1>2. FrameOK(Len(stack), Top) /\ Top \in Frame
  BY <1>1, TopCall
<1>3. Top.path \in DOMAIN Attributes
  BY <1>1, <1>2 DEF FrameOK
<1>4. /\ Entries[Top.path] \in Seq(STRING) /\ Entries[Top.path] # << >>
      /\ \A i \in DOMAIN Entries[Top.path] :
           \/ Entries[Top.path][i] \in Dots
           \/ Append(Top.path, Entries[Top.path][i]) \in DOMAIN Attributes
  BY <1>3, TreeAssumption
<1>5. /\ Tail(Entries[Top.path]) \in Seq(STRING)
      /\ \A i \in DOMAIN Tail(Entries[Top.path]) :
           i + 1 \in DOMAIN Entries[Top.path]
           /\ Tail(Entries[Top.path])[i] = Entries[Top.path][i+1]
  BY <1>4, TailParts
<1>6. /\ Listing \in Frame /\ Listing.rest = Tail(Entries[Top.path]) /\ Listing.at = "next"
      /\ Listing.path = Top.path /\ Listing.recursive = Top.recursive
      /\ Listing.delay = Top.delay
  BY <1>2, <1>5 DEF Frame, Listing
<1>7. FrameOK(Len(stack), Listing)
  BY <1>2, <1>3, <1>4, <1>5, <1>6 DEF FrameOK
<1>. QED
  BY <1>2, <1>3, <1>6, <1>7

\* The call that has found its path, and the one that waits to begin a capture.
LEMMA SeenFrame ==
  ASSUME StackInv, Enter, Top.path \in DOMAIN Attributes
  PROVE  FrameOK(Len(stack), [Top EXCEPT !.at = "first"])
BY TopCall DEF Enter, FrameOK, Frame

LEMMA SleepFrame ==
  ASSUME StackInv, FirstFile \/ EntryFile
  PROVE  FrameOK(Len(stack), [Top EXCEPT !.at = "sleep"])
BY TopCall DEF FirstFile, EntryFile, FrameOK, Frame

LEMMA BegunFrame ==
  ASSUME StackInv, Begin
  PROVE  FrameOK(Len(stack), [Top EXCEPT !.at = "next"])
BY TopCall DEF Begin, FrameOK, Frame

\* A step of the walk returns from the innermost call, changes it, or calls.
LEMMA WalkFrames ==
  ASSUME StackInv, WalkStep \/ Begin
  PROVE  \/ stack' = Up
         \/ \E f : Move(f) /\ FrameOK(Len(stack), f) /\ f.at # "enter"
         \/ \E f, g : /\ stack' = Append(Append(Up, f), g)
                      /\ FrameOK(Len(stack), f) /\ f.at = "next"
                      /\ FrameOK(Len(stack) + 1, g) /\ g.at = "enter"
<1>1. stack # << >>
  BY DEF WalkStep, Enter, FirstFile, FirstFolder, EndListing, NextEntry, EntryFile, Begin
<1>2. \A at \in {"first", "sleep", "next"} : [Top EXCEPT !.at = at].at = at
  BY <1>1, TopCall DEF Frame
<1>3. CASE Enter
  BY <1>2, <1>3, SeenFrame DEF Enter, Abandon
<1>4. CASE FirstFile \/ EntryFile
  BY <1>2, <1>4, SleepFrame DEF FirstFile, EntryFile, Abandon
<1>5. CASE FirstFolder
  <2>1. CASE IsDirectory(Top.path)
    BY <1>5, <2>1, FolderFrame DEF FirstFolder, Listing
  <2>. QED
    BY <1>5, <2>1 DEF FirstFolder
<1>6. CASE EndListing
  BY <1>6 DEF EndListing
<1>7. CASE NextEntry
  <2>1. FrameOK(Len(stack), Passed) /\ Passed.at = "next" /\ Passed \in Frame
    BY <1>1, <1>7, EntryFrame DEF NextEntry, FrameOK
  <2>2. ~Skips => Head(Top.rest) \notin Dots
    BY DEF Skips
  <2>3. Call(NextPath, TRUE, 0).at = "enter" /\ [Passed EXCEPT !.at = "entry"].at = "entry"
    BY <2>1 DEF Call, Frame
  <2>4. CASE Abandon
    BY <2>4 DEF Abandon
  <2>5. CASE Move(Passed)
    BY <2>1, <2>5
  <2>6. CASE ~Skips /\ Move([Passed EXCEPT !.at = "entry"])
    BY <1>7, <2>2, <2>3, <2>6, EntryFrames
  <2>7. CASE ~Skips /\ Top.recursive /\ stack' = Append(Append(Up, Passed), Call(NextPath, TRUE, 0))
    BY <1>7, <2>1, <2>2, <2>3, <2>7, EntryFrames
  <2>. QED
    BY <1>7, <2>4, <2>5, <2>6, <2>7, NextEntryCases
<1>8. CASE Begin
  BY <1>2, <1>8, BegunFrame DEF Begin
<1>. QED
  BY <1>3, <1>4, <1>5, <1>6, <1>7, <1>8 DEF WalkStep

LEMMA WalkStack ==
  ASSUME StackInv, job' = job, todo' = todo, WalkStep \/ Begin
  PROVE  StackInv'
<1>1. stack # << >> /\ todo' \in Seq(Paths)
  BY DEF WalkStep, Enter, FirstFile, FirstFolder, EndListing, NextEntry, EntryFile, Begin, StackInv
<1>2. CASE stack' = Up
  BY <1>1, <1>2, StackPop
<1>3. ASSUME NEW f, Move(f), FrameOK(Len(stack), f)
      PROVE  StackInv'
  BY <1>1, <1>3, StackMove
<1>4. ASSUME NEW f, NEW g, stack' = Append(Append(Up, f), g),
             FrameOK(Len(stack), f), f.at = "next", FrameOK(Len(stack) + 1, g)
      PROVE  StackInv'
  <2>1. Waits(Up) /\ Len(Up) + 1 = Len(stack)
    BY <1>1, TopCall
  <2>2. Waits(Append(Up, f))
    BY <1>4, <2>1, WaitsPush
  <2>3. Len(Append(Up, f)) = Len(stack)
    BY <1>4, <2>1, AppendProperties DEF Waits, FrameOK
  <2>. QED
    BY <1>1, <1>4, <2>2, <2>3, StackPut
<1>. QED
  BY <1>2, <1>3, <1>4, WalkFrames

\* The loop over the selection calls with the next path.
LEMMA CallOK ==
  ASSUME JobOK(job), NEW path \in Paths
  PROVE  FrameOK(1, Call(path, job.kind = "window", job.delay))
<1>1. \A recursive \in BOOLEAN : (recursive <=> job.kind = "window") =>
        FrameOK(1, Call(path, recursive, job.delay))
  <2>. SUFFICES ASSUME NEW recursive \in BOOLEAN, recursive <=> job.kind = "window",
                       NEW call, call = Call(path, recursive, job.delay)
                PROVE  FrameOK(1, call)
    OBVIOUS
  <2>1. call \in Frame /\ call.rest = << >> /\ call.at = "enter" /\ call.path = path
        /\ call.file = path /\ call.recursive = recursive
    BY DEF Call, Frame
  <2>2. path \in DOMAIN Attributes => path \in Seq(STRING) /\ path # << >>
    BY TreeAssumption
  <2>3. path \in DOMAIN Attributes => 1 <= Len(path)
    BY <2>2, EmptySeq, LenProperties
  <2>. QED
    BY <2>1, <2>3 DEF FrameOK
<1>. QED
  BY <1>1

LEMMA NextFileStack ==
  ASSUME StageInv, StackInv, NextFile, todo # None, running
  PROVE  /\ Waits(<< >>) /\ FrameOK(1, Call(Head(todo), job.kind = "window", job.delay))
         /\ stack' = <<Call(Head(todo), job.kind = "window", job.delay)>>
         /\ todo' = Tail(todo) /\ todo' \in Seq(Paths) /\ Head(todo) \in Paths
         /\ stack = << >>
<1>1. todo \in Seq(Paths) /\ todo # << >>
  BY DEF StackInv, None
<1>2. Head(todo) \in Paths /\ Tail(todo) \in Seq(Paths)
  BY <1>1, HeadTailProperties
<1>3. stack' = <<Call(Head(todo), job.kind = "window", job.delay)>> /\ todo' = Tail(todo)
  BY DEF NextFile
<1>4. Waits(<< >>)
  BY DEF Waits
<1>5. stack = << >>
  BY DEF NextFile, StageInv
<1>. QED
  BY <1>2, <1>3, <1>4, <1>5, CallOK DEF StageInv

LEMMA StackStep == StageInv /\ StackInv /\ [Next]_vars => StackInv'
<1>. SUFFICES ASSUME StageInv, StackInv, [Next]_vars, job' = job
              PROVE  StackInv'
  BY JobStays
<1>1. CASE UNCHANGED <<stack, todo>>
  <2>1. Frame' = Frame
    BY DEF Frame
  <2>2. \A k, g : FrameOK(k, g)' <=> FrameOK(k, g)
    BY <2>1 DEF FrameOK
  <2>3. \A s : Waits(s)' <=> Waits(s)
    BY <2>1, <2>2 DEF Waits
  <2>. QED
    BY <1>1, <2>1, <2>2, <2>3 DEF StackInv, Up, Top
<1>2. CASE NextFile
  <2>1. CASE todo # None /\ running
    <3>1. /\ Waits(<< >>) /\ FrameOK(1, Call(Head(todo), job.kind = "window", job.delay))
          /\ stack' = <<Call(Head(todo), job.kind = "window", job.delay)>>
          /\ todo' \in Seq(Paths)
      BY <1>2, <2>1, NextFileStack
    <3>2. stack' = Append(<< >>, Call(Head(todo), job.kind = "window", job.delay))
      BY <3>1
    <3>3. FrameOK(Len(<< >>) + 1, Call(Head(todo), job.kind = "window", job.delay))
      BY <3>1
    <3>. QED
      BY <3>1, <3>2, <3>3, StackPut
  <2>. QED
    BY <1>1, <1>2, <2>1 DEF NextFile
<1>3. CASE Walk \/ DoAction
  BY <1>3, WalkStack DEF Walk, DoAction, progVars
<1>4. CASE \/ Tell \/ TellAll \/ Lookup \/ OpenIf \/ OpenMirror \/ FindMac \/ FindIp
           \/ PlayBack \/ EndWalk \/ Destroy \/ Stop \/ UNCHANGED vars
  BY <1>1, <1>4 DEF Tell, TellAll, Lookup, OpenIf, OpenMirror, FindMac, FindIp, PlayBack,
     EndWalk, Destroy, Stop, vars, progVars, walkVars
<1>. QED
  BY <1>2, <1>3, <1>4 DEF Next, Run

LEMMA StackInvariant == Spec => []StackInv
<1>1. Init => StackInv
  <2>1. << >> \in Seq(Frame)
    OBVIOUS
  <2>. QED
    BY <2>1, InitJob DEF Init, WalkInit, StackInv, JobOK
<1>. QED
  BY <1>1, StackStep, StageInvariant, PTL DEF Spec

-----------------------------------------------------------------------------
(* The find handles.                                                       *)

\* The handles of a stack put together.
LEMMA OpenPut ==
  ASSUME NEW u, Waits(u), NEW f, FrameOK(Len(u) + 1, f), stack' = Append(u, f)
  PROVE  OpenCount' = IF f.at = "enter" THEN Len(u) ELSE Len(u) + 1
<1>1. u \in Seq(Frame) /\ f \in Frame
  BY DEF Waits, FrameOK
<1>2. stack' # << >> /\ Len(stack') = Len(u) + 1 /\ stack'[Len(stack')] = f
  BY <1>1, PutCall
<1>3. Len(u) \in Nat
  BY <1>1, LenProperties
<1>. QED
  BY <1>2, <1>3 DEF OpenCount, Top

\* All that wait hold one.
LEMMA OpenPop ==
  ASSUME StackInv, stack # << >>, stack' = Up
  PROVE  OpenCount' = Len(stack) - 1
<1>1. Waits(Up) /\ Len(stack) \in Nat \ {0} /\ Len(Up) + 1 = Len(stack)
  BY TopCall
<1>2. Len(Up) = Len(stack) - 1
  BY <1>1 DEF Waits
<1>3. CASE Up = << >>
  <2>1. Len(Up) = 0
    BY <1>3
  <2>. QED
    BY <1>2, <1>3, <2>1 DEF OpenCount
<1>4. CASE Up # << >>
  <2>1. Up[Len(Up)].at = "next"
    BY <1>1, <1>4, WaitsPop
  <2>. QED
    BY <1>2, <1>4, <2>1 DEF OpenCount, Top
<1>. QED
  BY <1>3, <1>4

LEMMA OpenMove ==
  ASSUME StackInv, stack # << >>, NEW f, FrameOK(Len(stack), f), Move(f), f.at # "enter"
  PROVE  OpenCount' = Len(stack)
<1>1. Waits(Up) /\ Len(Up) + 1 = Len(stack)
  BY TopCall
<1>2. stack' = Append(Up, f)
  BY DEF Move
<1>. QED
  BY <1>1, <1>2, OpenPut

\* How a step of the walk counts: it has opened a handle, given one back, or left
\* one open because it was told to stop.
LEMMA WalkCounts ==
  ASSUME StageInv, StackInv, WalkStep \/ Begin
  PROVE  \/ /\ finds' = finds + 1 /\ OpenCount' = OpenCount + 1 /\ running
            /\ \E path \in DOMAIN Attributes : OpenCount' <= Len(path)
         \/ finds' = finds - 1 /\ OpenCount' = OpenCount - 1 /\ OpenCount \in Nat \ {0}
         \/ finds' = finds /\ OpenCount' = OpenCount
         \/ finds' = finds /\ OpenCount' <= OpenCount /\ ~running
<1>1. stack # << >>
  BY DEF WalkStep, Enter, FirstFile, FirstFolder, EndListing, NextEntry, EntryFile, Begin
<1>2. FrameOK(Len(stack), Top) /\ Top \in Frame /\ Len(stack) \in Nat \ {0}
  BY <1>1, TopCall
<1>3. OpenCount = IF Top.at = "enter" THEN Len(stack) - 1 ELSE Len(stack)
  BY <1>1 DEF OpenCount
<1>4. stack' = Up => OpenCount' = Len(stack) - 1
  BY <1>1, OpenPop
<1>5. \A f : Move(f) /\ FrameOK(Len(stack), f) /\ f.at # "enter" => OpenCount' = Len(stack)
  BY <1>1, OpenMove
<1>6. Signalled <=> running
  BY <1>2 DEF Signalled, StageInv, FrameOK
<1>7. CASE Enter
  <2>. DEFINE f == [Top EXCEPT !.at = "first"]
  <2>1. CASE Abandon
    BY <1>2, <1>3, <1>4, <1>7, <2>1 DEF Abandon, Enter
  <2>2. CASE running /\ Top.path \in DOMAIN Attributes /\ finds' = finds + 1 /\ Move(f)
    <3>1. FrameOK(Len(stack), f) /\ f.at # "enter"
      BY <1>2, <1>7, <2>2, SeenFrame DEF Frame
    <3>2. OpenCount' = Len(stack)
      BY <1>5, <2>2, <3>1
    <3>3. Len(stack) <= Len(Top.path)
      BY <1>2, <2>2 DEF FrameOK
    <3>. QED
      BY <1>2, <1>3, <1>7, <2>2, <3>2, <3>3 DEF Enter
  <2>. QED
    BY <1>6, <1>7, <2>1, <2>2 DEF Enter
<1>8. CASE Abandon /\ ~running /\ Top.at # "enter"
  BY <1>2, <1>3, <1>4, <1>8 DEF Abandon
<1>9. CASE stack' = Up /\ finds' = finds - 1 /\ Top.at # "enter"
  BY <1>2, <1>3, <1>4, <1>9
<1>10. ASSUME NEW f, Move(f), FrameOK(Len(stack), f), f.at # "enter", Top.at # "enter", finds' = finds
       PROVE  finds' = finds /\ OpenCount' = OpenCount
  BY <1>3, <1>5, <1>10
<1>11. \A at \in {"first", "sleep", "next"} : [Top EXCEPT !.at = at].at = at
  BY <1>2 DEF Frame
<1>12. CASE FirstFile \/ EntryFile
  <2>1. Top.at # "enter" /\ FrameOK(Len(stack), [Top EXCEPT !.at = "sleep"])
    BY <1>12, SleepFrame DEF FirstFile, EntryFile
  <2>2. (Move([Top EXCEPT !.at = "sleep"]) /\ finds' = finds) \/ (Abandon /\ ~running)
    BY <1>6, <1>12 DEF FirstFile, EntryFile
  <2>. QED
    BY <1>8, <1>10, <1>11, <2>1, <2>2
<1>13. CASE FirstFolder
  <2>1. CASE stack' = Up /\ finds' = finds - 1
    BY <1>9, <1>13, <2>1 DEF FirstFolder
  <2>2. CASE IsDirectory(Top.path) /\ Move(Listing) /\ finds' = finds
    BY <1>10, <1>13, <2>2, FolderFrame DEF FirstFolder
  <2>. QED
    BY <1>13, <2>1, <2>2 DEF FirstFolder, Listing
<1>14. CASE EndListing
  BY <1>9, <1>14 DEF EndListing
<1>15. CASE NextEntry
  <2>1. Top.at = "next" /\ FrameOK(Len(stack), Passed) /\ Passed.at = "next" /\ Passed \in Frame
    BY <1>15, EntryFrame DEF NextEntry, FrameOK
  <2>2. ~Skips => Head(Top.rest) \notin Dots
    BY DEF Skips
  <2>3. CASE Abandon /\ ~Signalled
    BY <1>6, <1>8, <2>1, <2>3
  <2>4. CASE Move(Passed) /\ finds' = finds
    BY <1>10, <2>1, <2>4
  <2>5. CASE ~Skips /\ Move([Passed EXCEPT !.at = "entry"]) /\ finds' = finds
    <3>1. [Passed EXCEPT !.at = "entry"].at = "entry"
      BY <2>1 DEF Frame
    <3>. QED
      BY <1>10, <1>15, <2>1, <2>2, <2>5, <3>1, EntryFrames
  <2>6. CASE /\ ~Skips /\ Top.recursive /\ finds' = finds
             /\ stack' = Append(Append(Up, Passed), Call(NextPath, TRUE, 0))
    <3>1. Waits(Up) /\ Len(Up) + 1 = Len(stack)
      BY <1>1, TopCall
    <3>2. Waits(Append(Up, Passed))
      BY <2>1, <3>1, WaitsPush
    <3>3. Len(Append(Up, Passed)) = Len(stack)
      BY <2>1, <3>1, AppendProperties DEF Waits
    <3>4. FrameOK(Len(stack) + 1, Call(NextPath, TRUE, 0)) /\ Call(NextPath, TRUE, 0).at = "enter"
      BY <1>15, <2>2, <2>6, EntryFrames DEF Call
    <3>5. OpenCount' = Len(stack)
      BY <2>6, <3>2, <3>3, <3>4, OpenPut
    <3>. QED
      BY <1>3, <2>1, <2>6, <3>5
  <2>. QED
    BY <1>15, <2>3, <2>4, <2>5, <2>6, NextEntryCases
<1>16. CASE Begin
  <2>1. Top.at # "enter" /\ FrameOK(Len(stack), [Top EXCEPT !.at = "next"])
    BY <1>16, BegunFrame DEF Begin
  <2>2. (Move([Top EXCEPT !.at = "next"]) /\ finds' = finds) \/ (stack' = Up /\ finds' = finds - 1)
    BY <1>16 DEF Begin
  <2>. QED
    BY <1>9, <1>10, <1>11, <2>1, <2>2
<1>. QED
  BY <1>7, <1>12, <1>13, <1>14, <1>15, <1>16 DEF WalkStep

LEMMA FindsStep == StageInv /\ StackInv /\ FindsInv /\ [Next]_vars => FindsInv'
<1>. SUFFICES ASSUME StageInv, StackInv, FindsInv, [Next]_vars
              PROVE  FindsInv'
  OBVIOUS
<1>1. /\ finds \in Nat /\ OpenCount <= finds /\ (running => finds = OpenCount)
      /\ finds = 0 \/ \E path \in DOMAIN Attributes : finds <= Len(path)
  BY DEF FindsInv
<1>2. OpenCount \in Nat
  <2>1. stack # << >> => Len(stack) \in Nat \ {0}
    BY TopCall
  <2>. QED
    BY <2>1 DEF OpenCount
<1>3. \A path \in DOMAIN Attributes : Len(path) \in Nat
  BY TreeAssumption, LenProperties
<1>4. CASE UNCHANGED <<finds, stack>> /\ (running' = running \/ ~running')
  BY <1>1, <1>4 DEF FindsInv, OpenCount, Top
<1>5. CASE Walk \/ DoAction
  <2>1. (WalkStep \/ Begin) /\ running' = running
    BY <1>5, WalkKeeps DEF Walk, DoAction
  <2>2. CASE /\ finds' = finds + 1 /\ OpenCount' = OpenCount + 1 /\ running
             /\ \E path \in DOMAIN Attributes : OpenCount' <= Len(path)
    <3>1. finds' = OpenCount'
      BY <1>1, <2>2
    <3>. QED
      BY <1>1, <2>1, <2>2, <3>1 DEF FindsInv
  <2>3. CASE finds' = finds - 1 /\ OpenCount' = OpenCount - 1 /\ OpenCount \in Nat \ {0}
    <3>1. finds' \in Nat /\ OpenCount' <= finds' /\ (running' => finds' = OpenCount')
      BY <1>1, <2>1, <2>3
    <3>2. finds' = 0 \/ \E path \in DOMAIN Attributes : finds' <= Len(path)
      BY <1>1, <1>3, <2>3
    <3>. QED
      BY <3>1, <3>2 DEF FindsInv
  <2>4. CASE finds' = finds /\ OpenCount' = OpenCount
    BY <1>1, <2>1, <2>4 DEF FindsInv
  <2>5. CASE finds' = finds /\ OpenCount' <= OpenCount /\ ~running
    <3>1. OpenCount' <= finds'
      <4>1. OpenCount' \in Int
        <5>1. StackInv'
          BY StackStep
        <5>2. stack' \in Seq(Frame')
          BY <5>1 DEF StackInv
        <5>. QED
          BY <5>2, LenProperties DEF OpenCount
      <4>. QED
        BY <1>1, <1>2, <2>5, <4>1
    <3>. QED
      BY <1>1, <2>1, <2>5, <3>1 DEF FindsInv
  <2>. QED
    BY <2>1, <2>2, <2>3, <2>4, <2>5, WalkCounts
<1>6. CASE NextFile
  <2>1. CASE todo # None /\ running
    <3>1. /\ stack' = <<Call(Head(todo), job.kind = "window", job.delay)>> /\ stack = << >>
      BY <1>6, <2>1, NextFileStack
    <3>2. OpenCount = 0 /\ OpenCount' = 0
      BY <3>1 DEF OpenCount, Top, Call
    <3>. QED
      BY <1>1, <1>6, <2>1, <3>2 DEF NextFile, FindsInv
  <2>. QED
    BY <1>4, <1>6, <2>1 DEF NextFile
<1>7. CASE \/ Tell \/ TellAll \/ Lookup \/ OpenIf \/ OpenMirror \/ FindMac \/ FindIp
           \/ PlayBack \/ EndWalk \/ Destroy \/ Stop \/ UNCHANGED vars
  BY <1>4, <1>7 DEF Tell, TellAll, Lookup, OpenIf, OpenMirror, FindMac, FindIp, PlayBack,
     EndWalk, Destroy, Stop, vars, progVars, walkVars
<1>. QED
  BY <1>5, <1>6, <1>7 DEF Next, Run

LEMMA FindsInvariant == Spec => []FindsInv
<1>1. Init => FindsInv
  BY DEF Init, WalkInit, FindsInv, OpenCount
<1>. QED
  BY <1>1, FindsStep, StageInvariant, StackInvariant, PTL DEF Spec

\* A walk nobody stops holds one find handle for each folder it is in; what a
\* stopped one leaves open is bounded by the depth of the tree.
THEOREM FindsAccountedHolds == Spec => []FindsAccounted
<1>1. ASSUME StackInv, FindsInv
      PROVE  FindsAccounted
  <2>. DEFINE open == {i \in DOMAIN stack : stack[i].at # "enter"}
  <2>1. stack \in Seq(Frame) /\ Len(stack) \in Nat /\ DOMAIN stack = 1..Len(stack)
    BY <1>1, LenProperties DEF StackInv
  <2>2. OpenCount \in Nat
    <3>1. stack # << >> => Len(stack) \in Nat \ {0}
      BY <1>1, TopCall
    <3>. QED
      BY <3>1 DEF OpenCount
  <2>3. open = 1..OpenCount
    <3>1. CASE stack = << >>
      BY <3>1 DEF OpenCount
    <3>2. CASE stack # << >>
      <4>1. Waits(Up) /\ Len(Up) + 1 = Len(stack)
        BY <1>1, <3>2, TopCall
      <4>2. Len(Up) = Len(stack) - 1 /\ \A k \in 1..Len(stack) - 1 : Up[k] = stack[k]
        BY <2>1, <3>2, LastCall DEF Up
      <4>3. \A k \in 1..Len(stack) - 1 : stack[k].at = "next"
        BY <4>1, <4>2 DEF Waits
      <4>4. open = {k \in 1..Len(stack) : k < Len(stack) \/ stack[k].at # "enter"}
        BY <2>1, <4>3
      <4>. HIDE DEF open
      <4>. QED
        BY <2>1, <3>2, <4>4 DEF OpenCount, Top
    <3>. QED
      BY <3>1, <3>2
  <2>4. Cardinality(1..OpenCount) = OpenCount
    BY <2>2, FS_Interval
  <2>. HIDE DEF open
  <2>5. Cardinality(open) = OpenCount
    BY <2>3, <2>4
  <2>. QED
    BY <1>1, <2>5 DEF FindsInv, FindsAccounted, open
<1>. QED
  BY <1>1, StackInvariant, FindsInvariant, PTL

\* The states of the program have the types of their variables, and what it
\* keeps of an interface is one name and at most one address.
THEOREM ProgramsTypeOK == Spec => []TypeOK
<1>1. ASSUME StageInv, HeldInv, FindsInv
      PROVE  TypeOK
  <2>1. ASSUME NEW side \in 1..2
        PROVE  Cardinality(split.ip[side]) <= 1
    <3>1. CASE split.ip[side] = {}
      BY <3>1, FS_EmptySet
    <3>2. CASE split.ip[side] # {}
      <4>1. PICK a : split.ip[side] = {a}
        BY <1>1, <3>2 DEF HeldInv
      <4>2. Cardinality({a}) = 1
        BY FS_Singleton
      <4>. QED
        BY <4>1, <4>2
    <3>. QED
      BY <3>1, <3>2
  <2>2. \A side \in 1..2 : split.handle[side] \in Names \cup {NoIf}
    BY <1>1 DEF HeldInv
  <2>. QED
    BY <1>1, <2>1, <2>2 DEF TypeOK, StageInv, HeldInv, FindsInv, Opening, Busy
<1>. QED
  BY <1>1, StageInvariant, HeldInvariant, FindsInvariant, PTL

-----------------------------------------------------------------------------
(* After a Stop.                                                           *)

\* A stopped walk only returns, or comes back to the listing it is in.
LEMMA StoppedTop ==
  ASSUME StageInv, StackInv, ~running, WalkStep \/ Begin, stack' # << >>
  PROVE  Top'.at = "next"
<1>1. stack # << >>
  BY DEF WalkStep, Enter, FirstFile, FirstFolder, EndListing, NextEntry, EntryFile, Begin
<1>2. Waits(Up) /\ FrameOK(Len(stack), Top) /\ Top \in Frame
  BY <1>1, TopCall
<1>3. ~Signalled
  BY <1>2 DEF Signalled, StageInv, FrameOK
<1>4. CASE stack' = Up
  <2>1. Up[Len(Up)].at = "next"
    BY <1>2, <1>4, WaitsPop
  <2>. QED
    BY <1>4, <2>1 DEF Top
<1>5. ASSUME NEW f \in Frame, f.at = "next", Move(f)
      PROVE  Top'.at = "next"
  <2>1. stack' = Append(Up, f) /\ Up \in Seq(Frame)
    BY <1>2, <1>5 DEF Move, Waits
  <2>2. stack'[Len(stack')] = f
    BY <2>1, PutCall
  <2>. QED
    BY <1>5, <2>2 DEF Top
<1>6. [Top EXCEPT !.at = "next"] \in Frame /\ [Top EXCEPT !.at = "next"].at = "next"
  BY <1>2 DEF Frame
<1>7. CASE Enter \/ FirstFile \/ EntryFile \/ NextEntry
  BY <1>3, <1>4, <1>7 DEF Enter, FirstFile, EntryFile, NextEntry, Abandon
<1>8. CASE FirstFolder
  <2>1. CASE IsDirectory(Top.path) /\ Move(Listing)
    BY <1>5, <1>8, <2>1, FolderFrame DEF FrameOK
  <2>. QED
    BY <1>4, <1>8, <2>1 DEF FirstFolder, Listing
<1>9. CASE EndListing
  BY <1>4, <1>9 DEF EndListing
<1>10. CASE Begin
  BY <1>4, <1>5, <1>6, <1>10 DEF Begin
<1>. QED
  BY <1>7, <1>8, <1>9, <1>10 DEF WalkStep

LEMMA WalkBegins ==
  ASSUME WalkStep
  PROVE  begun' = begun
BY DEF WalkStep, Enter, FirstFile, FirstFolder, EndListing, NextEntry, EntryFile, Abandon

\* The capture do_action gets.
LEMMA BeginType ==
  ASSUME StageInv, StackInv, stage = "walk", Begin
  PROVE  [path |-> Top.file, late |-> ~running] \in Begun
<1>1. FrameOK(Len(stack), Top) /\ Top \in Frame /\ Top.at = "sleep"
  BY TopCall DEF Begin
<1>2. Top.file \in Captures
  BY <1>1 DEF FrameOK, Captures, StageInv
<1>3. Top.delay \in {0, job.delay} /\ (~running) \in BOOLEAN
  BY <1>1 DEF Frame
<1>. QED
  BY <1>2, <1>3 DEF Begun

LEMMA LateStep == StageInv /\ HeldInv /\ StackInv /\ LateInv /\ [Next]_vars => LateInv'
<1>. SUFFICES ASSUME StageInv, HeldInv, StackInv, LateInv, [Next]_vars, job' = job
              PROVE  LateInv'
  BY JobStays
<1>1. /\ begun \in Seq(Begun) /\ Begun' = Begun
      /\ running => \A i \in DOMAIN begun : ~begun[i].late
      /\ \A i, j \in DOMAIN begun : begun[i].late /\ begun[j].late => i = j
      /\ (\E i \in DOMAIN begun : begun[i].late) /\ stack # << >> => Top.at # "sleep"
  BY DEF LateInv, Begun, Captures
<1>2. CASE UNCHANGED <<begun, stack>> /\ (running' = running \/ ~running')
  BY <1>1, <1>2 DEF LateInv, Top
<1>3. ASSUME running, begun' \in Seq(Begun), \A i \in DOMAIN begun' : ~begun'[i].late
      PROVE  LateInv'
  BY <1>1, <1>3 DEF LateInv
<1>4. ASSUME NEW r \in Begun, begun' = Append(begun, r)
      PROVE  /\ begun' \in Seq(Begun) /\ DOMAIN begun' = DOMAIN begun \cup {Len(begun) + 1}
             /\ begun'[Len(begun) + 1] = r /\ \A i \in DOMAIN begun : begun'[i] = begun[i]
  <2>1. /\ begun' \in Seq(Begun) /\ Len(begun') = Len(begun) + 1
        /\ \A i \in 1..Len(begun) : begun'[i] = begun[i]
    BY <1>1, <1>4, AppendProperties
  <2>2. begun'[Len(begun) + 1] = r
    BY <1>1, <1>4, AppendProperties
  <2>3. Len(begun) \in Nat /\ DOMAIN begun = 1..Len(begun) /\ DOMAIN begun' = 1..Len(begun) + 1
    BY <1>1, <2>1, LenProperties
  <2>. QED
    BY <2>1, <2>2, <2>3
<1>5. CASE Walk
  <2>1. WalkStep /\ UNCHANGED <<begun, running>>
    BY <1>5, WalkBegins, WalkKeeps DEF Walk
  <2>2. CASE running
    BY <1>1, <1>3, <2>1, <2>2
  <2>3. CASE ~running
    <3>1. stack' # << >> => Top'.at = "next"
      BY <2>1, <2>3, StoppedTop
    <3>. QED
      BY <1>1, <2>1, <3>1 DEF LateInv
  <2>. QED
    BY <2>2, <2>3
<1>6. CASE DoAction
  <2>. DEFINE r == [path |-> Top.file, late |-> ~running]
  <2>1. /\ Begin /\ begun' = Append(begun, r) /\ stack # << >> /\ Top.at = "sleep"
        /\ running' = running
    BY <1>6 DEF DoAction, Begin
  <2>2. r \in Begun /\ (r.late <=> ~running)
    BY <1>6, <2>1, BeginType DEF DoAction
  <2>. HIDE DEF r
  <2>3. /\ begun' \in Seq(Begun) /\ DOMAIN begun' = DOMAIN begun \cup {Len(begun) + 1}
        /\ begun'[Len(begun) + 1] = r /\ \A i \in DOMAIN begun : begun'[i] = begun[i]
    BY <1>4, <2>1, <2>2
  <2>4. \A i \in DOMAIN begun : ~begun[i].late
    BY <1>1, <2>1
  <2>5. CASE running
    BY <1>3, <2>2, <2>3, <2>4, <2>5
  <2>6. CASE ~running
    <3>1. stack' # << >> => Top'.at = "next"
      BY <2>1, <2>6, StoppedTop
    <3>2. \A i, j \in DOMAIN begun' : begun'[i].late /\ begun'[j].late => i = j
      BY <2>3, <2>4
    <3>. QED
      BY <1>1, <2>1, <2>3, <2>6, <3>1, <3>2 DEF LateInv
  <2>. QED
    BY <2>5, <2>6
<1>7. CASE PlayBack
  <2>1. CASE UNCHANGED begun
    BY <1>2, <1>7, <2>1 DEF PlayBack
  <2>2. CASE capture # None
    <3>. DEFINE r == [path |-> capture, late |-> FALSE]
    <3>1. begun' = Append(begun, r) /\ job.kind \in {"replay", "mirror"}
      BY <1>7, <2>2 DEF PlayBack, StageInv
    <3>2. r \in Begun /\ ~r.late
      BY <2>2, <3>1 DEF Begun, Captures, HeldInv, Walkers
    <3>. HIDE DEF r
    <3>3. running
      BY <3>1 DEF StageInv
    <3>. QED
      BY <1>1, <1>3, <1>4, <3>1, <3>2, <3>3
  <2>. QED
    BY <1>7, <2>1, <2>2 DEF PlayBack
<1>8. CASE NextFile
  <2>1. CASE todo # None /\ running
    BY <1>1, <1>3, <1>8, <2>1 DEF NextFile
  <2>. QED
    BY <1>2, <1>8, <2>1 DEF NextFile
<1>9. CASE \/ Tell \/ TellAll \/ Lookup \/ OpenIf \/ OpenMirror \/ FindMac \/ FindIp
           \/ EndWalk \/ Destroy \/ Stop \/ UNCHANGED vars
  BY <1>2, <1>9 DEF Tell, TellAll, Lookup, OpenIf, OpenMirror, FindMac, FindIp,
     EndWalk, Destroy, Stop, vars, progVars, walkVars
<1>. QED
  BY <1>5, <1>6, <1>7, <1>8, <1>9 DEF Next, Run

LEMMA LateInvariant == Spec => []LateInv
<1>1. Init => LateInv
  <2>1. << >> \in Seq(Begun) /\ DOMAIN << >> = {}
    OBVIOUS
  <2>. QED
    BY <2>1 DEF Init, WalkInit, LateInv
<1>. QED
  BY <1>1, LateStep, StageInvariant, HeldInvariant, StackInvariant, PTL DEF Spec

\* However deep the walk is, no more than one capture begins after a Stop: the
\* one whose delay was being slept.
THEOREM AtMostOneLateHolds == Spec => []AtMostOneLate
<1>1. LateInv => AtMostOneLate
  <2>. SUFFICES ASSUME LateInv
                PROVE  AtMostOneLate
    OBVIOUS
  <2>. DEFINE late == {i \in DOMAIN begun : begun[i].late}
  <2>1. \A i, j \in late : i = j
    BY DEF LateInv
  <2>. HIDE DEF late
  <2>2. CASE late = {}
    BY <2>2, FS_EmptySet DEF AtMostOneLate, late
  <2>3. CASE late # {}
    <3>1. PICK i : late = {i}
      BY <2>1, <2>3
    <3>2. Cardinality(late) = 1
      BY <3>1, FS_Singleton
    <3>. QED
      BY <3>2 DEF AtMostOneLate, late
  <2>. QED
    BY <2>2, <2>3
<1>. QED
  BY <1>1, LateInvariant, PTL

-----------------------------------------------------------------------------
(* What is below a folder.                                                 *)

\* Finitely many numbers have a bound.
LEMMA BoundMore ==
  ASSUME NEW n \in Nat, NEW T \in SUBSET Nat, IsFiniteSet(T), Cardinality(T) = n + 1,
         \A U \in SUBSET Nat : IsFiniteSet(U) /\ Cardinality(U) = n =>
           \E b \in Nat : \A x \in U : x <= b
  PROVE  \E b \in Nat : \A x \in T : x <= b
<1>1. T # {}
  <2>1. Cardinality({}) = 0
    BY FS_EmptySet
  <2>. QED
    BY <2>1
<1>2. PICK y : y \in T
  BY <1>1
<1>3. IsFiniteSet(T \ {y}) /\ Cardinality(T \ {y}) = Cardinality(T) - 1
  BY <1>2, FS_RemoveElement, Zenon
<1>4. Cardinality(T \ {y}) = n /\ T \ {y} \in SUBSET Nat
  <2>1. \A c : c = Cardinality(T) - 1 => c = n
    OBVIOUS
  <2>. QED
    BY <1>3, <2>1
<1>5. PICK b \in Nat : \A x \in T \ {y} : x <= b
  BY <1>3, <1>4, Zenon
<1>6. y \in Nat /\ b + y \in Nat
  BY <1>2
<1>7. \A x \in T : x <= b + y
  BY <1>5, <1>6
<1>. QED
  BY <1>6, <1>7

LEMMA Bounded ==
  ASSUME NEW T \in SUBSET Nat, IsFiniteSet(T)
  PROVE  \E b \in Nat : \A x \in T : x <= b
<1>. DEFINE Claim(n) == \A U \in SUBSET Nat : IsFiniteSet(U) /\ Cardinality(U) = n =>
                          \E b \in Nat : \A x \in U : x <= b
            good == {n \in Nat : Claim(n)}
<1>1. Claim(0)
  <2>1. \A U : IsFiniteSet(U) /\ Cardinality(U) = 0 => U = {}
    BY FS_EmptySet
  <2>. QED
    BY <2>1
<1>2. \A n \in Nat : Claim(n) => Claim(n + 1)
  BY BoundMore, Zenon
<1>. HIDE DEF Claim
<1>3. 0 \in good /\ \A n \in Nat : n \in good => n + 1 \in good
  BY <1>1, <1>2
<1>. HIDE DEF good
<1>4. \A n \in Nat : n \in good
  BY <1>3, Induction
<1>5. Cardinality(T) \in Nat
  BY FS_CardinalityType
<1>6. Claim(Cardinality(T))
  BY <1>4, <1>5 DEF good
<1>. QED
  BY <1>6 DEF Claim

\* No path is longer than some number.
LEMMA Depth == \E b \in Nat : \A path \in DOMAIN Attributes : Len(path) <= b
<1>. DEFINE lengths == {Len(path) : path \in DOMAIN Attributes}
            len == [path \in DOMAIN Attributes |-> Len(path)]
<1>1. lengths \in SUBSET Nat
  BY TreeAssumption, LenProperties
<1>2. len \in Surjection(DOMAIN Attributes, lengths)
  BY DEF Surjection
<1>3. IsFiniteSet(lengths)
  BY <1>2, TreeAssumption, FS_Surjection
<1>4. PICK b \in Nat : \A x \in lengths : x <= b
  BY <1>1, <1>3, Bounded
<1>. QED
  BY <1>4

\* What the function below makes of a path, from what it is of longer ones.
BelowOf(below, path) ==
    IF IsDirectory(path)
      THEN FlattenSeq([i \in DOMAIN Entries[path] |->
             IF Entries[path][i] \in Dots THEN << >> ELSE below[Append(path, Entries[path][i])]])
      ELSE <<path>>

\* The entries of a folder are one longer than it.
LEMMA EntryLonger ==
  ASSUME NEW path \in DOMAIN Attributes, IsDirectory(path), NEW i \in DOMAIN Entries[path],
         Entries[path][i] \notin Dots
  PROVE  /\ Append(path, Entries[path][i]) \in DOMAIN Attributes
         /\ Len(Append(path, Entries[path][i])) = Len(path) + 1
<1>1. Append(path, Entries[path][i]) \in DOMAIN Attributes /\ Entries[path] \in Seq(STRING)
  BY TreeAssumption
<1>2. path \in Seq(STRING) /\ Entries[path][i] \in STRING
  <2>1. DOMAIN Entries[path] = 1..Len(Entries[path])
    BY <1>1, LenProperties
  <2>. QED
    BY <1>1, <2>1, TreeAssumption, ElementOfSeq
<1>. QED
  BY <1>1, <1>2, AppendProperties

LEMMA BelowOfAgrees ==
  ASSUME NEW path \in DOMAIN Attributes, NEW f, NEW g,
         \A q \in DOMAIN Attributes : Len(q) = Len(path) + 1 => f[q] = g[q]
  PROVE  BelowOf(f, path) = BelowOf(g, path)
<1>1. CASE IsDirectory(path)
  <2>1. \A i \in DOMAIN Entries[path] :
          (IF Entries[path][i] \in Dots THEN << >> ELSE f[Append(path, Entries[path][i])])
          = (IF Entries[path][i] \in Dots THEN << >> ELSE g[Append(path, Entries[path][i])])
    BY <1>1, EntryLonger
  <2>2. [i \in DOMAIN Entries[path] |->
           IF Entries[path][i] \in Dots THEN << >> ELSE f[Append(path, Entries[path][i])]]
        = [i \in DOMAIN Entries[path] |->
           IF Entries[path][i] \in Dots THEN << >> ELSE g[Append(path, Entries[path][i])]]
    BY <2>1
  <2>. QED
    BY <1>1, <2>2 DEF BelowOf
<1>2. CASE ~IsDirectory(path)
  BY <1>2 DEF BelowOf
<1>. QED
  BY <1>1, <1>2

\* The function exists, because a tree of finitely many paths has a depth, and
\* what is at its bottom is known.
LEMMA BelowExists == \E f : f = [path \in DOMAIN Attributes |-> BelowOf(f, path)]
<1>1. PICK b \in Nat : \A path \in DOMAIN Attributes : Len(path) <= b
  BY Depth
<1>2. \A path \in DOMAIN Attributes : Len(path) \in Nat \ {0}
  BY TreeAssumption, LenProperties, EmptySeq
<1>. DEFINE Right(f, n) == \A path \in DOMAIN Attributes :
                             Len(path) + n > b => f[path] = BelowOf(f, path)
            good == {n \in Nat : \E f : f = [path \in DOMAIN Attributes |-> f[path]] /\ Right(f, n)}
<1>3. 0 \in good
  <2>. DEFINE f == [path \in DOMAIN Attributes |-> << >>]
  <2>1. f = [path \in DOMAIN Attributes |-> f[path]]
    OBVIOUS
  <2>2. Right(f, 0)
    BY <1>1, <1>2
  <2>. HIDE DEF f, Right
  <2>. QED
    BY <2>1, <2>2
<1>4. ASSUME NEW n \in Nat, n \in good
      PROVE  n + 1 \in good
  <2>1. PICK f : Right(f, n)
    BY <1>4
  <2>. DEFINE g == [path \in DOMAIN Attributes |-> BelowOf(f, path)]
  <2>2. \A path \in DOMAIN Attributes : g[path] = BelowOf(f, path)
    OBVIOUS
  <2>3. g = [path \in DOMAIN Attributes |-> g[path]]
    OBVIOUS
  <2>. HIDE DEF g
  <2>4. ASSUME NEW path \in DOMAIN Attributes, Len(path) + (n + 1) > b
        PROVE  g[path] = BelowOf(g, path)
    <3>1. \A q \in DOMAIN Attributes : Len(q) = Len(path) + 1 => f[q] = g[q]
      BY <1>2, <2>1, <2>2, <2>4
    <3>2. BelowOf(f, path) = BelowOf(g, path)
      BY <3>1, BelowOfAgrees
    <3>. QED
      BY <2>2, <3>2
  <2>5. Right(g, n + 1)
    BY <2>4
  <2>. HIDE DEF Right
  <2>. QED
    BY <2>3, <2>5
<1>. HIDE DEF good
<1>5. \A n \in Nat : n \in good
  BY <1>3, <1>4, Induction
<1>6. PICK f : f = [path \in DOMAIN Attributes |-> f[path]] /\ Right(f, b)
  BY <1>5 DEF good
<1>7. \A path \in DOMAIN Attributes : f[path] = BelowOf(f, path)
  BY <1>2, <1>6
<1>. QED
  BY <1>6, <1>7

LEMMA BelowEquation == \A path \in DOMAIN Attributes : Below[path] = BelowOf(Below, path)
<1>1. Below = CHOOSE f : f = [path \in DOMAIN Attributes |-> BelowOf(f, path)]
  BY DEF Below, BelowOf
<1>2. Below = [path \in DOMAIN Attributes |-> BelowOf(Below, path)]
  BY <1>1, BelowExists
<1>. QED
  BY <1>2

-----------------------------------------------------------------------------
(* What is meant by a path.                                                *)

LEMMA OnceType ==
  ASSUME NEW path \in DOMAIN Attributes
  PROVE  <<path>> \in Seq(Capture)
BY DEF Capture

\* The lists of the entries of a folder, each by its place.
LEMMA BelowOfType ==
  ASSUME NEW path \in DOMAIN Attributes,
         \A q \in DOMAIN Attributes : Len(q) = Len(path) + 1 => Below[q] \in Seq(Capture)
  PROVE  Below[path] \in Seq(Capture)
<1>1. CASE IsDirectory(path)
  <2>. DEFINE lists == [i \in DOMAIN Entries[path] |->
                IF Entries[path][i] \in Dots THEN << >> ELSE Below[Append(path, Entries[path][i])]]
  <2>1. Entries[path] \in Seq(STRING)
    BY <1>1, TreeAssumption
  <2>2. DOMAIN Entries[path] = 1..Len(Entries[path]) /\ Len(Entries[path]) \in Nat
    BY <2>1, LenProperties
  <2>3. \A i \in DOMAIN Entries[path] : Entries[path][i] \notin Dots =>
          Below[Append(path, Entries[path][i])] \in Seq(Capture)
    BY <1>1, EntryLonger
  <2>4. << >> \in Seq(Capture)
    OBVIOUS
  <2>5. lists \in [1..Len(Entries[path]) -> Seq(Capture)]
    BY <2>2, <2>3, <2>4
  <2>6. lists \in Seq(Seq(Capture))
    BY <2>2, <2>5, FunctionIsSeq
  <2>7. FlattenSeq(lists) \in Seq(Capture)
    BY <2>6, FlattenType
  <2>8. Below[path] = FlattenSeq(lists)
    BY <1>1, BelowEquation DEF BelowOf
  <2>. QED
    BY <2>7, <2>8
<1>2. CASE ~IsDirectory(path)
  BY <1>2, BelowEquation, OnceType DEF BelowOf
<1>. QED
  BY <1>1, <1>2

LEMMA BelowType ==
  ASSUME NEW path \in DOMAIN Attributes
  PROVE  Below[path] \in Seq(Capture)
<1>1. PICK b \in Nat : \A q \in DOMAIN Attributes : Len(q) <= b
  BY Depth
<1>2. \A q \in DOMAIN Attributes : Len(q) \in Nat \ {0}
  BY TreeAssumption, LenProperties, EmptySeq
<1>. DEFINE Typed(q) == Below[q] \in Seq(Capture)
            good == {n \in Nat : \A q \in DOMAIN Attributes : Len(q) + n > b => Typed(q)}
<1>3. \A q \in DOMAIN Attributes :
        (\A r \in DOMAIN Attributes : Len(r) = Len(q) + 1 => Typed(r)) => Typed(q)
  BY BelowOfType
<1>. HIDE DEF Typed
<1>4. 0 \in good
  BY <1>1, <1>2
<1>5. ASSUME NEW n \in Nat, n \in good
      PROVE  n + 1 \in good
  <2>1. \A q \in DOMAIN Attributes : Len(q) + n > b => Typed(q)
    BY <1>5
  <2>2. ASSUME NEW q \in DOMAIN Attributes, Len(q) + (n + 1) > b
        PROVE  Typed(q)
    <3>1. \A r \in DOMAIN Attributes : Len(r) = Len(q) + 1 => Typed(r)
      BY <1>2, <2>1, <2>2
    <3>. QED
      BY <1>3, <3>1
  <2>. QED
    BY <2>2
<1>. HIDE DEF good
<1>6. \A n \in Nat : n \in good
  BY <1>4, <1>5, Induction
<1>7. \A q \in DOMAIN Attributes : Len(q) + b > b => Typed(q)
  BY <1>6 DEF good
<1>8. Typed(path)
  BY <1>2, <1>7
<1>. QED
  BY <1>8 DEF Typed

\* A listing whose entries are dots or paths, as those of folders are.
Listable(path, listing) ==
    /\ listing \in Seq(STRING)
    /\ \A i \in DOMAIN listing : listing[i] \in Dots \/ Append(path, listing[i]) \in DOMAIN Attributes

LEMMA OfEntryType ==
  ASSUME NEW path, NEW name, NEW recursive,
         name \in Dots \/ Append(path, name) \in DOMAIN Attributes
  PROVE  OfEntry(path, name, recursive) \in Seq(Capture)
<1>1. << >> \in Seq(Capture)
  OBVIOUS
<1>. QED
  BY <1>1, OnceType, BelowType DEF OfEntry

LEMMA ListedParts ==
  ASSUME NEW path, NEW listing, NEW recursive,
         Listable(path, listing)
  PROVE  /\ Len(listing) \in Nat /\ DOMAIN listing = 1..Len(listing)
         /\ \A i \in DOMAIN listing :
              OfEntry(path, listing[i], recursive) \in Seq(Capture)
<1>1. Len(listing) \in Nat /\ DOMAIN listing = 1..Len(listing)
  BY LenProperties DEF Listable
<1>2. \A i \in DOMAIN listing :
        OfEntry(path, listing[i], recursive) \in Seq(Capture)
  BY OfEntryType DEF Listable
<1>. QED
  BY <1>1, <1>2

LEMMA ListedType ==
  ASSUME NEW path, NEW listing, NEW recursive,
         Listable(path, listing)
  PROVE  Listed(path, listing, recursive) \in Seq(Capture)
<1>. DEFINE lists == [i \in DOMAIN listing |-> OfEntry(path, listing[i], recursive)]
<1>1. Len(listing) \in Nat /\ lists \in [1..Len(listing) -> Seq(Capture)]
  <2>1. /\ Len(listing) \in Nat /\ DOMAIN listing = 1..Len(listing)
        /\ \A i \in DOMAIN listing :
             OfEntry(path, listing[i], recursive) \in Seq(Capture)
    BY ListedParts
  <2>. QED
    BY <2>1
<1>. HIDE DEF lists
<1>2. lists \in Seq(Seq(Capture))
  BY <1>1, FunctionIsSeq
<1>. QED
  BY <1>2, FlattenType DEF Listed, lists

\* The first entry comes first.
LEMMA ListedFirst ==
  ASSUME NEW path, NEW listing, NEW recursive,
         Listable(path, listing), listing # << >>
  PROVE  /\ Listable(path, Tail(listing))
         /\ Listed(path, listing, recursive)
              = OfEntry(path, Head(listing), recursive) \o Listed(path, Tail(listing), recursive)
<1>. DEFINE lists == [i \in DOMAIN listing |-> OfEntry(path, listing[i], recursive)]
            rest == [i \in DOMAIN Tail(listing) |-> OfEntry(path, Tail(listing)[i], recursive)]
<1>1. /\ Head(listing) = listing[1] /\ 1 \in DOMAIN listing
      /\ \A i \in DOMAIN Tail(listing) : i + 1 \in DOMAIN listing /\ Tail(listing)[i] = listing[i+1]
      /\ Tail(listing) \in Seq(STRING) /\ Len(Tail(listing)) = Len(listing) - 1
  BY TailParts, HeadTailProperties DEF Listable
<1>2. Listable(path, Tail(listing))
  BY <1>1 DEF Listable
<1>3. Len(listing) \in Nat \ {0} /\ lists \in [1..Len(listing) -> Seq(Capture)]
  <2>1. /\ DOMAIN listing = 1..Len(listing)
        /\ \A i \in DOMAIN listing : OfEntry(path, listing[i], recursive) \in Seq(Capture)
    BY ListedParts
  <2>2. Len(listing) \in Nat \ {0}
    BY EmptySeq, LenProperties DEF Listable
  <2>. QED
    BY <2>1, <2>2
<1>4. rest \in [1..Len(listing) - 1 -> Seq(Capture)] /\ DOMAIN Tail(listing) = 1..Len(listing) - 1
  <2>1. /\ DOMAIN Tail(listing) = 1..Len(Tail(listing))
        /\ \A i \in DOMAIN Tail(listing) :
             OfEntry(path, Tail(listing)[i], recursive) \in Seq(Capture)
    BY <1>2, ListedParts
  <2>. QED
    BY <1>1, <2>1
<1>5. \A i \in 1..Len(listing) - 1 : rest[i] = lists[i+1]
  BY <1>1, <1>4
<1>6. lists[1] = OfEntry(path, Head(listing), recursive)
  BY <1>1
<1>. HIDE DEF lists, rest
<1>7. FlattenSeq(lists) = lists[1] \o FlattenSeq(rest)
  BY <1>3, <1>4, <1>5, FlattenShift, Zenon
<1>. QED
  BY <1>2, <1>6, <1>7 DEF Listed, lists, rest

\* What a folder lists is what is below it, if the walk goes into its folders.
LEMMA ListedBelow ==
  ASSUME NEW path \in DOMAIN Attributes, IsDirectory(path)
  PROVE  Listed(path, Entries[path], TRUE) = Below[path]
<1>1. ASSUME NEW i \in DOMAIN Entries[path]
      PROVE  OfEntry(path, Entries[path][i], TRUE)
             = IF Entries[path][i] \in Dots THEN << >> ELSE Below[Append(path, Entries[path][i])]
  <2>1. Entries[path][i] \notin Dots => Append(path, Entries[path][i]) \in DOMAIN Attributes
    BY TreeAssumption
  <2>. QED
    BY <2>1, BelowEquation DEF OfEntry, BelowOf
<1>2. [i \in DOMAIN Entries[path] |-> OfEntry(path, Entries[path][i], TRUE)]
      = [i \in DOMAIN Entries[path] |->
           IF Entries[path][i] \in Dots THEN << >> ELSE Below[Append(path, Entries[path][i])]]
  BY <1>1
<1>3. Below[path] = FlattenSeq([i \in DOMAIN Entries[path] |->
           IF Entries[path][i] \in Dots THEN << >> ELSE Below[Append(path, Entries[path][i])]])
  BY BelowEquation DEF BelowOf
<1>. QED
  BY <1>2, <1>3 DEF Listed

LEMMA EntriesListable ==
  ASSUME NEW path \in DOMAIN Attributes, IsDirectory(path)
  PROVE  Listable(path, Entries[path]) /\ Entries[path] # << >> /\ Head(Entries[path]) \in Dots
BY TreeAssumption DEF Listable

LEMMA MeantType ==
  ASSUME NEW path, NEW recursive
  PROVE  Meant(path, recursive) \in Seq(Capture)
<1>1. << >> \in Seq(Capture)
  OBVIOUS
<1>2. CASE path \notin DOMAIN Attributes
  BY <1>1, <1>2 DEF Meant
<1>3. CASE path \in DOMAIN Attributes
  <2>1. <<path>> \in Seq(Capture)
    BY <1>3, OnceType
  <2>2. IsDirectory(path) => Listed(path, Entries[path], recursive) \in Seq(Capture)
    BY <1>3, EntriesListable, ListedType
  <2>. QED
    BY <1>1, <1>3, <2>1, <2>2 DEF Meant
<1>. QED
  BY <1>2, <1>3

\* The selection.
LEMMA MeantOfLists ==
  ASSUME NEW paths, paths \in Seq(Paths)
  PROVE  /\ Len(paths) \in Nat /\ DOMAIN paths = 1..Len(paths)
         /\ [i \in DOMAIN paths |-> Meant(paths[i], job.kind = "window")]
              \in [1..Len(paths) -> Seq(Capture)]
<1>1. Len(paths) \in Nat /\ DOMAIN paths = 1..Len(paths)
  BY LenProperties
<1>2. \A i \in 1..Len(paths) : Meant(paths[i], job.kind = "window") \in Seq(Capture)
  BY MeantType DEF Capture
<1>. QED
  BY <1>1, <1>2

LEMMA MeantOfType ==
  ASSUME NEW paths, paths \in Seq(Paths)
  PROVE  MeantOf(paths) \in Seq(Capture)
<1>. DEFINE lists == [i \in DOMAIN paths |-> Meant(paths[i], job.kind = "window")]
<1>1. Len(paths) \in Nat /\ lists \in [1..Len(paths) -> Seq(Capture)]
  BY MeantOfLists, Zenon
<1>. HIDE DEF lists
<1>2. lists \in Seq(Seq(Capture))
  BY <1>1, FunctionIsSeq
<1>. QED
  BY <1>2, FlattenType DEF MeantOf, lists

LEMMA MeantOfFirst ==
  ASSUME NEW paths, paths \in Seq(Paths), paths # << >>
  PROVE  MeantOf(paths) = Meant(Head(paths), job.kind = "window") \o MeantOf(Tail(paths))
<1>. DEFINE lists == [i \in DOMAIN paths |-> Meant(paths[i], job.kind = "window")]
            rest == [i \in DOMAIN Tail(paths) |->
                       Meant(Tail(paths)[i], job.kind = "window")]
<1>1. /\ Head(paths) = paths[1] /\ 1 \in DOMAIN paths
      /\ \A i \in DOMAIN Tail(paths) : i + 1 \in DOMAIN paths /\ Tail(paths)[i] = paths[i+1]
      /\ Tail(paths) \in Seq(Paths) /\ Len(Tail(paths)) = Len(paths) - 1
  BY TailParts, HeadTailProperties
<1>2. Len(paths) \in Nat \ {0} /\ lists \in [1..Len(paths) -> Seq(Capture)]
  <2>1. lists \in [1..Len(paths) -> Seq(Capture)]
    BY MeantOfLists, Zenon
  <2>2. Len(paths) \in Nat \ {0}
    BY EmptySeq, LenProperties
  <2>. QED
    BY <2>1, <2>2
<1>3. rest \in [1..Len(paths) - 1 -> Seq(Capture)] /\ DOMAIN Tail(paths) = 1..Len(paths) - 1
  <2>1. /\ rest \in [1..Len(Tail(paths)) -> Seq(Capture)]
        /\ DOMAIN Tail(paths) = 1..Len(Tail(paths))
    BY <1>1, MeantOfLists, Zenon
  <2>. QED
    BY <1>1, <2>1
<1>4. \A i \in 1..Len(paths) - 1 : rest[i] = lists[i+1]
  BY <1>1, <1>3
<1>5. lists[1] = Meant(Head(paths), job.kind = "window")
  BY <1>1
<1>. HIDE DEF lists, rest
<1>6. FlattenSeq(lists) = lists[1] \o FlattenSeq(rest)
  BY <1>2, <1>3, <1>4, FlattenShift, Zenon
<1>. QED
  BY <1>5, <1>6 DEF MeantOf, lists, rest

-----------------------------------------------------------------------------
(* What is owed.                                                           *)

LEMMA FrameParts ==
  ASSUME NEW k, NEW f, FrameOK(k, f)
  PROVE  /\ f \in Frame
         /\ f.at # "enter" => Listable(f.path, f.rest)
         /\ f.at \in {"entry", "sleep"} => f.file \in DOMAIN Attributes
BY DEF FrameOK, Frame, Listable

LEMMA OwedType ==
  ASSUME NEW k, NEW f, FrameOK(k, f)
  PROVE  Owed(f) \in Seq(Capture)
<1>1. /\ f.at # "enter" => Listable(f.path, f.rest)
      /\ f.at \in {"entry", "sleep"} => f.file \in DOMAIN Attributes
  BY FrameParts
<1>2. CASE f.at \in {"enter", "first"}
  BY <1>1, <1>2, MeantType DEF Owed
<1>3. CASE f.at \notin {"enter", "first"}
  <2>1. Listed(f.path, f.rest, f.recursive) \in Seq(Capture)
    BY <1>1, <1>3, ListedType
  <2>2. (IF f.at \in {"entry", "sleep"} THEN <<f.file>> ELSE << >>) \in Seq(Capture)
    <3>1. << >> \in Seq(Capture)
      OBVIOUS
    <3>2. f.at \in {"entry", "sleep"} => <<f.file>> \in Seq(Capture)
      BY <1>1, OnceType
    <3>. QED
      BY <3>1, <3>2
  <2>. QED
    BY <1>3, <2>1, <2>2, ConcatProperties DEF Owed
<1>. QED
  BY <1>2, <1>3

LEMMA OwedLists ==
  ASSUME NEW s \in Seq(Frame), \A k \in 1..Len(s) : FrameOK(k, s[k])
  PROVE  [i \in 1..Len(s) |-> Owed(s[Len(s) + 1 - i])] \in [1..Len(s) -> Seq(Capture)]
<1>1. Len(s) \in Nat
  BY LenProperties
<1>2. \A i \in 1..Len(s) : Len(s) + 1 - i \in 1..Len(s)
  BY <1>1
<1>3. \A i \in 1..Len(s) : Owed(s[Len(s) + 1 - i]) \in Seq(Capture)
  BY <1>2, OwedType
<1>. QED
  BY <1>3

LEMMA OwedAllType ==
  ASSUME NEW s \in Seq(Frame), \A k \in 1..Len(s) : FrameOK(k, s[k])
  PROVE  OwedAll(s) \in Seq(Capture)
<1>. DEFINE lists == [i \in 1..Len(s) |-> Owed(s[Len(s) + 1 - i])]
<1>1. Len(s) \in Nat /\ lists \in [1..Len(s) -> Seq(Capture)]
  BY OwedLists, LenProperties
<1>. HIDE DEF lists
<1>2. lists \in Seq(Seq(Capture))
  BY <1>1, FunctionIsSeq
<1>. QED
  BY <1>2, FlattenType DEF OwedAll, lists

\* The innermost call comes first.
LEMMA OwedPush ==
  ASSUME NEW u, Waits(u), NEW f, FrameOK(Len(u) + 1, f)
  PROVE  /\ OwedAll(Append(u, f)) = Owed(f) \o OwedAll(u)
         /\ OwedAll(u) \in Seq(Capture) /\ Owed(f) \in Seq(Capture)
<1>. DEFINE s == Append(u, f)
<1>1. u \in Seq(Frame) /\ f \in Frame /\ \A k \in 1..Len(u) : FrameOK(k, u[k])
  BY DEF Waits, FrameOK
<1>2. PICK n \in Nat : n = Len(u)
  BY <1>1, LenProperties
<1>3. s \in Seq(Frame) /\ Len(s) = n + 1 /\ s[n+1] = f /\ \A k \in 1..n : s[k] = u[k]
  BY <1>1, <1>2, AppendProperties
<1>. DEFINE lists == [i \in 1..Len(s) |-> Owed(s[Len(s) + 1 - i])]
            rest == [i \in 1..Len(u) |-> Owed(u[Len(u) + 1 - i])]
<1>. HIDE DEF s
<1>4. \A k \in 1..Len(s) : FrameOK(k, s[k])
  <2>1. FrameOK(n + 1, f)
    BY <1>2
  <2>. QED
    BY <1>1, <1>2, <1>3, <2>1
<1>5. lists \in [1..n + 1 -> Seq(Capture)]
  <2>1. lists \in [1..Len(s) -> Seq(Capture)]
    BY <1>3, <1>4, OwedLists
  <2>. QED
    BY <1>3, <2>1
<1>6. rest \in [1..n -> Seq(Capture)]
  <2>1. rest \in [1..Len(u) -> Seq(Capture)]
    BY <1>1, OwedLists
  <2>. QED
    BY <1>2, <2>1
<1>7. lists[1] = Owed(f)
  BY <1>3
<1>8. \A i \in 1..n : rest[i] = lists[i+1]
  <2>1. ASSUME NEW i \in 1..n
        PROVE  rest[i] = lists[i+1]
    <3>1. n + 1 - i \in 1..n /\ n + 1 + 1 - (i + 1) = n + 1 - i /\ i + 1 \in 1..n + 1
      OBVIOUS
    <3>2. rest[i] = Owed(u[n + 1 - i])
      BY <1>2
    <3>3. lists[i+1] = Owed(s[n + 1 + 1 - (i + 1)])
      BY <1>3, <3>1
    <3>. QED
      BY <1>3, <3>1, <3>2, <3>3
  <2>. QED
    BY <2>1
<1>9. OwedAll(s) = FlattenSeq(lists) /\ OwedAll(u) = FlattenSeq(rest)
  BY DEF OwedAll
<1>. HIDE DEF lists, rest
<1>10. PICK m \in Nat \ {0} : m = n + 1 /\ m - 1 = n
  OBVIOUS
<1>11. FlattenSeq(lists) = lists[1] \o FlattenSeq(rest)
  <2>1. /\ lists \in [1..m -> Seq(Capture)] /\ rest \in [1..m - 1 -> Seq(Capture)]
        /\ \A i \in 1..m - 1 : rest[i] = lists[i+1]
    BY <1>5, <1>6, <1>8, <1>10
  <2>. QED
    BY <2>1, FlattenShift, Zenon
<1>12. OwedAll(u) \in Seq(Capture)
  BY <1>1, OwedAllType
<1>13. Owed(f) \in Seq(Capture)
  BY OwedType
<1>. QED
  BY <1>7, <1>9, <1>11, <1>12, <1>13 DEF s

LEMMA OwedStack ==
  ASSUME StackInv, stack # << >>
  PROVE  /\ OwedAll(stack) = Owed(Top) \o OwedAll(Up)
         /\ OwedAll(Up) \in Seq(Capture) /\ Owed(Top) \in Seq(Capture)
<1>1. /\ Waits(Up) /\ FrameOK(Len(Up) + 1, Top)
      /\ stack = Append(Up, Top)
  BY TopCall
<1>. QED
  BY <1>1, OwedPush

LEMMA ListedEmpty ==
  ASSUME NEW path, NEW recursive
  PROVE  Listed(path, << >>, recursive) = << >>
<1>1. [i \in DOMAIN << >> |-> OfEntry(path, << >>[i], recursive)] = << >>
  OBVIOUS
<1>. QED
  BY <1>1, FlattenEmpty DEF Listed

LEMMA Neutral ==
  ASSUME NEW S, NEW s \in Seq(S)
  PROVE  << >> \o s = s /\ s \o << >> = s
BY ConcatEmptySeq

LEMMA Associative ==
  ASSUME NEW S, NEW r \in Seq(S), NEW s \in Seq(S), NEW t \in Seq(S)
  PROVE  r \o (s \o t) = (r \o s) \o t
BY ConcatAssociative

\* What a call owes at each place.
LEMMA OwedFound ==
  ASSUME NEW f, f.at \in {"enter", "first"}
  PROVE  Owed(f) = Meant(f.path, f.recursive)
BY DEF Owed

LEMMA OwedNext ==
  ASSUME NEW k, NEW f, FrameOK(k, f), f.at = "next"
  PROVE  Owed(f) = Listed(f.path, f.rest, f.recursive)
<1>1. Listed(f.path, f.rest, f.recursive) \in Seq(Capture)
  BY FrameParts, ListedType
<1>2. Owed(f) = << >> \o Listed(f.path, f.rest, f.recursive)
  BY DEF Owed
<1>. QED
  BY <1>1, <1>2, Neutral

LEMMA OwedFile ==
  ASSUME NEW f, f.at \in {"entry", "sleep"}
  PROVE  Owed(f) = <<f.file>> \o Listed(f.path, f.rest, f.recursive)
BY DEF Owed

\* What is meant by a path as the walk tells a capture from a folder.
LEMMA MeantTaken ==
  ASSUME NEW path \in DOMAIN Attributes, NEW recursive,
         IF recursive THEN ~IsDirectory(path) ELSE IsArchive(path)
  PROVE  Meant(path, recursive) = <<path>>
BY DEF Meant

LEMMA MeantFolder ==
  ASSUME NEW path \in DOMAIN Attributes, NEW recursive,
         ~IF recursive THEN ~IsDirectory(path) ELSE IsArchive(path)
  PROVE  /\ IsDirectory(path) => Meant(path, recursive)
                                   = Listed(path, Tail(Entries[path]), recursive)
         /\ ~IsDirectory(path) => Meant(path, recursive) = << >>
<1>1. CASE IsDirectory(path)
  <2>1. Meant(path, recursive) = Listed(path, Entries[path], recursive)
    BY <1>1 DEF Meant
  <2>2. Listable(path, Entries[path]) /\ Entries[path] # << >> /\ Head(Entries[path]) \in Dots
    BY <1>1, EntriesListable
  <2>3. /\ Listable(path, Tail(Entries[path]))
        /\ Listed(path, Entries[path], recursive)
             = OfEntry(path, Head(Entries[path]), recursive)
                 \o Listed(path, Tail(Entries[path]), recursive)
    BY <2>2, ListedFirst
  <2>4. OfEntry(path, Head(Entries[path]), recursive) = << >>
    BY <2>2 DEF OfEntry
  <2>5. Listed(path, Tail(Entries[path]), recursive) \in Seq(Capture)
    BY <2>3, ListedType
  <2>. QED
    BY <1>1, <2>1, <2>3, <2>4, <2>5, Neutral
<1>2. CASE ~IsDirectory(path)
  BY <1>2 DEF Meant
<1>. QED
  BY <1>1, <1>2

LEMMA MeantBelow ==
  ASSUME NEW path \in DOMAIN Attributes, IsDirectory(path)
  PROVE  Meant(path, TRUE) = Below[path]
BY ListedBelow DEF Meant

\* What is owed after a return, a change, or a call.
LEMMA OwedAfterPop ==
  ASSUME StackInv, stack # << >>, stack' = Up, Owed(Top) = << >>
  PROVE  OwedAll(stack') = OwedAll(stack)
BY OwedStack, Neutral

LEMMA OwedAfterMove ==
  ASSUME StackInv, stack # << >>, NEW f, FrameOK(Len(stack), f), Move(f)
  PROVE  OwedAll(stack') = Owed(f) \o OwedAll(Up) /\ Owed(f) \in Seq(Capture)
<1>1. Waits(Up) /\ Len(Up) + 1 = Len(stack)
  BY TopCall
<1>2. stack' = Append(Up, f)
  BY DEF Move
<1>. QED
  BY <1>1, <1>2, OwedPush

LEMMA OwedAfterCall ==
  ASSUME StackInv, stack # << >>, NEW f, FrameOK(Len(stack), f), f.at = "next",
         NEW g, FrameOK(Len(stack) + 1, g), stack' = Append(Append(Up, f), g)
  PROVE  OwedAll(stack') = (Owed(g) \o Owed(f)) \o OwedAll(Up)
<1>1. Waits(Up) /\ Len(Up) + 1 = Len(stack)
  BY TopCall
<1>2. Waits(Append(Up, f))
  BY <1>1, WaitsPush
<1>3. Len(Append(Up, f)) = Len(stack)
  BY <1>1, AppendProperties DEF Waits, FrameOK
<1>4. /\ OwedAll(Append(Up, f)) = Owed(f) \o OwedAll(Up)
      /\ OwedAll(Up) \in Seq(Capture) /\ Owed(f) \in Seq(Capture)
  BY <1>1, OwedPush
<1>5. OwedAll(stack') = Owed(g) \o OwedAll(Append(Up, f)) /\ Owed(g) \in Seq(Capture)
  BY <1>2, <1>3, OwedPush
<1>6. Owed(g) \o (Owed(f) \o OwedAll(Up)) = (Owed(g) \o Owed(f)) \o OwedAll(Up)
  <2>1. Owed(g) \in Seq(Capture) /\ Owed(f) \in Seq(Capture) /\ OwedAll(Up) \in Seq(Capture)
    BY <1>4, <1>5
  <2>. QED
    BY <2>1, Associative
<1>. QED
  BY <1>4, <1>5, <1>6

LEMMA NextEntryOwes ==
  ASSUME StageInv, StackInv, running, NextEntry
  PROVE  OwedAll(stack') = OwedAll(stack)
<1>. DEFINE rest == Listed(Top.path, Tail(Top.rest), Top.recursive)
            entry == [Passed EXCEPT !.at = "entry"]
            call == Call(NextPath, TRUE, 0)
<1>1. stack # << >> /\ Top.at = "next" /\ Top.rest # << >>
  BY DEF NextEntry
<1>2. FrameOK(Len(stack), Top) /\ Listable(Top.path, Top.rest)
  BY <1>1, TopCall, FrameParts
<1>3. /\ FrameOK(Len(stack), Passed) /\ Passed \in Frame
      /\ Passed.at = "next" /\ Passed.path = Top.path /\ Passed.file = NextPath
      /\ Passed.rest = Tail(Top.rest) /\ Passed.recursive = Top.recursive
      /\ Passed.delay = Top.delay
      /\ Head(Top.rest) \notin Dots => NextPath \in DOMAIN Attributes
  BY <1>1, EntryFrame DEF FrameOK
<1>4. Owed(Top) = OfEntry(Top.path, Head(Top.rest), Top.recursive) \o rest
      /\ rest \in Seq(Capture)
  <2>1. Owed(Top) = Listed(Top.path, Top.rest, Top.recursive)
    BY <1>1, <1>2, OwedNext
  <2>2. /\ Listable(Top.path, Tail(Top.rest))
        /\ Listed(Top.path, Top.rest, Top.recursive)
             = OfEntry(Top.path, Head(Top.rest), Top.recursive) \o rest
    BY <1>1, <1>2, ListedFirst
  <2>3. rest \in Seq(Capture)
    BY <1>2, <2>2, ListedType DEF Capture
  <2>. QED
    BY <2>1, <2>2, <2>3
<1>5. Owed(Passed) = rest
  BY <1>3, OwedNext
<1>6. OwedAll(stack) = Owed(Top) \o OwedAll(Up)
  BY <1>1, OwedStack
<1>. HIDE DEF rest
<1>7. CASE Skips /\ Move(Passed)
  <2>1. OfEntry(Top.path, Head(Top.rest), Top.recursive) = << >>
    BY <1>7 DEF Skips, OfEntry, NextPath
  <2>2. OwedAll(stack') = Owed(Passed) \o OwedAll(Up)
    BY <1>1, <1>3, <1>7, OwedAfterMove
  <2>. QED
    BY <1>4, <1>5, <1>6, <2>1, <2>2, Neutral
<1>8. CASE ~Skips /\ Takes(NextPath) /\ Move(entry)
  <2>1. OfEntry(Top.path, Head(Top.rest), Top.recursive) = <<NextPath>>
    BY <1>8 DEF Skips, Takes, OfEntry, NextPath
  <2>2. FrameOK(Len(stack), entry)
    BY <1>8, EntryFrames DEF Skips
  <2>3. entry.at = "entry" /\ entry.file = NextPath /\ entry.path = Top.path
        /\ entry.rest = Tail(Top.rest) /\ entry.recursive = Top.recursive
        /\ entry.delay = Top.delay
    BY <1>3 DEF Frame
  <2>. HIDE DEF entry
  <2>4. Owed(entry) = <<NextPath>> \o rest
    BY <2>3 DEF Owed, rest
  <2>5. OwedAll(stack') = Owed(entry) \o OwedAll(Up)
    BY <1>1, <1>8, <2>2, OwedAfterMove
  <2>. QED
    BY <1>4, <1>6, <2>1, <2>4, <2>5
<1>9. CASE ~Skips /\ Top.recursive /\ IsDirectory(NextPath)
           /\ stack' = Append(Append(Up, Passed), call)
  <2>1. OfEntry(Top.path, Head(Top.rest), Top.recursive) = Below[NextPath]
    BY <1>9 DEF Skips, OfEntry, NextPath
  <2>2. NextPath \in DOMAIN Attributes /\ FrameOK(Len(stack) + 1, call)
    BY <1>3, <1>9, EntryFrames DEF Skips
  <2>3. Owed(call) = Below[NextPath]
    <3>1. call.at = "enter" /\ call.path = NextPath /\ call.recursive = TRUE /\ call.delay = 0
      BY DEF Call
    <3>. HIDE DEF call
    <3>2. Owed(call) = Meant(NextPath, TRUE)
      BY <3>1 DEF Owed
    <3>. QED
      BY <1>9, <2>2, <3>2, MeantBelow
  <2>4. OwedAll(stack') = (Owed(call) \o Owed(Passed)) \o OwedAll(Up)
    BY <1>1, <1>3, <1>9, <2>2, OwedAfterCall
  <2>. QED
    BY <1>4, <1>5, <1>6, <2>1, <2>3, <2>4
<1>10. Signalled
  BY DEF Signalled
<1>. QED
  BY <1>7, <1>8, <1>9, <1>10, NextEntryCases

\* No step of a walk that nobody stopped but the beginning of a capture takes
\* anything off what is owed, or adds to it.
LEMMA WalkOwes ==
  ASSUME StageInv, StackInv, running, WalkStep
  PROVE  OwedAll(stack') = OwedAll(stack)
<1>1. stack # << >> /\ Signalled
  BY DEF WalkStep, Enter, FirstFile, FirstFolder, EndListing, NextEntry, EntryFile, Signalled
<1>2. /\ FrameOK(Len(stack), Top) /\ Top \in Frame
      /\ OwedAll(stack) = Owed(Top) \o OwedAll(Up)
  BY <1>1, TopCall, FrameParts, OwedStack
<1>3. ASSUME NEW f, FrameOK(Len(stack), f), Move(f), Owed(f) = Owed(Top)
      PROVE  OwedAll(stack') = OwedAll(stack)
  BY <1>1, <1>2, <1>3, OwedAfterMove
<1>4. CASE Enter
  <2>. DEFINE f == [Top EXCEPT !.at = "first"]
  <2>1. Owed(Top) = Meant(Top.path, Top.recursive)
    BY <1>4, OwedFound DEF Enter
  <2>2. CASE Top.path \notin DOMAIN Attributes
    <3>1. Owed(Top) = << >>
      BY <2>1, <2>2 DEF Meant
    <3>. QED
      BY <1>1, <1>4, <2>2, <3>1, OwedAfterPop DEF Enter, Abandon
  <2>3. CASE Top.path \in DOMAIN Attributes
    <3>1. f.at = "first" /\ f.path = Top.path /\ f.recursive = Top.recursive /\ f.delay = Top.delay
      BY <1>2 DEF Frame
    <3>2. FrameOK(Len(stack), f) /\ Move(f)
      BY <1>1, <1>4, <2>3, SeenFrame DEF Enter
    <3>. HIDE DEF f
    <3>3. Owed(f) = Owed(Top)
      BY <2>1, <3>1, OwedFound
    <3>. QED
      BY <1>3, <3>2, <3>3
  <2>. QED
    BY <2>2, <2>3
<1>5. CASE FirstFile
  <2>. DEFINE f == [Top EXCEPT !.at = "sleep"]
  <2>1. /\ Top.at = "first" /\ Top.path \in DOMAIN Attributes
        /\ Top.rest = << >> /\ Top.file = Top.path
    BY <1>2, <1>5 DEF FirstFile, FrameOK
  <2>2. Owed(Top) = <<Top.path>>
    <3>1. Owed(Top) = Meant(Top.path, Top.recursive)
      BY <2>1, OwedFound
    <3>. QED
      BY <1>5, <2>1, <3>1, MeantTaken DEF FirstFile, Takes
  <2>3. FrameOK(Len(stack), f) /\ Move(f)
    BY <1>1, <1>5, SleepFrame DEF FirstFile
  <2>4. f.at = "sleep" /\ f.path = Top.path /\ f.file = Top.path /\ f.rest = << >>
        /\ f.delay = Top.delay
    BY <1>2, <2>1 DEF Frame
  <2>. HIDE DEF f
  <2>5. Owed(f) = <<Top.path>> \o << >>
    BY <2>4, ListedEmpty DEF Owed
  <2>6. <<Top.path>> \in Seq(Capture)
    BY <1>2, <2>1, OnceType
  <2>. QED
    BY <1>3, <2>2, <2>3, <2>5, <2>6, Neutral
<1>6. CASE FirstFolder
  <2>1. Top.at = "first" /\ Top.path \in DOMAIN Attributes
    BY <1>2, <1>6 DEF FirstFolder, FrameOK
  <2>2. Owed(Top) = Meant(Top.path, Top.recursive)
    BY <2>1, OwedFound
  <2>3. ~IF Top.recursive THEN ~IsDirectory(Top.path) ELSE IsArchive(Top.path)
    BY <1>6 DEF FirstFolder, Takes
  <2>4. CASE IsDirectory(Top.path)
    <3>1. Owed(Top) = Listed(Top.path, Tail(Entries[Top.path]), Top.recursive)
      BY <1>2, <2>1, <2>2, <2>3, <2>4, MeantFolder
    <3>2. /\ FrameOK(Len(stack), Listing)
          /\ Listing.at = "next" /\ Listing.path = Top.path /\ Listing.delay = Top.delay
          /\ Listing.recursive = Top.recursive /\ Listing.rest = Tail(Entries[Top.path])
      BY <1>6, <2>4, FolderFrame
    <3>3. Owed(Listing) = Owed(Top)
      BY <3>1, <3>2, OwedNext
    <3>. QED
      BY <1>3, <1>6, <2>4, <3>2, <3>3 DEF FirstFolder, Listing
  <2>5. CASE ~IsDirectory(Top.path)
    <3>1. Owed(Top) = << >>
      BY <1>2, <2>1, <2>2, <2>3, <2>5, MeantFolder
    <3>. QED
      BY <1>1, <1>6, <2>5, <3>1, OwedAfterPop DEF FirstFolder
  <2>. QED
    BY <2>4, <2>5
<1>7. CASE EndListing
  <2>1. Top.at = "next" /\ Top.rest = << >> /\ stack' = Up
    BY <1>7 DEF EndListing
  <2>2. Owed(Top) = << >>
    BY <1>2, <2>1, OwedNext, ListedEmpty
  <2>. QED
    BY <1>1, <2>1, <2>2, OwedAfterPop
<1>8. CASE NextEntry
  BY <1>8, NextEntryOwes
<1>9. CASE EntryFile
  <2>. DEFINE f == [Top EXCEPT !.at = "sleep"]
  <2>1. FrameOK(Len(stack), f) /\ Move(f) /\ Top.at = "entry"
    BY <1>1, <1>9, SleepFrame DEF EntryFile
  <2>2. /\ f.at = "sleep" /\ f.path = Top.path /\ f.file = Top.file /\ f.rest = Top.rest
        /\ f.delay = Top.delay /\ f.recursive = Top.recursive
    BY <1>2 DEF Frame
  <2>. HIDE DEF f
  <2>3. Owed(f) = Owed(Top)
    BY <2>1, <2>2 DEF Owed
  <2>. QED
    BY <1>3, <2>1, <2>3
<1>. QED
  BY <1>4, <1>5, <1>6, <1>7, <1>8, <1>9 DEF WalkStep

\* The beginning of a capture takes it off what is owed.
LEMMA BeginOwes ==
  ASSUME StageInv, StackInv, Begin
  PROVE  /\ OwedAll(stack) = <<Top.file>> \o OwedAll(stack')
         /\ <<Top.file>> \in Seq(Capture)
         /\ OwedAll(stack') \in Seq(Capture)
<1>1. stack # << >> /\ Top.at = "sleep"
  BY DEF Begin
<1>2. /\ FrameOK(Len(stack), Top) /\ Top \in Frame
      /\ Listable(Top.path, Top.rest) /\ Top.file \in DOMAIN Attributes
      /\ OwedAll(stack) = Owed(Top) \o OwedAll(Up) /\ OwedAll(Up) \in Seq(Capture)
  BY <1>1, TopCall, FrameParts, OwedStack
<1>. DEFINE rest == Listed(Top.path, Top.rest, Top.recursive)
            one == <<Top.file>>
<1>3. Owed(Top) = one \o rest
  BY <1>1, OwedFile
<1>4. one \in Seq(Capture) /\ rest \in Seq(Capture)
  BY <1>2, OnceType, ListedType DEF Capture
<1>5. CASE Top.file = Top.path
  <2>1. rest = << >>
    BY <1>1, <1>2, <1>5, ListedEmpty DEF FrameOK
  <2>2. stack' = Up
    BY <1>5 DEF Begin
  <2>. HIDE DEF rest, one
  <2>. QED
    BY <1>2, <1>3, <1>4, <2>1, <2>2, Neutral DEF one
<1>6. CASE Top.file # Top.path
  <2>. DEFINE f == [Top EXCEPT !.at = "next"]
  <2>1. FrameOK(Len(stack), f) /\ Move(f)
    BY <1>6, BegunFrame DEF Begin
  <2>2. /\ f.at = "next" /\ f.path = Top.path /\ f.rest = Top.rest
        /\ f.delay = Top.delay /\ f.recursive = Top.recursive
    BY <1>2 DEF Frame
  <2>. HIDE DEF f
  <2>3. Owed(f) = rest
    BY <2>1, <2>2, OwedNext
  <2>4. OwedAll(stack') = rest \o OwedAll(Up)
    BY <1>1, <2>1, <2>3, OwedAfterMove
  <2>. HIDE DEF rest, one
  <2>5. (one \o rest) \o OwedAll(Up) = one \o (rest \o OwedAll(Up))
    BY <1>2, <1>4, ConcatAssociative
  <2>6. rest \o OwedAll(Up) \in Seq(Capture)
    BY <1>2, <1>4, ConcatProperties
  <2>. QED
    BY <1>2, <1>3, <1>4, <2>4, <2>5, <2>6 DEF one
<1>. QED
  BY <1>5, <1>6

\* What was handed on, by its places.
LEMMA ToldType ==
  ASSUME job.kind \in Walkers, NEW b \in Seq(Begun)
  PROVE  ToldOf(b) \in Seq(Capture) /\ Len(ToldOf(b)) = Len(b)
<1>1. Len(b) \in Nat /\ DOMAIN b = 1..Len(b)
  BY LenProperties
<1>2. \A i \in 1..Len(b) : b[i] \in Begun
  BY <1>1, ElementOfSeq
<1>3. Captures = DOMAIN Attributes
  BY DEF Captures
<1>4. \A i \in 1..Len(b) : b[i].path \in Capture
  BY <1>2, <1>3 DEF Begun, Capture
<1>5. ToldOf(b) \in [1..Len(b) -> Capture]
  BY <1>1, <1>4 DEF ToldOf
<1>. QED
  BY <1>1, <1>5, FunctionIsSeq

LEMMA AppendPlaces ==
  ASSUME NEW S, NEW b \in Seq(S), NEW r \in S
  PROVE  /\ Append(b, r) \in Seq(S) /\ Len(b) \in Nat
         /\ DOMAIN b = 1..Len(b) /\ DOMAIN Append(b, r) = 1..Len(b) + 1
         /\ Append(b, r)[Len(b) + 1] = r
         /\ \A i \in 1..Len(b) : Append(b, r)[i] = b[i]
<1>1. PICK n \in Nat : n = Len(b) /\ DOMAIN b = 1..n
  BY LenProperties
<1>2. /\ Append(b, r) \in Seq(S) /\ Len(Append(b, r)) = n + 1 /\ Append(b, r)[n+1] = r
      /\ \A i \in 1..n : Append(b, r)[i] = b[i]
  BY <1>1, AppendProperties
<1>3. DOMAIN Append(b, r) = 1..n + 1
  BY <1>2, LenProperties
<1>. QED
  BY <1>1, <1>2, <1>3

LEMMA ToldPush ==
  ASSUME job.kind \in Walkers, NEW b \in Seq(Begun), NEW r \in Begun
  PROVE  ToldOf(Append(b, r)) = ToldOf(b) \o <<r.path>>
<1>. DEFINE c == r.path
<1>1. PICK n \in Nat : n = Len(b)
  BY LenProperties
<1>2. /\ Append(b, r) \in Seq(Begun) /\ DOMAIN b = 1..n /\ DOMAIN Append(b, r) = 1..n + 1
      /\ Append(b, r)[n+1] = r /\ \A i \in 1..n : Append(b, r)[i] = b[i]
  <2>1. /\ Append(b, r) \in Seq(Begun) /\ DOMAIN b = 1..Len(b)
        /\ DOMAIN Append(b, r) = 1..Len(b) + 1 /\ Append(b, r)[Len(b) + 1] = r
        /\ \A i \in 1..Len(b) : Append(b, r)[i] = b[i]
    BY AppendPlaces
  <2>. QED
    BY <1>1, <2>1
<1>3. /\ ToldOf(b) \in Seq(Capture) /\ Len(ToldOf(b)) = n
      /\ ToldOf(Append(b, r)) \in Seq(Capture) /\ Len(ToldOf(Append(b, r))) = Len(Append(b, r))
  BY <1>1, <1>2, ToldType
<1>4. Len(Append(b, r)) = n + 1
  BY <1>2, LenProperties
<1>5. c \in Capture
  BY DEF Captures, Begun, Capture
<1>6. /\ Append(ToldOf(b), c) \in Seq(Capture) /\ Len(Append(ToldOf(b), c)) = n + 1
      /\ Append(ToldOf(b), c)[n+1] = c /\ \A i \in 1..n : Append(ToldOf(b), c)[i] = ToldOf(b)[i]
  <2>1. /\ Append(ToldOf(b), c) \in Seq(Capture) /\ DOMAIN Append(ToldOf(b), c) = 1..n + 1
        /\ Append(ToldOf(b), c)[n+1] = c /\ \A i \in 1..n : Append(ToldOf(b), c)[i] = ToldOf(b)[i]
    BY <1>3, <1>5, AppendPlaces
  <2>. QED
    BY <2>1, LenProperties
<1>7. \A i \in 1..n + 1 : ToldOf(Append(b, r))[i] = Append(ToldOf(b), c)[i]
  <2>1. ToldOf(Append(b, r))[n+1] = c
    BY <1>2 DEF ToldOf
  <2>2. \A i \in 1..n : ToldOf(Append(b, r))[i] = ToldOf(b)[i]
    <3>1. \A i \in 1..n : i \in DOMAIN Append(b, r) /\ i \in DOMAIN b
      BY <1>2
    <3>. QED
      BY <1>2, <3>1 DEF ToldOf
  <2>. QED
    BY <1>6, <2>1, <2>2
<1>8. ToldOf(Append(b, r)) = Append(ToldOf(b), c)
  BY <1>3, <1>4, <1>6, <1>7, SeqEqual
<1>. HIDE DEF c
<1>9. Append(ToldOf(b), c) = ToldOf(b) \o <<c>>
  BY <1>3, <1>5, AppendIsConcat
<1>. QED
  BY <1>8, <1>9 DEF Capture, c

LEMMA MeantOfEmpty == MeantOf(<< >>) = << >>
<1>1. [i \in DOMAIN << >> |-> Meant(<< >>[i], job.kind = "window")] = << >>
  OBVIOUS
<1>. QED
  BY <1>1, FlattenEmpty DEF MeantOf

LEMMA OwedNothing == OwedAll(<< >>) = << >>
<1>1. [i \in 1..Len(<< >>) |-> Owed(<< >>[Len(<< >>) + 1 - i])] = << >>
  OBVIOUS
<1>. QED
  BY <1>1, FlattenEmpty DEF OwedAll

\* While nobody stopped the walk its books balance, and so what was handed on is
\* the beginning of what was meant.
LEMMA BalancedBegins ==
  ASSUME StageInv, StackInv, LateInv, job.kind \in Walkers, Balanced
  PROVE  BeginningInv
<1>. DEFINE M == MeantOf(todo)
<1>1. Told \in Seq(Capture) /\ M \in Seq(Capture)
  BY ToldType, MeantOfType DEF LateInv, StackInv, Told
<1>2. OwedAll(stack) \in Seq(Capture)
  <2>1. CASE stack = << >>
    BY <2>1, OwedNothing, EmptySeq
  <2>2. CASE stack # << >>
    <3>1. OwedAll(stack) = Owed(Top) \o OwedAll(Up)
          /\ Owed(Top) \in Seq(Capture) /\ OwedAll(Up) \in Seq(Capture)
      BY <2>2, OwedStack
    <3>. QED
      BY <3>1, ConcatProperties
  <2>. QED
    BY <2>1, <2>2
<1>3. IsPrefix(Told, MeantOf(job.paths))
  <2>1. OwedAll(stack) \o M \in Seq(Capture)
    BY <1>1, <1>2, ConcatProperties
  <2>2. IsPrefix(Told, Told \o (OwedAll(stack) \o M))
    BY <1>1, <2>1, PrefixOfConcat
  <2>. QED
    BY <2>2 DEF Balanced
<1>4. ASSUME stack # << >>, Top.at = "sleep"
      PROVE  IsPrefix(Told \o <<Top.file>>, MeantOf(job.paths))
  <2>. DEFINE one == <<Top.file>>
              rest == Listed(Top.path, Top.rest, Top.recursive)
  <2>1. /\ FrameOK(Len(stack), Top)
        /\ Listable(Top.path, Top.rest) /\ Top.file \in DOMAIN Attributes
    BY <1>4, TopCall, FrameParts
  <2>2. /\ OwedAll(stack) = Owed(Top) \o OwedAll(Up) /\ OwedAll(Up) \in Seq(Capture)
    BY <1>4, OwedStack
  <2>3. Owed(Top) = one \o rest
    BY <1>4, OwedFile
  <2>4. one \in Seq(Capture) /\ rest \in Seq(Capture)
    BY <2>1, OnceType, ListedType DEF Capture
  <2>. DEFINE told == Told
              up == OwedAll(Up)
  <2>5. told \in Seq(Capture) /\ up \in Seq(Capture)
    BY <1>1, <2>2
  <2>6. told \o (((one \o rest) \o up) \o M) = MeantOf(job.paths)
    BY <2>2, <2>3 DEF Balanced
  <2>. HIDE DEF one, rest, told, up, M
  <2>7. /\ one \o rest \in Seq(Capture) /\ up \o M \in Seq(Capture)
        /\ rest \o (up \o M) \in Seq(Capture) /\ told \o one \in Seq(Capture)
    <3>1. one \o rest \in Seq(Capture) /\ up \o M \in Seq(Capture) /\ told \o one \in Seq(Capture)
      BY <1>1, <2>4, <2>5, ConcatProperties
    <3>. QED
      BY <2>4, <3>1, ConcatProperties
  <2>8. ((one \o rest) \o up) \o M = (one \o rest) \o (up \o M)
    BY <1>1, <2>5, <2>7, Associative
  <2>. DEFINE after == up \o M
              more == rest \o after
  <2>9. after \in Seq(Capture) /\ more \in Seq(Capture)
    BY <2>7
  <2>. HIDE DEF after, more
  <2>10. told \o (one \o more) = (told \o one) \o more
    BY <2>4, <2>5, <2>9, Associative
  <2>11. (one \o rest) \o after = one \o (rest \o after)
    BY <2>4, <2>9, Associative
  <2>12. IsPrefix(told \o one, (told \o one) \o (rest \o (up \o M)))
    BY <2>7, PrefixOfConcat
  <2>. QED
    BY <2>6, <2>8, <2>10, <2>11, <2>12 DEF told, one, after, more
<1>. QED
  BY <1>3, <1>4 DEF BeginningInv

\* The next path of the selection is owed by the call that walks it.
LEMMA NextFileOwes ==
  ASSUME StageInv, StackInv, NextFile, todo # None, running
  PROVE  OwedAll(stack') \o MeantOf(todo') = OwedAll(stack) \o MeantOf(todo)
<1>. DEFINE call == Call(Head(todo), job.kind = "window", job.delay)
            meant == Meant(Head(todo), job.kind = "window")
<1>1. /\ Waits(<< >>) /\ FrameOK(1, call) /\ stack' = <<call>> /\ todo' = Tail(todo)
      /\ stack = << >> /\ todo \in Seq(Paths) /\ todo # << >>
  BY NextFileStack DEF StackInv, None
<1>2. Owed(call) = meant
  <2>1. /\ call.at = "enter" /\ call.path = Head(todo) /\ call.recursive = (job.kind = "window")
        /\ call.delay = job.delay
    BY DEF Call
  <2>. HIDE DEF call
  <2>. QED
    BY <2>1 DEF Owed
<1>3. meant \in Seq(Capture)
  BY MeantType DEF Capture
<1>. HIDE DEF call, meant
<1>4. OwedAll(stack') = meant
  <2>1. stack' = Append(<< >>, call) /\ FrameOK(Len(<< >>) + 1, call)
    BY <1>1
  <2>2. OwedAll(Append(<< >>, call)) = Owed(call) \o OwedAll(<< >>)
    BY <1>1, <2>1, OwedPush
  <2>. QED
    BY <1>2, <1>3, <2>1, <2>2, OwedNothing, Neutral
<1>5. MeantOf(todo) = meant \o MeantOf(todo')
  BY <1>1, MeantOfFirst DEF meant
<1>6. MeantOf(todo) \in Seq(Capture)
  BY <1>1, MeantOfType
<1>7. OwedAll(stack) \o MeantOf(todo) = MeantOf(todo)
  BY <1>1, <1>6, OwedNothing, Neutral
<1>. QED
  BY <1>4, <1>5, <1>7

LEMMA OwingStep == StageInv /\ StackInv /\ LateInv /\ OwingInv /\ [Next]_vars => OwingInv'
<1>. SUFFICES ASSUME StageInv, StackInv, LateInv, OwingInv, [Next]_vars, job' = job,
                     job.kind \in Walkers
              PROVE  OwingInv'
  BY JobStays DEF OwingInv
<1>1. MeantOf(job.paths)' = MeantOf(job.paths) /\ MeantOf(todo)' = MeantOf(todo')
  BY DEF MeantOf
<1>2. running => Balanced
  BY DEF OwingInv
<1>3. BeginningInv
  BY <1>2, BalancedBegins DEF OwingInv
<1>4. ASSUME running' => Balanced', ~running' => BeginningInv'
      PROVE  OwingInv'
  BY <1>4 DEF OwingInv
<1>5. CASE UNCHANGED <<begun, stack, todo>> /\ (running' => running)
  <2>1. Balanced => Balanced'
    BY <1>1, <1>5 DEF Balanced, Told
  <2>2. BeginningInv => BeginningInv'
    BY <1>1, <1>5 DEF BeginningInv, Told, Top
  <2>. QED
    BY <1>2, <1>3, <1>4, <1>5, <2>1, <2>2
<1>6. CASE Walk
  <2>1. WalkStep /\ UNCHANGED <<begun, running, todo>>
    BY <1>6, WalkBegins, WalkKeeps DEF Walk, progVars
  <2>2. CASE running
    <3>1. OwedAll(stack') = OwedAll(stack)
      BY <2>1, <2>2, WalkOwes
    <3>2. Balanced'
      BY <1>1, <1>2, <2>1, <2>2, <3>1 DEF Balanced, Told
    <3>. QED
      BY <1>4, <2>1, <2>2, <3>2
  <2>3. CASE ~running
    <3>1. stack' # << >> => Top'.at = "next"
      BY <2>1, <2>3, StoppedTop
    <3>2. BeginningInv'
      BY <1>1, <1>3, <2>1, <3>1 DEF BeginningInv, Told
    <3>. QED
      BY <1>4, <2>1, <2>3, <3>2
  <2>. QED
    BY <2>2, <2>3
<1>7. CASE DoAction
  <2>. DEFINE r == [path |-> Top.file, late |-> ~running]
              one == <<Top.file>>
  <2>1. /\ Begin /\ begun' = Append(begun, r) /\ stack # << >> /\ Top.at = "sleep"
        /\ running' = running /\ todo' = todo
    BY <1>7 DEF DoAction, Begin
  <2>2. r \in Begun /\ r.path = Top.file
    BY <1>7, <2>1, BeginType DEF DoAction
  <2>. HIDE DEF r
  <2>3. Told' = Told \o one /\ Told \in Seq(Capture)
    BY <2>1, <2>2, ToldPush, ToldType DEF Told, LateInv
  <2>4. CASE running
    <3>1. /\ OwedAll(stack) = one \o OwedAll(stack') /\ one \in Seq(Capture)
          /\ OwedAll(stack') \in Seq(Capture)
      BY <2>1, BeginOwes
    <3>. DEFINE rest == OwedAll(stack')
                M == MeantOf(todo)
                told == Told
    <3>2. rest \in Seq(Capture)
      BY <3>1
    <3>3. M \in Seq(Capture) /\ told \in Seq(Capture)
      BY <2>3, MeantOfType DEF StackInv
    <3>4. told \o ((one \o rest) \o M) = MeantOf(job.paths)
      BY <1>2, <2>4, <3>1 DEF Balanced
    <3>. HIDE DEF rest, M, told, one
    <3>5. rest \o M \in Seq(Capture)
      BY <3>2, <3>3, ConcatProperties
    <3>6. (one \o rest) \o M = one \o (rest \o M)
      BY <3>1, <3>2, <3>3, Associative
    <3>7. told \o (one \o (rest \o M)) = (told \o one) \o (rest \o M)
      <4>. DEFINE more == rest \o M
      <4>1. more \in Seq(Capture) /\ one \in Seq(Capture) /\ told \in Seq(Capture)
        BY <3>1, <3>3, <3>5
      <4>. HIDE DEF more
      <4>2. told \o (one \o more) = (told \o one) \o more
        BY <4>1, Associative
      <4>. QED
        BY <4>2 DEF more
    <3>8. (told \o one) \o (rest \o M) = MeantOf(job.paths)
      BY <3>4, <3>6, <3>7
    <3>9. Balanced'
      BY <1>1, <2>1, <2>3, <3>8 DEF Balanced, rest, M, told
    <3>. QED
      BY <1>4, <2>1, <2>4, <3>9
  <2>5. CASE ~running
    <3>1. stack' # << >> => Top'.at = "next"
      BY <2>1, <2>5, StoppedTop
    <3>2. IsPrefix(Told \o one, MeantOf(job.paths))
      BY <1>3, <2>1 DEF BeginningInv
    <3>3. BeginningInv'
      BY <1>1, <2>3, <3>1, <3>2 DEF BeginningInv
    <3>. QED
      BY <1>4, <2>1, <2>5, <3>3
  <2>. QED
    BY <2>4, <2>5
<1>8. CASE NextFile
  <2>1. CASE todo # None /\ running
    <3>1. OwedAll(stack') \o MeantOf(todo') = OwedAll(stack) \o MeantOf(todo)
      BY <1>8, <2>1, NextFileOwes
    <3>2. begun' = begun /\ running' = running
      BY <1>8 DEF NextFile
    <3>3. Balanced'
      BY <1>1, <1>2, <2>1, <3>1, <3>2 DEF Balanced, Told
    <3>. QED
      BY <1>4, <2>1, <3>2, <3>3
  <2>. QED
    BY <1>5, <1>8, <2>1 DEF NextFile
<1>9. CASE PlayBack
  BY <1>9 DEF PlayBack, StageInv, Walkers
<1>10. CASE \/ Tell \/ TellAll \/ Lookup \/ OpenIf \/ OpenMirror \/ FindMac \/ FindIp
            \/ EndWalk \/ Destroy \/ Stop \/ UNCHANGED vars
  BY <1>5, <1>10 DEF Tell, TellAll, Lookup, OpenIf, OpenMirror, FindMac, FindIp,
     EndWalk, Destroy, Stop, vars, progVars, walkVars
<1>. QED
  BY <1>6, <1>7, <1>8, <1>9, <1>10 DEF Next, Run

LEMMA OwingInvariant == Spec => []OwingInv
<1>1. Init => OwingInv
  <2>. SUFFICES ASSUME Init
                PROVE  Balanced /\ running
    BY DEF OwingInv
  <2>1. /\ todo = job.paths /\ stack = << >> /\ begun = << >> /\ running
    BY DEF Init, WalkInit
  <2>2. MeantOf(job.paths) \in Seq(Capture)
    BY InitJob, MeantOfType DEF JobOK
  <2>3. Told = << >>
    BY <2>1 DEF Told, ToldOf
  <2>4. OwedAll(stack) = << >>
    BY <2>1, OwedNothing
  <2>5. << >> \o MeantOf(job.paths) = MeantOf(job.paths)
    BY <2>2, Neutral
  <2>. QED
    BY <2>1, <2>3, <2>4, <2>5 DEF Balanced
<1>. QED
  BY <1>1, OwingStep, StageInvariant, StackInvariant, LateInvariant, PTL DEF Spec

\* The captures that were none.
LEMMA RefusedType ==
  ASSUME job.kind \in Walkers, NEW b \in Seq(Begun)
  PROVE  RefusedOf(b) \in Seq(Seq(DOMAIN Attributes)) /\ Len(RefusedOf(b)) = Len(b)
<1>1. Len(b) \in Nat /\ DOMAIN b = 1..Len(b)
  BY LenProperties
<1>2. \A i \in 1..Len(b) : b[i].path \in DOMAIN Attributes
  <2>1. \A i \in 1..Len(b) : b[i] \in Begun
    BY <1>1, ElementOfSeq
  <2>. QED
    BY <2>1 DEF Begun, Captures
<1>3. \A i \in 1..Len(b) : (IF Opened(b[i].path) THEN << >> ELSE <<b[i].path>>)
                             \in Seq(DOMAIN Attributes)
  <2>1. << >> \in Seq(DOMAIN Attributes)
    BY EmptySeq
  <2>2. \A i \in 1..Len(b) : <<b[i].path>> \in Seq(DOMAIN Attributes)
    BY <1>2
  <2>. QED
    BY <2>1, <2>2
<1>4. RefusedOf(b) \in [1..Len(b) -> Seq(DOMAIN Attributes)]
  BY <1>1, <1>3 DEF RefusedOf
<1>. QED
  BY <1>1, <1>4, FunctionIsSeq

LEMMA RefusedPush ==
  ASSUME job.kind \in Walkers, NEW b \in Seq(Begun), NEW r \in Begun
  PROVE  FlattenSeq(RefusedOf(Append(b, r)))
         = IF Opened(r.path) THEN FlattenSeq(RefusedOf(b))
           ELSE Append(FlattenSeq(RefusedOf(b)), r.path)
<1>. DEFINE S == DOMAIN Attributes
            e == IF Opened(r.path) THEN << >> ELSE <<r.path>>
<1>1. PICK n \in Nat : n = Len(b)
  BY LenProperties
<1>2. /\ Append(b, r) \in Seq(Begun) /\ DOMAIN b = 1..n /\ DOMAIN Append(b, r) = 1..n + 1
      /\ Append(b, r)[n+1] = r /\ \A i \in 1..n : Append(b, r)[i] = b[i]
  <2>1. /\ Append(b, r) \in Seq(Begun) /\ DOMAIN b = 1..Len(b)
        /\ DOMAIN Append(b, r) = 1..Len(b) + 1 /\ Append(b, r)[Len(b) + 1] = r
        /\ \A i \in 1..Len(b) : Append(b, r)[i] = b[i]
    BY AppendPlaces
  <2>. QED
    BY <1>1, <2>1
<1>3. Len(Append(b, r)) = n + 1
  BY <1>2, LenProperties
<1>4. /\ RefusedOf(b) \in Seq(Seq(S)) /\ Len(RefusedOf(b)) = n
      /\ RefusedOf(Append(b, r)) \in Seq(Seq(S)) /\ Len(RefusedOf(Append(b, r))) = n + 1
  BY <1>1, <1>2, <1>3, RefusedType
<1>5. r.path \in S /\ e \in Seq(S)
  <2>1. r.path \in S
    BY DEF Begun, Captures
  <2>2. << >> \in Seq(S) /\ <<r.path>> \in Seq(S)
    BY <2>1, EmptySeq
  <2>. QED
    BY <2>1, <2>2
<1>6. /\ Append(RefusedOf(b), e) \in Seq(Seq(S)) /\ Len(Append(RefusedOf(b), e)) = n + 1
      /\ Append(RefusedOf(b), e)[n+1] = e
      /\ \A i \in 1..n : Append(RefusedOf(b), e)[i] = RefusedOf(b)[i]
  <2>1. /\ Append(RefusedOf(b), e) \in Seq(Seq(S)) /\ DOMAIN Append(RefusedOf(b), e) = 1..n + 1
        /\ Append(RefusedOf(b), e)[n+1] = e
        /\ \A i \in 1..n : Append(RefusedOf(b), e)[i] = RefusedOf(b)[i]
    BY <1>4, <1>5, AppendPlaces
  <2>. QED
    BY <2>1, LenProperties
<1>7. \A i \in 1..n + 1 : RefusedOf(Append(b, r))[i] = Append(RefusedOf(b), e)[i]
  <2>1. RefusedOf(Append(b, r))[n+1] = e
    BY <1>2 DEF RefusedOf
  <2>2. \A i \in 1..n : RefusedOf(Append(b, r))[i] = RefusedOf(b)[i]
    <3>1. \A i \in 1..n : i \in DOMAIN Append(b, r) /\ i \in DOMAIN b
      BY <1>2
    <3>. QED
      BY <1>2, <3>1 DEF RefusedOf
  <2>. QED
    BY <1>6, <2>1, <2>2
<1>8. RefusedOf(Append(b, r)) = Append(RefusedOf(b), e)
  BY <1>4, <1>6, <1>7, SeqEqual
<1>9. FlattenSeq(RefusedOf(Append(b, r))) = FlattenSeq(RefusedOf(b)) \o e
  BY <1>4, <1>5, <1>8, FlattenAppend
<1>10. FlattenSeq(RefusedOf(b)) \in Seq(S)
  BY <1>4, FlattenType
<1>11. CASE Opened(r.path)
  BY <1>9, <1>10, <1>11, Neutral
<1>12. CASE ~Opened(r.path)
  <2>1. FlattenSeq(RefusedOf(b)) \o <<r.path>> = Append(FlattenSeq(RefusedOf(b)), r.path)
    BY <1>5, <1>10, AppendIsConcat
  <2>. QED
    BY <1>9, <1>12, <2>1
<1>. QED
  BY <1>11, <1>12

LEMMA ReportStep == StageInv /\ StackInv /\ LateInv /\ ReportInv /\ [Next]_vars => ReportInv'
<1>. SUFFICES ASSUME StageInv, StackInv, LateInv, ReportInv, [Next]_vars, job' = job,
                     job.kind \in Walkers
              PROVE  ReportInv'
  BY JobStays DEF ReportInv
<1>1. report.total = Len(begun) /\ report.corrupted = FlattenSeq(RefusedOf(begun))
  BY DEF ReportInv
<1>2. CASE begun' = begun /\ report'.total = report.total /\ report'.corrupted = report.corrupted
  BY <1>1, <1>2 DEF ReportInv
<1>3. CASE UNCHANGED <<begun, report>>
  BY <1>1, <1>3 DEF ReportInv
<1>4. CASE DoAction
  <2>. DEFINE r == [path |-> Top.file, late |-> ~running]
  <2>1. Begin /\ begun' = Append(begun, r)
    BY <1>4 DEF DoAction, Begin
  <2>2. r \in Begun /\ r.path = Top.file
    BY <1>4, <2>1, BeginType DEF DoAction
  <2>3. /\ report'.total = report.total + 1
        /\ report'.corrupted = IF Opened(Top.file) THEN report.corrupted
                               ELSE Append(report.corrupted, Top.file)
    BY <1>4 DEF DoAction, Replayed, Described
  <2>. HIDE DEF r
  <2>4. Len(begun') = Len(begun) + 1
    BY <2>1, <2>2, AppendProperties DEF LateInv
  <2>5. FlattenSeq(RefusedOf(begun'))
        = IF Opened(r.path) THEN FlattenSeq(RefusedOf(begun))
          ELSE Append(FlattenSeq(RefusedOf(begun)), r.path)
    BY <2>1, <2>2, RefusedPush DEF LateInv
  <2>. QED
    BY <1>1, <2>2, <2>3, <2>4, <2>5 DEF ReportInv
<1>5. CASE Walk
  BY <1>3, <1>5, WalkBegins DEF Walk, progVars
<1>6. CASE Lookup
  <2>1. job.kind # "replay"
    BY DEF Walkers
  <2>. QED
    BY <1>3, <1>6, <2>1 DEF Lookup, walkVars
<1>8. CASE Tell \/ PlayBack
  BY <1>8 DEF Tell, PlayBack, StageInv, Walkers
<1>7. CASE \/ TellAll \/ OpenIf \/ OpenMirror \/ FindMac \/ FindIp \/ NextFile
           \/ EndWalk \/ Destroy \/ Stop \/ UNCHANGED vars
  BY <1>3, <1>7 DEF TellAll, OpenIf, OpenMirror, FindMac, FindIp, NextFile,
     EndWalk, Destroy, Stop, vars, progVars, walkVars
<1>. QED
  BY <1>4, <1>5, <1>6, <1>7, <1>8 DEF Next, Run

LEMMA ReportInvariant == Spec => []ReportInv
<1>1. Init => ReportInv
  <2>1. Init => RefusedOf(begun) = << >>
    BY DEF Init, WalkInit, RefusedOf
  <2>. QED
    BY <2>1, FlattenEmpty DEF Init, WalkInit, ReportInv, None
<1>. QED
  BY <1>1, ReportStep, StageInvariant, StackInvariant, LateInvariant, PTL DEF Spec

\* A walk hands on every capture below the paths it was given once, in the order
\* of the listings of windows.hpp:98-206, and nothing else; a Stop or a crash
\* cuts the list short.  What is no capture is counted.
THEOREM WalkFaithfulHolds == Spec => []WalkFaithful
<1>1. StageInv /\ StackInv /\ LateInv /\ OwingInv /\ ReportInv => WalkFaithful
  <2>. SUFFICES ASSUME StageInv, StackInv, LateInv, OwingInv, ReportInv, job.kind \in Walkers
                PROVE  /\ IsPrefix(Told, MeantOf(job.paths))
                       /\ stage = "end" /\ todo = None /\ running => Told = MeantOf(job.paths)
                       /\ report.total = Len(begun)
                       /\ report.corrupted = FlattenSeq(RefusedOf(begun))
    BY DEF WalkFaithful, Walkers, Told, ToldOf, RefusedOf
  <2>1. IsPrefix(Told, MeantOf(job.paths))
    BY BalancedBegins DEF OwingInv, BeginningInv, StageInv
  <2>2. ASSUME stage = "end", todo = None, running
        PROVE  Told = MeantOf(job.paths)
    <3>1. Told \o (OwedAll(stack) \o MeantOf(todo)) = MeantOf(job.paths)
      BY <2>2 DEF OwingInv, Balanced
    <3>2. OwedAll(stack) = << >> /\ MeantOf(todo) = << >>
      BY <2>2, OwedNothing, MeantOfEmpty DEF StageInv, None
    <3>3. << >> \o << >> = << >>
      OBVIOUS
    <3>4. Told \in Seq(Capture)
      BY ToldType DEF LateInv, Told
    <3>. QED
      BY <3>1, <3>2, <3>3, <3>4, Neutral
  <2>. QED
    BY <2>1, <2>2 DEF ReportInv
<1>. QED
  BY <1>1, StageInvariant, StackInvariant, LateInvariant, OwingInvariant, ReportInvariant, PTL
=============================================================================
