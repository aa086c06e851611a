------------------------------- MODULE StressLoader -------------------------------
(***************************************************************************)
(* The life of ebpf-stress processes (cmd/ebpf-stress/main.go and          *)
(* pkg/ebpf/loader.go) around the directory their maps are pinned in.      *)
(*                                                                         *)
(* The six maps are pinned by name, so a process that starts finds and     *)
(* reuses whatever an earlier or a concurrent process left there; a        *)
(* process that stops in order disables its program, detaches it and       *)
(* removes the directory; one that dies leaves everything behind, even its *)
(* program if that is a TC filter.                                         *)
(*                                                                         *)
(* A process is run with --pin-maps, the default; each one attaches to an  *)
(* interface of its own.  A packet is one step: StressProgram takes it     *)
(* apart.                                                                  *)
(***************************************************************************)
EXTENDS Integers

CONSTANTS
  Instances,   \* ebpf-stress processes
  TCInstances, \* those run with --hook tc-ingress or tc-egress; others use xdp
  Loops(_, _), \* the --loops of a process in its n-th run, after validateConfig
  CounterMaps, \* the statistics maps
  LoopMap,     \* config_loop_count
  EnabledMap,  \* config_enabled
  Objects,     \* identities a map object created under a name can have
  None,        \* no map object, no program
  MaxRuns,     \* BOUND: how often a process is started
  MaxPackets   \* BOUND: packets a map object counts

MapNames == CounterMaps \cup {LoopMap, EnabledMap}

ASSUME LoaderAssumption ==
  /\ TCInstances \subseteq Instances
  /\ None \notin Objects
  /\ LoopMap \notin CounterMaps /\ EnabledMap \notin CounterMaps /\ LoopMap # EnabledMap
  /\ MaxRuns \in Nat /\ MaxPackets \in Nat
  /\ \A i \in Instances, n \in 1 .. MaxRuns : Loops(i, n) \in Nat

VARIABLES
  \* The kernel.
  pins,      \* the object pinned under each name, or None
  readable,  \* the names makeMapsReadable has chmodded
  value,     \* value[m][o]: the content of object o of map m
  born,      \* the objects created so far, by name
  dir,       \* the pin directory exists
  prog,      \* prog[i]: the maps of i's program attached to a hook, or None
  \* The processes.
  stage,     \* where each process is in run
  todo,      \* maps still to load, chmod or unpin
  fd,        \* fd[i][m]: the object the process holds open
  runs,      \* how often it has started
  clean      \* HISTORY: its latest run ended through Detach

kernel == <<pins, readable, value, born, dir, prog>>
process == <<stage, todo, fd, runs, clean>>
vars == <<kernel, process>>

NoFds == [m \in MapNames |-> None]

Stages == {"off", "load", "chmod", "set_loops", "enable", "attach", "running",
           "undo", "disable", "detach", "close", "unpin"}

Pinned == {m \in MapNames : pins[m] # None}

--------------------------------------------------------------------------------
Init ==
  /\ pins = NoFds /\ readable = {} /\ dir = FALSE
  /\ value = [m \in MapNames |-> [o \in Objects |-> 0]]
  /\ born = [m \in MapNames |-> {}]
  /\ prog = [i \in Instances |-> None]
  /\ stage = [i \in Instances |-> "off"]
  /\ todo = [i \in Instances |-> {}]
  /\ fd = [i \in Instances |-> NoFds]
  /\ runs = [i \in Instances |-> 0]
  /\ clean = [i \in Instances |-> FALSE]

Goto(i, from, to) == stage[i] = from /\ stage' = [stage EXCEPT ![i] = to]

--------------------------------------------------------------------------------
(* LoadAndAttach.                                                          *)

\* run: NewLoader makes the pin directory, then the collection is loaded.
Start(i) ==
  /\ runs[i] < MaxRuns
  /\ Goto(i, "off", "load")
  /\ dir' = TRUE
  /\ todo' = [todo EXCEPT ![i] = MapNames]
  /\ runs' = [runs EXCEPT ![i] = @ + 1]
  /\ clean' = [clean EXCEPT ![i] = FALSE]
  /\ UNCHANGED <<pins, readable, value, born, prog, fd>>

\* The process goes on to the next stage once nothing is left to do in this one.
Done(i, m, next, left) ==
  /\ todo' = [todo EXCEPT ![i] = IF @ = {m} THEN left ELSE @ \ {m}]
  /\ stage' = IF todo[i] = {m} THEN [stage EXCEPT ![i] = next] ELSE stage

\* MUTANT of ReuseMap: every run starts with its counters at zero.
ReuseMapResetting(i, m) ==
  /\ stage[i] = "load" /\ m \in todo[i]
  /\ pins[m] # None
  /\ fd' = [fd EXCEPT ![i][m] = pins[m]]
  /\ value' = [value EXCEPT ![m][pins[m]] = 0]
  /\ Done(i, m, "chmod", MapNames)
  /\ UNCHANGED <<pins, readable, born, dir, prog, runs, clean>>

\* NewCollection takes the maps in any order and reuses the pinned ones.
ReuseMap(i, m) ==
  /\ stage[i] = "load" /\ m \in todo[i]
  /\ pins[m] # None
  /\ fd' = [fd EXCEPT ![i][m] = pins[m]]
  /\ Done(i, m, "chmod", MapNames)
  /\ UNCHANGED <<kernel, runs, clean>>

\* MUTANT of CreateMap: the collection loaded without its pin path.
CreateMapUnpinned(i, m, o) ==
  /\ stage[i] = "load" /\ m \in todo[i]
  /\ pins[m] = None /\ dir
  /\ o \notin born[m]
  /\ born' = [born EXCEPT ![m] = @ \cup {o}]
  /\ fd' = [fd EXCEPT ![i][m] = o]
  /\ Done(i, m, "chmod", MapNames)
  /\ UNCHANGED <<pins, readable, value, dir, prog, runs, clean>>

\* A map that is not pinned is created, zeroed, and pinned with mode 0600.
CreateMap(i, m, o) ==
  /\ stage[i] = "load" /\ m \in todo[i]
  /\ pins[m] = None /\ dir
  /\ o \notin born[m]
  /\ born' = [born EXCEPT ![m] = @ \cup {o}]
  /\ pins' = [pins EXCEPT ![m] = o]
  /\ fd' = [fd EXCEPT ![i][m] = o]
  /\ Done(i, m, "chmod", MapNames)
  /\ UNCHANGED <<readable, value, dir, prog, runs, clean>>

\* MUTANT of ChmodMap: config_loop_count missing from mapNames.
ChmodMapForgotten(i, m) ==
  /\ stage[i] = "chmod" /\ m \in todo[i]
  /\ readable' = IF pins[m] # None /\ m # LoopMap THEN readable \cup {m} ELSE readable
  /\ Done(i, m, "set_loops", {})
  /\ UNCHANGED <<pins, value, born, dir, prog, fd, runs, clean>>

\* makeMapsReadable: the error of a chmod is ignored.
ChmodMap(i, m) ==
  /\ stage[i] = "chmod" /\ m \in todo[i]
  /\ readable' = IF pins[m] # None THEN readable \cup {m} ELSE readable
  /\ Done(i, m, "set_loops", {})
  /\ UNCHANGED <<pins, value, born, dir, prog, fd, runs, clean>>

\* MUTANT of SetLoops: a value found in a reused map is kept.
SetLoopsOnce(i) ==
  /\ Goto(i, "set_loops", "enable")
  /\ value' = [value EXCEPT ![LoopMap][fd[i][LoopMap]] =
                 IF @ = 0 THEN Loops(i, runs[i]) ELSE @]
  /\ UNCHANGED <<pins, readable, born, dir, prog, todo, fd, runs, clean>>

\* loopCountMap.Put
SetLoops(i) ==
  /\ Goto(i, "set_loops", "enable")
  /\ value' = [value EXCEPT ![LoopMap][fd[i][LoopMap]] = Loops(i, runs[i])]
  /\ UNCHANGED <<pins, readable, born, dir, prog, todo, fd, runs, clean>>

\* enabledMap.Put(1)
Enable(i) ==
  /\ Goto(i, "enable", "attach")
  /\ value' = [value EXCEPT ![EnabledMap][fd[i][EnabledMap]] = 1]
  /\ UNCHANGED <<pins, readable, born, dir, prog, todo, fd, runs, clean>>

\* MUTANT of Attach: the program attached before its maps are loaded.
AttachTooEarly(i) ==
  /\ Goto(i, "load", "running")
  /\ prog' = [prog EXCEPT ![i] = fd[i]]
  /\ UNCHANGED <<pins, readable, value, born, dir, todo, fd, runs, clean>>

\* attachXDP / attachTC; the latter replaces a filter left on the interface.
Attach(i) ==
  /\ Goto(i, "attach", "running")
  /\ prog' = [prog EXCEPT ![i] = fd[i]]
  /\ UNCHANGED <<pins, readable, value, born, dir, todo, fd, runs, clean>>

\* A failed attach calls Detach, with neither link set.  attachTC may fail
\* before or after it has deleted the qdisc, and with it a filter left there.
AttachFails(i) ==
  /\ Goto(i, "attach", "undo")
  /\ \/ UNCHANGED prog
     \/ i \in TCInstances /\ prog' = [prog EXCEPT ![i] = None]
  /\ UNCHANGED <<pins, readable, value, born, dir, todo, fd, runs, clean>>

--------------------------------------------------------------------------------
(* The end of a run.                                                       *)

\* The signal or the duration: cleanup prints GetStats and calls Detach.
Stop(i) ==
  /\ Goto(i, "running", "disable")
  /\ UNCHANGED <<kernel, todo, fd, runs, clean>>

\* MUTANT of Disable: the program left enabled, since its hook goes anyway.
DisableSkipped(i) ==
  /\ Goto(i, "disable", "detach") \/ Goto(i, "undo", "close")
  /\ UNCHANGED <<kernel, todo, fd, runs, clean>>

\* Detach starts with SetEnabled(false), on a map other processes may share,
\* and passes over the hook if this run has not attached.
Disable(i) ==
  /\ Goto(i, "disable", "detach") \/ Goto(i, "undo", "close")
  /\ value' = [value EXCEPT ![EnabledMap][fd[i][EnabledMap]] = 0]
  /\ UNCHANGED <<pins, readable, born, dir, prog, todo, fd, runs, clean>>

\* The link is closed or the filter deleted.  If that fails the error is
\* collected and Detach goes on.
DetachHook(i) ==
  /\ Goto(i, "detach", "close")
  /\ \/ prog' = [prog EXCEPT ![i] = None]
     \/ i \in TCInstances /\ UNCHANGED prog
  /\ UNCHANGED <<pins, readable, value, born, dir, todo, fd, runs, clean>>

\* collection.Close; RemoveAll then lists the directory.
CloseCollection(i) ==
  /\ Goto(i, "close", "unpin")
  /\ fd' = [fd EXCEPT ![i] = NoFds]
  /\ todo' = [todo EXCEPT ![i] = Pinned]
  /\ UNCHANGED <<kernel, runs, clean>>

\* RemoveAll removes what it has listed, one name at a time, ...
UnpinMap(i, m) ==
  /\ stage[i] = "unpin" /\ m \in todo[i]
  /\ pins' = [pins EXCEPT ![m] = None]
  /\ readable' = readable \ {m}
  /\ todo' = [todo EXCEPT ![i] = @ \ {m}]
  /\ UNCHANGED <<value, born, dir, prog, stage, fd, runs, clean>>

\* ... and the directory if nothing was pinned meanwhile.  The process exits.
RemoveDir(i) ==
  /\ todo[i] = {}
  /\ Goto(i, "unpin", "off")
  /\ dir' = (dir /\ Pinned # {})
  /\ clean' = [clean EXCEPT ![i] = TRUE]
  /\ UNCHANGED <<pins, readable, value, born, prog, todo, fd, runs>>

\* The process is killed, or LoadAndAttach returns an error of the collection
\* or of a Put without calling Detach: its files close, an XDP link goes with
\* them, a TC filter and the pins stay.
Die(i) ==
  /\ stage[i] # "off"
  /\ stage' = [stage EXCEPT ![i] = "off"]
  /\ fd' = [fd EXCEPT ![i] = NoFds]
  /\ todo' = [todo EXCEPT ![i] = {}]
  /\ prog' = IF i \in TCInstances THEN prog ELSE [prog EXCEPT ![i] = None]
  /\ UNCHANGED <<pins, readable, value, born, dir, runs, clean>>

--------------------------------------------------------------------------------
\* The program of i counts a packet in the maps it was loaded with.
Packet(i) ==
  /\ prog[i] # None
  /\ value[EnabledMap][prog[i][EnabledMap]] # 0
  /\ \A m \in CounterMaps : value[m][prog[i][m]] < MaxPackets
  /\ value' = [m \in MapNames |-> [o \in Objects |->
                 IF m \in CounterMaps /\ o = prog[i][m] THEN value[m][o] + 1
                                                     ELSE value[m][o]]]
  /\ UNCHANGED <<pins, readable, born, dir, prog, process>>

Lifecycle(i) ==
  \/ Start(i)
  \/ \E m \in MapNames : ReuseMap(i, m) \/ (\E o \in Objects : CreateMap(i, m, o))
                         \/ ChmodMap(i, m) \/ UnpinMap(i, m)
  \/ SetLoops(i) \/ Enable(i) \/ Attach(i) \/ AttachFails(i)
  \/ Stop(i) \/ Disable(i) \/ DetachHook(i) \/ CloseCollection(i) \/ RemoveDir(i)
  \/ Die(i)

Next == \E i \in Instances : Lifecycle(i) \/ Packet(i)

Spec == Init /\ [][Next]_vars

--------------------------------------------------------------------------------
(* Properties.                                                             *)

\* The values the variables range over.
TypeOK ==
  /\ pins \in [MapNames -> Objects \cup {None}]
  /\ readable \subseteq MapNames
  /\ value \in [MapNames -> [Objects -> Nat]]
  /\ born \in [MapNames -> SUBSET Objects]
  /\ dir \in BOOLEAN
  /\ prog \in [Instances -> [MapNames -> Objects] \cup {None}]
  /\ stage \in [Instances -> Stages]
  /\ todo \in [Instances -> SUBSET MapNames]
  /\ fd \in [Instances -> [MapNames -> Objects \cup {None}]]
  /\ runs \in [Instances -> 0 .. MaxRuns]
  /\ clean \in [Instances -> BOOLEAN]

\* While a process runs, the names it pinned lead to the maps its program
\* writes, so that an exporter that opens them reads its counters.
RunningIsPinned ==
  \A i \in Instances : stage[i] = "running" =>
    \A m \in MapNames : pins[m] = fd[i][m] /\ prog[i] = fd[i]

\* While a process runs, its program is enabled and uses its own loop count,
\* whatever a crashed predecessor left in the maps it reused (LoadAndAttach
\* writes both before it attaches).
RunningIsConfigured ==
  \A i \in Instances : stage[i] = "running" =>
    /\ value[EnabledMap][prog[i][EnabledMap]] = 1
    /\ value[LoopMap][prog[i][LoopMap]] = Loops(i, runs[i])

\* A run that ended through Detach leaves no pin, and a filter it failed to
\* delete, of this run or of one that died before, does no work any more.
DetachLeavesNothingAtWork ==
  \A i \in Instances : stage[i] = "off" /\ clean[i] =>
    /\ Pinned = {}
    /\ prog[i] # None => value[EnabledMap][prog[i][EnabledMap]] = 0
================================================================================
