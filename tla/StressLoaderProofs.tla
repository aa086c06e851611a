---------------------------- MODULE StressLoaderProofs ----------------------------
(***************************************************************************)
(* Theorems about StressLoader, alone and with the exporter of            *)
(* StressExporter next to it.  The types hold for any number of            *)
(* processes.  What a run promises holds for one process, started, killed  *)
(* and started again any number of times; with two it does not, as each    *)
(* removes the pins of the other.                                          *)
(*                                                                         *)
(* With one process nobody removes a pin while a run holds the map, so the *)
(* maps it holds are the pinned ones (Holding), the two it configured keep *)
(* what it wrote (Configured), and a filter left behind by any run either  *)
(* is disabled or reads the config_enabled that is pinned and that the     *)
(* next Detach will disable (Disarmed).                                    *)
(***************************************************************************)
EXTENDS StressExporter, TLAPS

\* The stages in which a process holds all its maps.
Complete == {"chmod", "set_loops", "enable", "attach", "running", "undo", "disable",
             "detach", "close"}

Full == [MapNames -> Objects]

\* The maps a process holds.
Held ==
  \A i \in Instances :
    /\ stage[i] = "load" => todo[i] # {} /\ \A m \in MapNames \ todo[i] : fd[i][m] \in Objects
    /\ stage[i] \in Complete => fd[i] \in Full

\* Its run has a number.
Counted == \A i \in Instances : stage[i] # "off" => runs[i] \in 1 .. MaxRuns

TInv == TypeOK /\ Held /\ Counted

--------------------------------------------------------------------------------
LEMMA Names ==
  /\ LoopMap \in MapNames /\ EnabledMap \in MapNames /\ CounterMaps \subseteq MapNames
  /\ LoopMap \notin CounterMaps /\ EnabledMap \notin CounterMaps /\ LoopMap # EnabledMap
  /\ MapNames # {} /\ None \notin Objects
  /\ MaxRuns \in Nat
  /\ \A i \in Instances, n \in 1 .. MaxRuns : Loops(i, n) \in Nat
BY LoaderAssumption DEF MapNames

LEMMA TypeInit == Init => TInv
<1> SUFFICES ASSUME Init PROVE TInv
  OBVIOUS
<1>1. TypeOK
  <2>1. NoFds \in [MapNames -> Objects \cup {None}]
    BY DEF NoFds
  <2>2. value \in [MapNames -> [Objects -> Nat]] /\ born \in [MapNames -> SUBSET Objects]
    BY DEF Init
  <2>3. /\ prog \in [Instances -> [MapNames -> Objects] \cup {None}]
        /\ stage \in [Instances -> Stages] /\ todo \in [Instances -> SUBSET MapNames]
        /\ clean \in [Instances -> BOOLEAN]
    BY DEF Init, Stages
  <2>4. fd \in [Instances -> [MapNames -> Objects \cup {None}]]
    BY <2>1 DEF Init
  <2>5. runs \in [Instances -> 0 .. MaxRuns]
    BY Names DEF Init
  <2> QED
    BY <2>1, <2>2, <2>3, <2>4, <2>5 DEF Init, TypeOK
<1>2. Held
  BY DEF Init, Held, Complete
<1>3. Counted
  BY DEF Init, Counted
<1> QED
  BY <1>1, <1>2, <1>3 DEF TInv

\* A step of one process that leaves its maps and what is to do alone.
LEMMA Moves ==
  ASSUME TInv, NEW i \in Instances, NEW to \in Stages,
         stage' = [stage EXCEPT ![i] = to], UNCHANGED <<todo, fd>>,
         to # "load", to \in Complete => stage[i] \in Complete
  PROVE  stage' \in [Instances -> Stages] /\ Held'
<1>1. stage' \in [Instances -> Stages]
  BY DEF TInv, TypeOK
<1>2. \A j \in Instances : stage'[j] = IF j = i THEN to ELSE stage[j]
  BY DEF TInv, TypeOK
<1>3. Held'
  <2> SUFFICES ASSUME NEW j \in Instances
      PROVE /\ stage'[j] = "load" => todo'[j] # {} /\ \A m \in MapNames \ todo'[j] : fd'[j][m] \in Objects
            /\ stage'[j] \in Complete => fd'[j] \in Full
    BY DEF Held
  <2> QED
    BY <1>2 DEF TInv, Held
<1> QED
  BY <1>1, <1>3

\* What a process holds is within its types.
LEMMA HeldMap ==
  ASSUME TInv, NEW i \in Instances, stage[i] \in Complete, NEW m \in MapNames
  PROVE  fd[i][m] \in Objects
BY DEF TInv, Held, Full

\* One map of those to load is loaded.
LEMMA Loads ==
  ASSUME TInv, NEW i \in Instances, NEW m \in MapNames, NEW o \in Objects,
         stage[i] = "load", m \in todo[i], Done(i, m, "chmod", MapNames),
         fd' = [fd EXCEPT ![i][m] = o]
  PROVE  /\ stage' \in [Instances -> Stages] /\ todo' \in [Instances -> SUBSET MapNames]
         /\ fd' \in [Instances -> [MapNames -> Objects \cup {None}]]
         /\ Held'
<1>1. /\ stage \in [Instances -> Stages] /\ todo \in [Instances -> SUBSET MapNames]
      /\ fd \in [Instances -> [MapNames -> Objects \cup {None}]]
  BY DEF TInv, TypeOK
<1>2. stage' \in [Instances -> Stages] /\ todo' \in [Instances -> SUBSET MapNames]
  BY <1>1, Names DEF Done, Stages
<1>3. fd' \in [Instances -> [MapNames -> Objects \cup {None}]]
  BY <1>1
<1>4. \A j \in Instances \ {i} : stage'[j] = stage[j] /\ todo'[j] = todo[j] /\ fd'[j] = fd[j]
  BY <1>1 DEF Done
<1>5. /\ fd'[i][m] = o /\ \A n \in MapNames \ {m} : fd'[i][n] = fd[i][n]
      /\ fd'[i] \in [MapNames -> Objects \cup {None}]
  BY <1>1
<1>6. \A n \in MapNames \ todo[i] : fd[i][n] \in Objects
  BY DEF TInv, Held
<1>7. CASE todo[i] = {m}
  <2>1. stage'[i] = "chmod"
    BY <1>1, <1>7 DEF Done
  <2>2. \A n \in MapNames : fd'[i][n] \in Objects
    BY <1>5, <1>6, <1>7
  <2>3. fd'[i] \in Full
    BY <1>5, <2>2 DEF Full
  <2>4. Held'
    <3> SUFFICES ASSUME NEW j \in Instances
        PROVE /\ stage'[j] = "load" => todo'[j] # {} /\ \A n \in MapNames \ todo'[j] : fd'[j][n] \in Objects
              /\ stage'[j] \in Complete => fd'[j] \in Full
      BY DEF Held
    <3>1. CASE j = i
      BY <2>1, <2>3, <3>1
    <3>2. CASE j # i
      BY <1>4, <3>2 DEF TInv, Held
    <3> QED
      BY <3>1, <3>2
  <2> QED
    BY <1>2, <1>3, <2>4
<1>8. CASE todo[i] # {m}
  <2>1. stage'[i] = "load" /\ todo'[i] = todo[i] \ {m} /\ todo'[i] # {}
    BY <1>1, <1>8 DEF Done
  <2>2. \A n \in MapNames \ todo'[i] : fd'[i][n] \in Objects
    BY <1>5, <1>6, <2>1
  <2>4. Held'
    <3> SUFFICES ASSUME NEW j \in Instances
        PROVE /\ stage'[j] = "load" => todo'[j] # {} /\ \A n \in MapNames \ todo'[j] : fd'[j][n] \in Objects
              /\ stage'[j] \in Complete => fd'[j] \in Full
      BY DEF Held
    <3>1. CASE j = i
      BY <2>1, <2>2, <3>1 DEF Complete
    <3>2. CASE j # i
      BY <1>4, <3>2 DEF TInv, Held
    <3> QED
      BY <3>1, <3>2
  <2> QED
    BY <1>2, <1>3, <2>4
<1> QED
  BY <1>7, <1>8

\* One map of those to chmod is done.
LEMMA Chmods ==
  ASSUME TInv, NEW i \in Instances, NEW m \in MapNames,
         stage[i] = "chmod", m \in todo[i], Done(i, m, "set_loops", {}), UNCHANGED fd
  PROVE  /\ stage' \in [Instances -> Stages] /\ todo' \in [Instances -> SUBSET MapNames]
         /\ Held'
<1>1. /\ stage \in [Instances -> Stages] /\ todo \in [Instances -> SUBSET MapNames]
  BY DEF TInv, TypeOK
<1>2. stage' \in [Instances -> Stages] /\ todo' \in [Instances -> SUBSET MapNames]
  BY <1>1 DEF Done, Stages
<1>4. \A j \in Instances \ {i} : stage'[j] = stage[j] /\ todo'[j] = todo[j]
  BY <1>1 DEF Done
<1>5. stage'[i] \in {"chmod", "set_loops"}
  BY <1>1 DEF Done
<1>6. fd[i] \in Full
  BY DEF TInv, Held, Complete
<1>7. Held'
  <2> SUFFICES ASSUME NEW j \in Instances
      PROVE /\ stage'[j] = "load" => todo'[j] # {} /\ \A n \in MapNames \ todo'[j] : fd'[j][n] \in Objects
            /\ stage'[j] \in Complete => fd'[j] \in Full
    BY DEF Held
  <2>1. CASE j = i
    BY <1>5, <1>6, <2>1
  <2>2. CASE j # i
    BY <1>4, <2>2 DEF TInv, Held
  <2> QED
    BY <2>1, <2>2
<1> QED
  BY <1>2, <1>7

\* The process forgets its maps.
LEMMA Forgets ==
  ASSUME TInv, NEW i \in Instances, NEW to \in {"off", "unpin"}, NEW left \in SUBSET MapNames,
         stage' = [stage EXCEPT ![i] = to], todo' = [todo EXCEPT ![i] = left],
         fd' = [fd EXCEPT ![i] = NoFds]
  PROVE  /\ stage' \in [Instances -> Stages] /\ todo' \in [Instances -> SUBSET MapNames]
         /\ fd' \in [Instances -> [MapNames -> Objects \cup {None}]]
         /\ Held'
<1>1. /\ stage \in [Instances -> Stages] /\ todo \in [Instances -> SUBSET MapNames]
      /\ fd \in [Instances -> [MapNames -> Objects \cup {None}]]
  BY DEF TInv, TypeOK
<1>2. /\ stage' \in [Instances -> Stages] /\ todo' \in [Instances -> SUBSET MapNames]
  BY <1>1 DEF Stages
<1>3. fd' \in [Instances -> [MapNames -> Objects \cup {None}]]
  <2>1. NoFds \in [MapNames -> Objects \cup {None}]
    BY DEF NoFds
  <2> QED
    BY <1>1, <2>1
<1>4. \A j \in Instances \ {i} : stage'[j] = stage[j] /\ todo'[j] = todo[j] /\ fd'[j] = fd[j]
  BY <1>1
<1>5. stage'[i] \in {"off", "unpin"}
  BY <1>1
<1>6. Held'
  <2> SUFFICES ASSUME NEW j \in Instances
      PROVE /\ stage'[j] = "load" => todo'[j] # {} /\ \A n \in MapNames \ todo'[j] : fd'[j][n] \in Objects
            /\ stage'[j] \in Complete => fd'[j] \in Full
    BY DEF Held
  <2>1. CASE j = i
    BY <1>5, <2>1 DEF Complete
  <2>2. CASE j # i
    BY <1>4, <2>2 DEF TInv, Held
  <2> QED
    BY <2>1, <2>2
<1> QED
  BY <1>2, <1>3, <1>6

\* A run that goes on keeps its number.
LEMMA Counts ==
  ASSUME TInv, stage' \in [Instances -> Stages], UNCHANGED runs,
         \A i \in Instances : stage[i] = "off" => stage'[i] = "off"
  PROVE  Counted'
BY DEF TInv, Counted, TypeOK

LEMMA TypeStep == TInv /\ [Next]_vars => TInv'
<1> SUFFICES ASSUME TInv, [Next]_vars PROVE TInv'
  OBVIOUS
<1>. USE DEF kernel, process
<1>0. TypeOK /\ Held /\ Counted
  BY DEF TInv
<1>1. ASSUME NEW i \in Instances, Start(i) PROVE TInv'
  <2>1. /\ stage' = [stage EXCEPT ![i] = "load"] /\ todo' = [todo EXCEPT ![i] = MapNames]
        /\ runs' = [runs EXCEPT ![i] = @ + 1] /\ runs[i] < MaxRuns /\ UNCHANGED fd
        /\ clean' = [clean EXCEPT ![i] = FALSE] /\ dir' = TRUE
        /\ UNCHANGED <<pins, readable, value, born, prog>>
    BY <1>1 DEF Start, Goto
  <2>2. runs[i] \in Nat /\ runs[i] + 1 \in 1 .. MaxRuns
    BY <1>0, <2>1, Names DEF TypeOK
  <2>3. TypeOK'
    BY <1>0, <2>1, <2>2 DEF TypeOK, Stages
  <2>4. /\ \A j \in Instances : stage'[j] = IF j = i THEN "load" ELSE stage[j]
        /\ \A j \in Instances : todo'[j] = IF j = i THEN MapNames ELSE todo[j]
        /\ \A j \in Instances : runs'[j] = IF j = i THEN runs[i] + 1 ELSE runs[j]
    BY <1>0, <2>1 DEF TypeOK
  <2>5. Held'
    <3> SUFFICES ASSUME NEW j \in Instances
        PROVE /\ stage'[j] = "load" => todo'[j] # {} /\ \A m \in MapNames \ todo'[j] : fd'[j][m] \in Objects
              /\ stage'[j] \in Complete => fd'[j] \in Full
      BY DEF Held
    <3>1. CASE j = i
      BY <2>4, <3>1, Names DEF Complete
    <3>2. CASE j # i
      BY <1>0, <2>1, <2>4, <3>2 DEF Held
    <3> QED
      BY <3>1, <3>2
  <2>6. Counted'
    BY <1>0, <2>2, <2>4 DEF Counted
  <2> QED
    BY <2>3, <2>5, <2>6 DEF TInv
<1>2. ASSUME NEW i \in Instances, NEW m \in MapNames, ReuseMap(i, m) PROVE TInv'
  <2>1. /\ stage[i] = "load" /\ m \in todo[i] /\ Done(i, m, "chmod", MapNames)
        /\ fd' = [fd EXCEPT ![i][m] = pins[m]] /\ pins[m] \in Objects
        /\ UNCHANGED <<pins, readable, value, born, dir, prog, runs, clean>>
    BY <1>0, <1>2 DEF ReuseMap, TypeOK
  <2>2. /\ stage' \in [Instances -> Stages] /\ todo' \in [Instances -> SUBSET MapNames]
        /\ fd' \in [Instances -> [MapNames -> Objects \cup {None}]]
        /\ Held'
    BY <2>1, Loads
  <2>3. TypeOK'
    BY <1>0, <2>1, <2>2 DEF TypeOK
  <2>4. Counted'
    <3>1. \A j \in Instances : stage[j] = "off" => stage'[j] = "off"
      BY <1>0, <2>1 DEF Done, TypeOK
    <3> QED
      BY <2>1, <2>2, <3>1, Counts
  <2> QED
    BY <2>2, <2>3, <2>4 DEF TInv
<1>3. ASSUME NEW i \in Instances, NEW m \in MapNames, NEW o \in Objects, CreateMap(i, m, o)
      PROVE  TInv'
  <2>1. /\ stage[i] = "load" /\ m \in todo[i] /\ Done(i, m, "chmod", MapNames)
        /\ fd' = [fd EXCEPT ![i][m] = o]
        /\ pins' = [pins EXCEPT ![m] = o] /\ born' = [born EXCEPT ![m] = @ \cup {o}]
        /\ UNCHANGED <<readable, value, dir, prog, runs, clean>>
    BY <1>3 DEF CreateMap
  <2>2. /\ stage' \in [Instances -> Stages] /\ todo' \in [Instances -> SUBSET MapNames]
        /\ fd' \in [Instances -> [MapNames -> Objects \cup {None}]]
        /\ Held'
    BY <2>1, Loads
  <2>3. /\ pins' \in [MapNames -> Objects \cup {None}]
        /\ born' \in [MapNames -> SUBSET Objects]
    BY <1>0, <2>1 DEF TypeOK
  <2>4. TypeOK'
    BY <1>0, <2>1, <2>2, <2>3 DEF TypeOK
  <2>5. Counted'
    <3>1. \A j \in Instances : stage[j] = "off" => stage'[j] = "off"
      BY <1>0, <2>1 DEF Done, TypeOK
    <3> QED
      BY <2>1, <2>2, <3>1, Counts
  <2> QED
    BY <2>2, <2>4, <2>5 DEF TInv
<1>4. ASSUME NEW i \in Instances, NEW m \in MapNames, ChmodMap(i, m) PROVE TInv'
  <2>1. /\ stage[i] = "chmod" /\ m \in todo[i] /\ Done(i, m, "set_loops", {})
        /\ readable' \in {readable, readable \cup {m}}
        /\ UNCHANGED <<pins, value, born, dir, prog, fd, runs, clean>>
    BY <1>4 DEF ChmodMap
  <2>2. /\ stage' \in [Instances -> Stages] /\ todo' \in [Instances -> SUBSET MapNames]
        /\ Held'
    BY <2>1, Chmods
  <2>3. readable' \subseteq MapNames
    BY <1>0, <2>1 DEF TypeOK
  <2>4. TypeOK'
    BY <1>0, <2>1, <2>2, <2>3 DEF TypeOK
  <2>5. Counted'
    <3>1. \A j \in Instances : stage[j] = "off" => stage'[j] = "off"
      BY <1>0, <2>1 DEF Done, TypeOK
    <3> QED
      BY <2>1, <2>2, <3>1, Counts
  <2> QED
    BY <2>2, <2>4, <2>5 DEF TInv
<1>5. ASSUME NEW i \in Instances, NEW m \in MapNames, UnpinMap(i, m) PROVE TInv'
  <2>1. /\ stage[i] = "unpin" /\ UNCHANGED <<value, born, dir, prog, stage, fd, runs, clean>>
        /\ pins' = [pins EXCEPT ![m] = None] /\ readable' = readable \ {m}
        /\ todo' = [todo EXCEPT ![i] = @ \ {m}]
    BY <1>5 DEF UnpinMap
  <2>2. TypeOK'
    <3>1. /\ pins' \in [MapNames -> Objects \cup {None}] /\ readable' \subseteq MapNames
          /\ todo' \in [Instances -> SUBSET MapNames]
      BY <1>0, <2>1 DEF TypeOK
    <3> QED
      BY <1>0, <2>1, <3>1 DEF TypeOK
  <2>3. \A j \in Instances : stage[j] # "unpin" => todo'[j] = todo[j]
    BY <1>0, <2>1 DEF TypeOK
  <2>4. Held'
    BY <1>0, <2>1, <2>3 DEF Held, Complete
  <2>5. Counted'
    BY <1>0, <2>1 DEF Counted
  <2> QED
    BY <2>2, <2>4, <2>5 DEF TInv
<1>6. ASSUME NEW i \in Instances, NEW from \in Complete, NEW to \in Complete,
             Goto(i, from, to), UNCHANGED <<pins, readable, born, dir, todo, fd, runs, clean>>,
             value' \in [MapNames -> [Objects -> Nat]],
             prog' \in [Instances -> [MapNames -> Objects] \cup {None}]
      PROVE  TInv'
  <2>1. /\ stage[i] = from /\ stage' = [stage EXCEPT ![i] = to]
        /\ UNCHANGED <<todo, fd, runs>> /\ to \in Stages /\ to # "load"
    BY <1>6 DEF Goto, Complete, Stages
  <2>2. stage' \in [Instances -> Stages] /\ Held'
    BY <2>1, Moves
  <2>3. TypeOK'
    BY <1>0, <1>6, <2>2 DEF TypeOK
  <2>4. Counted'
    <3>1. \A j \in Instances : stage[j] = "off" => stage'[j] = "off"
      BY <1>0, <2>1 DEF TypeOK, Complete
    <3> QED
      BY <2>1, <2>2, <3>1, Counts
  <2> QED
    BY <2>2, <2>3, <2>4 DEF TInv
<1>7. ASSUME NEW i \in Instances, SetLoops(i) PROVE TInv'
  <2>1. stage[i] # "off"
    BY <1>7 DEF SetLoops, Goto
  <2>2. Loops(i, runs[i]) \in Nat
    BY <1>0, <2>1, Names DEF Counted
  <2>3. value' \in [MapNames -> [Objects -> Nat]]
    BY <1>0, <1>7, <2>2 DEF SetLoops, TypeOK
  <2> QED
    BY <1>0, <1>6, <1>7, <2>3 DEF SetLoops, TypeOK, Complete
<1>8. ASSUME NEW i \in Instances, Enable(i) PROVE TInv'
  <2>1. value' \in [MapNames -> [Objects -> Nat]]
    BY <1>0, <1>8 DEF Enable, TypeOK
  <2> QED
    BY <1>0, <1>6, <1>8, <2>1 DEF Enable, TypeOK, Complete
<1>9. ASSUME NEW i \in Instances, Attach(i) PROVE TInv'
  <2>1. fd[i] \in Full
    BY <1>0, <1>9 DEF Attach, Goto, Held, Complete
  <2>2. prog' \in [Instances -> [MapNames -> Objects] \cup {None}]
    BY <1>0, <1>9, <2>1 DEF Attach, TypeOK, Full
  <2> QED
    BY <1>0, <1>6, <1>9, <2>2 DEF Attach, TypeOK, Complete
<1>10. ASSUME NEW i \in Instances, AttachFails(i) \/ DetachHook(i) PROVE TInv'
  <2>1. prog' \in [Instances -> [MapNames -> Objects] \cup {None}]
    BY <1>0, <1>10 DEF AttachFails, DetachHook, TypeOK
  <2> QED
    BY <1>0, <1>6, <1>10, <2>1 DEF AttachFails, DetachHook, TypeOK, Complete
<1>11. ASSUME NEW i \in Instances, Stop(i) PROVE TInv'
  BY <1>0, <1>6, <1>11 DEF Stop, TypeOK, Complete
<1>12. ASSUME NEW i \in Instances, Disable(i) PROVE TInv'
  <2>1. value' \in [MapNames -> [Objects -> Nat]]
    BY <1>0, <1>12 DEF Disable, TypeOK
  <2> QED
    BY <1>0, <1>6, <1>12, <2>1 DEF Disable, TypeOK, Complete
<1>13. ASSUME NEW i \in Instances, NEW to \in {"off", "unpin"}, NEW left \in SUBSET MapNames,
              stage[i] # "off",
              stage' = [stage EXCEPT ![i] = to], todo' = [todo EXCEPT ![i] = left],
              fd' = [fd EXCEPT ![i] = NoFds],
              UNCHANGED <<pins, readable, value, born, dir, runs, clean>>,
              prog' \in [Instances -> [MapNames -> Objects] \cup {None}]
       PROVE  TInv'
  <2>1. /\ stage' \in [Instances -> Stages] /\ todo' \in [Instances -> SUBSET MapNames]
        /\ fd' \in [Instances -> [MapNames -> Objects \cup {None}]]
        /\ Held'
    BY <1>13, Forgets
  <2>2. TypeOK'
    BY <1>0, <1>13, <2>1 DEF TypeOK
  <2>3. Counted'
    <3>1. \A j \in Instances : stage[j] = "off" => stage'[j] = "off"
      BY <1>0, <1>13 DEF TypeOK
    <3> QED
      BY <1>13, <2>1, <3>1, Counts
  <2> QED
    BY <2>1, <2>2, <2>3 DEF TInv
<1>14. ASSUME NEW i \in Instances, CloseCollection(i) PROVE TInv'
  <2>1. Pinned \in SUBSET MapNames
    BY DEF Pinned
  <2>2. /\ stage[i] # "off" /\ stage' = [stage EXCEPT ![i] = "unpin"]
        /\ todo' = [todo EXCEPT ![i] = Pinned] /\ fd' = [fd EXCEPT ![i] = NoFds]
        /\ UNCHANGED <<pins, readable, value, born, dir, prog, runs, clean>>
    BY <1>14 DEF CloseCollection, Goto
  <2>3. prog' \in [Instances -> [MapNames -> Objects] \cup {None}]
    BY <1>0, <2>2 DEF TypeOK
  <2> QED
    BY <1>13, <2>1, <2>2, <2>3
<1>15. ASSUME NEW i \in Instances, Die(i) PROVE TInv'
  <2>1. prog' \in [Instances -> [MapNames -> Objects] \cup {None}]
    BY <1>0, <1>15 DEF Die, TypeOK
  <2>2. /\ stage[i] # "off" /\ stage' = [stage EXCEPT ![i] = "off"]
        /\ todo' = [todo EXCEPT ![i] = {}] /\ fd' = [fd EXCEPT ![i] = NoFds]
        /\ UNCHANGED <<pins, readable, value, born, dir, runs, clean>>
    BY <1>15 DEF Die
  <2>3. {} \in SUBSET MapNames /\ "off" \in {"off", "unpin"}
    OBVIOUS
  <2> QED
    BY <1>13, <2>1, <2>2, <2>3
<1>16. ASSUME NEW i \in Instances, RemoveDir(i) PROVE TInv'
  <2>1. /\ stage' = [stage EXCEPT ![i] = "off"] /\ UNCHANGED <<todo, fd, runs>>
    BY <1>16 DEF RemoveDir, Goto
  <2>2. stage' \in [Instances -> Stages] /\ Held'
    BY <2>1, Moves DEF Stages, Complete
  <2>3. clean' \in [Instances -> BOOLEAN] /\ dir' \in BOOLEAN
    BY <1>0, <1>16 DEF RemoveDir, TypeOK
  <2>4. TypeOK'
    BY <1>0, <1>16, <2>2, <2>3 DEF RemoveDir, TypeOK
  <2>5. Counted'
    <3>1. \A j \in Instances : stage[j] = "off" => stage'[j] = "off"
      BY <1>0, <2>1 DEF TypeOK
    <3> QED
      BY <2>1, <2>2, <3>1, Counts
  <2> QED
    BY <2>2, <2>4, <2>5 DEF TInv
<1>17. ASSUME NEW i \in Instances, Packet(i) PROVE TInv'
  <2>1. \A m \in MapNames, o \in Objects : value[m][o] \in Nat
    BY <1>0 DEF TypeOK
  <2>2. value' \in [MapNames -> [Objects -> Nat]]
    BY <1>17, <2>1 DEF Packet
  <2>3. UNCHANGED <<pins, readable, born, dir, prog, stage, todo, fd, runs, clean>>
    BY <1>17 DEF Packet
  <2> QED
    BY <1>0, <2>2, <2>3 DEF TInv, TypeOK, Held, Counted
<1>18. CASE UNCHANGED vars
  BY <1>0, <1>18 DEF vars, TInv, TypeOK, Held, Counted
<1> QED
  BY <1>1, <1>2, <1>3, <1>4, <1>5, <1>7, <1>8, <1>9, <1>10, <1>11, <1>12, <1>14, <1>15, <1>16,
     <1>17, <1>18 DEF Next, Lifecycle

\* The kernel's maps and the processes keep their ranges, and a process that
\* attaches holds every map it needs, for any number of processes.
THEOREM TypeCorrect == Spec => []TypeOK
<1>1. TInv => TypeOK
  BY DEF TInv
<1> QED
  BY <1>1, TypeInit, TypeStep, PTL DEF Spec

--------------------------------------------------------------------------------
(* One process, any number of runs.                                        *)

OneInstance == \A i, j \in Instances : i = j

\* The maps a run holds are the pinned ones; its Detach removes every pin.
Holding(i) ==
  /\ stage[i] = "load" => \A m \in MapNames \ todo[i] : fd[i][m] = pins[m]
  /\ stage[i] \in Complete => \A m \in MapNames : fd[i][m] = pins[m]
  /\ stage[i] = "unpin" => \A m \in MapNames \ todo[i] : pins[m] = None
  /\ stage[i] # "off" => ~clean[i]
  /\ stage[i] = "off" /\ clean[i] => \A m \in MapNames : pins[m] = None
  /\ stage[i] = "running" => prog[i] = fd[i]

\* Its configuration is what it wrote.
Configured(i) ==
  /\ stage[i] \in {"enable", "attach", "running"} =>
       value[LoopMap][fd[i][LoopMap]] = Loops(i, runs[i])
  /\ stage[i] \in {"attach", "running"} => value[EnabledMap][fd[i][EnabledMap]] = 1

\* A filter that is attached is disabled, or reads the pinned config_enabled,
\* which Detach sets to 0 before it is unpinned.
Disarmed(i) ==
  /\ pins[EnabledMap] # None => pins[EnabledMap] \in born[EnabledMap]
  /\ prog[i] # None =>
       /\ prog[i][EnabledMap] \in born[EnabledMap]
       /\ \/ value[EnabledMap][prog[i][EnabledMap]] = 0
          \/ prog[i][EnabledMap] = pins[EnabledMap]
  /\ stage[i] \in {"detach", "close", "unpin"} /\ pins[EnabledMap] # None =>
       value[EnabledMap][pins[EnabledMap]] = 0

RunInv == \A i \in Instances : Holding(i) /\ Configured(i) /\ Disarmed(i)

LEMMA RunInit == Init => RunInv
<1> SUFFICES ASSUME Init, NEW i \in Instances
             PROVE  Holding(i) /\ Configured(i) /\ Disarmed(i)
  BY DEF RunInv
<1>1. /\ stage[i] = "off" /\ ~clean[i] /\ prog[i] = None
      /\ \A m \in MapNames : pins[m] = None
  BY DEF Init, NoFds
<1> QED
  BY <1>1, Names DEF Holding, Configured, Disarmed, Complete

\* The value of config_enabled and of config_loop_count does not change.
SameConfig ==
  \A o \in Objects : /\ value'[LoopMap][o] = value[LoopMap][o]
                     /\ value'[EnabledMap][o] = value[EnabledMap][o]

LEMMA RunStep ==
  ASSUME OneInstance, TInv, RunInv, [Next]_vars
  PROVE  RunInv'
<1> SUFFICES ASSUME NEW i \in Instances
             PROVE  (Holding(i) /\ Configured(i) /\ Disarmed(i))'
  BY DEF RunInv
<1>. DEFINE Goal == (Holding(i) /\ Configured(i) /\ Disarmed(i))'
<1>1. TypeOK /\ Held /\ Holding(i) /\ Configured(i) /\ Disarmed(i)
  BY DEF TInv, RunInv
<1>2. /\ pins \in [MapNames -> Objects \cup {None}] /\ born \in [MapNames -> SUBSET Objects]
      /\ value \in [MapNames -> [Objects -> Nat]]
      /\ prog \in [Instances -> [MapNames -> Objects] \cup {None}]
      /\ stage \in [Instances -> Stages] /\ todo \in [Instances -> SUBSET MapNames]
      /\ fd \in [Instances -> [MapNames -> Objects \cup {None}]]
      /\ runs \in [Instances -> 0 .. MaxRuns] /\ clean \in [Instances -> BOOLEAN]
  BY <1>1 DEF TypeOK
<1>3. stage[i] \in Complete => fd[i][EnabledMap] \in Objects /\ fd[i][LoopMap] \in Objects
  BY <1>1, Names DEF Held, Full
<1>4. prog[i] # None => prog[i][EnabledMap] \in Objects
  BY <1>2, Names
<1>5. pins[EnabledMap] # None => pins[EnabledMap] \in Objects
  BY <1>2, Names
<1>. USE DEF kernel, process
<1>6. ASSUME Start(i) PROVE Goal
  <2>1. /\ stage'[i] = "load" /\ todo'[i] = MapNames /\ ~clean'[i]
        /\ UNCHANGED <<pins, value, born, prog, fd>>
    BY <1>2, <1>6 DEF Start, Goto
  <2>2. Holding(i)'
    BY <2>1 DEF Holding, Complete
  <2>3. Configured(i)'
    BY <2>1 DEF Configured
  <2>4. Disarmed(i)'
    BY <1>1, <2>1 DEF Disarmed
  <2> QED
    BY <2>2, <2>3, <2>4
<1>7. ASSUME NEW m \in MapNames, ReuseMap(i, m) PROVE Goal
  <2>1. /\ stage[i] = "load" /\ fd'[i][m] = pins[m]
        /\ \A n \in MapNames \ {m} : fd'[i][n] = fd[i][n]
        /\ UNCHANGED <<pins, value, born, prog, clean>>
    BY <1>2, <1>7 DEF ReuseMap
  <2>2. \/ stage'[i] = "load" /\ todo'[i] = todo[i] \ {m}
        \/ stage'[i] = "chmod" /\ todo[i] = {m}
    BY <1>2, <1>7 DEF ReuseMap, Done
  <2>3. \A n \in MapNames \ todo[i] : fd[i][n] = pins[n]
    BY <1>1, <2>1 DEF Holding
  <2>4. Holding(i)'
    BY <1>1, <2>1, <2>2, <2>3 DEF Holding
  <2>5. Configured(i)'
    BY <2>2 DEF Configured
  <2>6. Disarmed(i)'
    BY <1>1, <2>1, <2>2 DEF Disarmed
  <2> QED
    BY <2>4, <2>5, <2>6
<1>8. ASSUME NEW m \in MapNames, NEW o \in Objects, CreateMap(i, m, o) PROVE Goal
  <2>1. /\ stage[i] = "load" /\ fd'[i][m] = o /\ pins[m] = None /\ o \notin born[m]
        /\ \A n \in MapNames \ {m} : fd'[i][n] = fd[i][n]
        /\ m \in todo[i] /\ UNCHANGED <<value, prog, clean>>
    BY <1>2, <1>8 DEF CreateMap
  <2>2. \/ stage'[i] = "load" /\ todo'[i] = todo[i] \ {m}
        \/ stage'[i] = "chmod" /\ todo[i] = {m}
    BY <1>2, <1>8 DEF CreateMap, Done
  <2>3. \A n \in MapNames \ todo[i] : fd[i][n] = pins[n]
    BY <1>1, <2>1 DEF Holding
  <2>4. /\ pins'[m] = o /\ \A n \in MapNames \ {m} : pins'[n] = pins[n]
        /\ born'[m] = born[m] \cup {o} /\ \A n \in MapNames \ {m} : born'[n] = born[n]
    BY <1>2, <1>8 DEF CreateMap
  <2>5. Holding(i)'
    BY <1>1, <2>1, <2>2, <2>3, <2>4 DEF Holding
  <2>6. Configured(i)'
    BY <2>2 DEF Configured
  <2>7. Disarmed(i)'
    <3>1. CASE m = EnabledMap
      <4>1. stage'[i] \notin {"detach", "close", "unpin"}
        BY <2>2
      <4>2. pins'[EnabledMap] \in born'[EnabledMap]
        BY <2>4, <3>1
      <4>3. prog[i] # None => prog[i][EnabledMap] # pins[EnabledMap]
        BY <1>4, <2>1, <3>1, Names
      <4>4. prog[i] # None => /\ prog[i][EnabledMap] \in born[EnabledMap]
                             /\ value[EnabledMap][prog[i][EnabledMap]] = 0
        BY <1>1, <4>3 DEF Disarmed
      <4> QED
        BY <2>1, <2>4, <3>1, <4>1, <4>2, <4>4 DEF Disarmed
    <3>2. CASE m # EnabledMap
      BY <1>1, <2>1, <2>2, <2>4, <3>2, Names DEF Disarmed
    <3> QED
      BY <3>1, <3>2
  <2> QED
    BY <2>5, <2>6, <2>7
<1>9. ASSUME NEW m \in MapNames, ChmodMap(i, m) PROVE Goal
  <2>1. /\ stage[i] = "chmod" /\ UNCHANGED <<pins, value, born, prog, fd, clean>>
        /\ stage'[i] \in {"chmod", "set_loops"}
    BY <1>2, <1>9 DEF ChmodMap, Done
  <2>2. Holding(i)'
    BY <1>1, <2>1 DEF Holding, Complete
  <2>3. Configured(i)'
    BY <2>1 DEF Configured
  <2>4. Disarmed(i)'
    BY <1>1, <2>1 DEF Disarmed
  <2> QED
    BY <2>2, <2>3, <2>4
<1>10. ASSUME SetLoops(i) PROVE Goal
  <2>1. /\ stage[i] = "set_loops" /\ stage'[i] = "enable"
        /\ UNCHANGED <<pins, born, prog, fd, clean, runs>>
        /\ value'[EnabledMap] = value[EnabledMap]
        /\ value'[LoopMap] = [value[LoopMap] EXCEPT ![fd[i][LoopMap]] = Loops(i, runs[i])]
    BY <1>2, <1>10, Names DEF SetLoops, Goto
  <2>2. value'[LoopMap][fd[i][LoopMap]] = Loops(i, runs[i])
    BY <1>2, <1>3, <2>1, Names DEF Complete
  <2>3. Holding(i)'
    BY <1>1, <2>1 DEF Holding, Complete
  <2>4. Configured(i)'
    BY <2>1, <2>2 DEF Configured
  <2>5. Disarmed(i)'
    BY <1>1, <2>1 DEF Disarmed
  <2> QED
    BY <2>3, <2>4, <2>5
<1>11. ASSUME Enable(i) PROVE Goal
  <2>1. /\ stage[i] = "enable" /\ stage'[i] = "attach"
        /\ UNCHANGED <<pins, born, prog, fd, clean, runs>>
        /\ value'[LoopMap] = value[LoopMap]
        /\ value'[EnabledMap] = [value[EnabledMap] EXCEPT ![fd[i][EnabledMap]] = 1]
    BY <1>2, <1>11, Names DEF Enable, Goto
  <2>2. /\ value'[EnabledMap][fd[i][EnabledMap]] = 1
        /\ \A o \in Objects \ {fd[i][EnabledMap]} : value'[EnabledMap][o] = value[EnabledMap][o]
    BY <1>2, <1>3, <2>1, Names DEF Complete
  <2>3. fd[i][EnabledMap] = pins[EnabledMap]
    BY <1>1, <2>1, Names DEF Holding, Complete
  <2>4. Holding(i)'
    BY <1>1, <2>1 DEF Holding, Complete
  <2>5. Configured(i)'
    BY <1>1, <2>1, <2>2 DEF Configured
  <2>6. Disarmed(i)'
    BY <1>1, <1>4, <2>1, <2>2, <2>3 DEF Disarmed
  <2> QED
    BY <2>4, <2>5, <2>6
<1>12. ASSUME Attach(i) PROVE Goal
  <2>1. /\ stage[i] = "attach" /\ stage'[i] = "running" /\ prog'[i] = fd[i]
        /\ UNCHANGED <<pins, value, born, fd, clean, runs>>
    BY <1>2, <1>12 DEF Attach, Goto
  <2>2. fd[i][EnabledMap] = pins[EnabledMap] /\ fd[i][EnabledMap] \in Objects
    BY <1>1, <1>3, <2>1, Names DEF Holding, Complete
  <2>3. Holding(i)'
    BY <1>1, <2>1 DEF Holding, Complete
  <2>4. Configured(i)'
    BY <1>1, <2>1 DEF Configured
  <2>5. Disarmed(i)'
    BY <1>1, <2>1, <2>2, Names DEF Disarmed
  <2> QED
    BY <2>3, <2>4, <2>5
<1>13. ASSUME AttachFails(i) PROVE Goal
  <2>1. /\ stage[i] = "attach" /\ stage'[i] = "undo" /\ prog'[i] \in {prog[i], None}
        /\ UNCHANGED <<pins, value, born, fd, clean, runs>>
    BY <1>2, <1>13 DEF AttachFails, Goto
  <2>2. Holding(i)'
    BY <1>1, <2>1 DEF Holding, Complete
  <2>3. Configured(i)'
    BY <2>1 DEF Configured
  <2>4. Disarmed(i)'
    BY <1>1, <2>1 DEF Disarmed
  <2> QED
    BY <2>2, <2>3, <2>4
<1>14. ASSUME Stop(i) PROVE Goal
  <2>1. /\ stage[i] = "running" /\ stage'[i] = "disable"
        /\ UNCHANGED <<pins, value, born, prog, fd, clean, runs>>
    BY <1>2, <1>14 DEF Stop, Goto
  <2>2. Holding(i)'
    BY <1>1, <2>1 DEF Holding, Complete
  <2>3. Configured(i)'
    BY <2>1 DEF Configured
  <2>4. Disarmed(i)'
    BY <1>1, <2>1 DEF Disarmed
  <2> QED
    BY <2>2, <2>3, <2>4
<1>15. ASSUME Disable(i) PROVE Goal
  <2>1. /\ stage[i] \in {"disable", "undo"} /\ stage'[i] \in {"detach", "close"}
        /\ UNCHANGED <<pins, born, prog, fd, clean, runs>>
        /\ value'[EnabledMap] = [value[EnabledMap] EXCEPT ![fd[i][EnabledMap]] = 0]
    BY <1>2, <1>15, Names DEF Disable, Goto
  <2>2. /\ value'[EnabledMap][fd[i][EnabledMap]] = 0
        /\ \A o \in Objects \ {fd[i][EnabledMap]} : value'[EnabledMap][o] = value[EnabledMap][o]
    BY <1>2, <1>3, <2>1, Names DEF Complete
  <2>3. fd[i][EnabledMap] = pins[EnabledMap]
    BY <1>1, <2>1, Names DEF Holding, Complete
  <2>4. Holding(i)'
    BY <1>1, <2>1 DEF Holding, Complete
  <2>5. Configured(i)'
    BY <2>1 DEF Configured
  <2>6. Disarmed(i)'
    BY <1>1, <1>4, <2>1, <2>2, <2>3 DEF Disarmed
  <2> QED
    BY <2>4, <2>5, <2>6
<1>16. ASSUME DetachHook(i) PROVE Goal
  <2>1. /\ stage[i] = "detach" /\ stage'[i] = "close" /\ prog'[i] \in {prog[i], None}
        /\ UNCHANGED <<pins, value, born, fd, clean, runs>>
    BY <1>2, <1>16 DEF DetachHook, Goto
  <2>2. Holding(i)'
    BY <1>1, <2>1 DEF Holding, Complete
  <2>3. Configured(i)'
    BY <2>1 DEF Configured
  <2>4. Disarmed(i)'
    BY <1>1, <2>1 DEF Disarmed
  <2> QED
    BY <2>2, <2>3, <2>4
<1>17. ASSUME CloseCollection(i) PROVE Goal
  <2>1. /\ stage[i] = "close" /\ stage'[i] = "unpin" /\ todo'[i] = Pinned
        /\ UNCHANGED <<pins, value, born, prog, clean, runs>>
    BY <1>2, <1>17 DEF CloseCollection, Goto
  <2>2. Holding(i)'
    BY <1>1, <2>1 DEF Holding, Complete, Pinned
  <2>3. Configured(i)'
    BY <2>1 DEF Configured
  <2>4. Disarmed(i)'
    BY <1>1, <2>1 DEF Disarmed
  <2> QED
    BY <2>2, <2>3, <2>4
<1>18. ASSUME NEW m \in MapNames, UnpinMap(i, m) PROVE Goal
  <2>1. /\ stage[i] = "unpin" /\ todo'[i] = todo[i] \ {m} /\ pins'[m] = None
        /\ \A n \in MapNames \ {m} : pins'[n] = pins[n]
        /\ UNCHANGED <<stage, value, born, prog, clean, runs>>
    BY <1>2, <1>18 DEF UnpinMap
  <2>2. Holding(i)'
    BY <1>1, <2>1 DEF Holding, Complete
  <2>3. Configured(i)'
    BY <2>1 DEF Configured
  <2>4. Disarmed(i)'
    <3>1. CASE m = EnabledMap
      BY <1>1, <1>4, <2>1, <3>1, Names DEF Disarmed
    <3>2. CASE m # EnabledMap
      BY <1>1, <2>1, <3>2, Names DEF Disarmed
    <3> QED
      BY <3>1, <3>2
  <2> QED
    BY <2>2, <2>3, <2>4
<1>19. ASSUME RemoveDir(i) PROVE Goal
  <2>1. /\ stage[i] = "unpin" /\ todo[i] = {} /\ stage'[i] = "off"
        /\ UNCHANGED <<pins, value, born, prog>>
    BY <1>2, <1>19 DEF RemoveDir, Goto
  <2>2. Holding(i)'
    BY <1>1, <2>1 DEF Holding, Complete
  <2>3. Configured(i)'
    BY <2>1 DEF Configured
  <2>4. Disarmed(i)'
    BY <1>1, <2>1 DEF Disarmed
  <2> QED
    BY <2>2, <2>3, <2>4
<1>20. ASSUME Die(i) PROVE Goal
  <2>1. /\ stage[i] # "off" /\ stage'[i] = "off" /\ prog'[i] \in {prog[i], None}
        /\ UNCHANGED <<pins, value, born, clean>>
    BY <1>2, <1>20 DEF Die
  <2>2. Holding(i)'
    BY <1>1, <2>1 DEF Holding, Complete
  <2>3. Configured(i)'
    BY <2>1 DEF Configured
  <2>4. Disarmed(i)'
    BY <1>1, <2>1 DEF Disarmed
  <2> QED
    BY <2>2, <2>3, <2>4
<1>21. ASSUME Packet(i) PROVE Goal
  <2>1. UNCHANGED <<stage, todo, pins, born, prog, fd, clean, runs>>
    BY <1>21 DEF Packet
  <2>2. SameConfig
    BY <1>21, Names DEF Packet, SameConfig
  <2>3. Holding(i)'
    BY <1>1, <2>1 DEF Holding, Complete
  <2>4. Configured(i)'
    BY <1>1, <1>3, <2>1, <2>2 DEF Configured, SameConfig, Complete
  <2>5. Disarmed(i)'
    BY <1>1, <1>4, <1>5, <2>1, <2>2 DEF Disarmed, SameConfig
  <2> QED
    BY <2>3, <2>4, <2>5
<1>22. CASE UNCHANGED vars
  BY <1>1, <1>22 DEF vars, Holding, Configured, Disarmed
<1>23. ASSUME NEW j \in Instances, Lifecycle(j) \/ Packet(j)
       PROVE  Lifecycle(i) \/ Packet(i)
  BY <1>23 DEF OneInstance
<1> QED
  BY <1>6, <1>7, <1>8, <1>9, <1>10, <1>11, <1>12, <1>13, <1>14, <1>15, <1>16, <1>17, <1>18, <1>19,
     <1>20, <1>21, <1>22, <1>23 DEF Next, Lifecycle

LEMMA RunHolds == ASSUME OneInstance PROVE Spec => [](TInv /\ RunInv)
BY TypeInit, TypeStep, RunInit, RunStep, PTL DEF Spec

\* While the process runs, the names it pinned lead to the maps its program
\* counts in, whatever its earlier runs left behind.
THEOREM PinnedWhileRunning == ASSUME OneInstance PROVE Spec => []RunningIsPinned
<1>1. TInv /\ RunInv => RunningIsPinned
  BY DEF RunInv, Holding, RunningIsPinned, Complete
<1> QED
  BY <1>1, RunHolds, PTL

\* Its program is enabled and performs its own loops, not those of a run before.
THEOREM ConfiguredWhileRunning == ASSUME OneInstance PROVE Spec => []RunningIsConfigured
<1>1. TInv /\ RunInv => RunningIsConfigured
  BY DEF RunInv, Holding, Configured, RunningIsConfigured
<1> QED
  BY <1>1, RunHolds, PTL

\* After Detach nothing is pinned, and no filter it could not delete works, not
\* even one of a run that died.
THEOREM NothingAtWork == ASSUME OneInstance PROVE Spec => []DetachLeavesNothingAtWork
<1>1. TInv /\ RunInv => DetachLeavesNothingAtWork
  <2> SUFFICES ASSUME TInv, RunInv, NEW i \in Instances, stage[i] = "off", clean[i]
               PROVE  /\ Pinned = {}
                      /\ prog[i] # None => value[EnabledMap][prog[i][EnabledMap]] = 0
    BY DEF DetachLeavesNothingAtWork
  <2>1. \A m \in MapNames : pins[m] = None
    BY DEF RunInv, Holding
  <2>2. prog[i] # None => prog[i][EnabledMap] \in Objects
    BY Names DEF TInv, TypeOK
  <2>3. pins[EnabledMap] = None
    BY <2>1, Names
  <2> QED
    BY <2>1, <2>2, <2>3, Names DEF RunInv, Disarmed, Pinned
<1> QED
  BY <1>1, RunHolds, PTL

--------------------------------------------------------------------------------
(***************************************************************************)
(* The processes and the exporter together.  The exporter's environment,   *)
(* as Exporter has it, may do anything to the pins and only lets the       *)
(* statistics grow within a uint64: each step of a process has to be such  *)
(* a step.  Nothing is asked of the processes, of which there may be any   *)
(* number.                                                                 *)
(***************************************************************************)

\* What an exported map holds fits a uint64.
Fits == \A m \in Exported, o \in Objects : value[m][o] <= MaxUInt64

LEMMA ExportedMaps ==
  /\ Exported \subseteq MapNames /\ CounterMaps \subseteq Exported
  /\ E!OpenMaps = Exported /\ E!StatMaps = CounterMaps
  /\ EnabledMap \notin Exported
BY Names, ServiceAssumption DEF Exported, E!OpenMaps, E!StatMaps

LEMMA Limits ==
  /\ MaxUInt64 \in Nat /\ MaxPackets \in Nat /\ MaxPackets <= MaxUInt64
  /\ \A i \in Instances, n \in 1 .. MaxRuns : Loops(i, n) \in Nat /\ Loops(i, n) <= MaxUInt64
BY LoaderAssumption, ServiceAssumption

LEMMA FitsInit == Init => Fits
BY Limits, ExportedMaps DEF Init, Fits

\* The content of the statistics maps grows, and that of no map leaves the
\* range of a uint64.
LEMMA Grows ==
  ASSUME TInv, Fits, [Next]_vars
  PROVE  /\ Fits'
         /\ \A m \in CounterMaps, o \in Objects : value'[m][o] >= value[m][o]
<1>t. TypeOK /\ value \in [MapNames -> [Objects -> Nat]]
  BY DEF TInv, TypeOK
<1>1. ASSUME UNCHANGED value
      PROVE  Fits' /\ \A m \in CounterMaps, o \in Objects : value'[m][o] >= value[m][o]
  BY <1>t, <1>1, ExportedMaps DEF Fits
<1>2. ASSUME NEW i \in Instances, SetLoops(i)
      PROVE  Fits' /\ \A m \in CounterMaps, o \in Objects : value'[m][o] >= value[m][o]
  <2> DEFINE l == Loops(i, runs[i])
             a == fd[i][LoopMap]
  <2>1. value' = [value EXCEPT ![LoopMap][a] = l] /\ stage[i] = "set_loops"
    BY <1>2 DEF SetLoops, Goto
  <2>2. l \in Nat /\ l <= MaxUInt64
    BY <2>1, Limits DEF TInv, Counted
  <2> HIDE DEF l, a
  <2>3. \A m \in MapNames, o \in Objects :
          value'[m][o] = value[m][o] \/ (m = LoopMap /\ value'[m][o] = l)
    BY <1>t, <2>1, Names
  <2> QED
    BY <1>t, <2>2, <2>3, Names, ExportedMaps DEF Fits
<1>3. ASSUME NEW i \in Instances, Enable(i) \/ Disable(i)
      PROVE  Fits' /\ \A m \in CounterMaps, o \in Objects : value'[m][o] >= value[m][o]
  <2> DEFINE a == fd[i][EnabledMap]
  <2>1. \E x \in {0, 1} : value' = [value EXCEPT ![EnabledMap][a] = x]
    BY <1>3 DEF Enable, Disable
  <2> HIDE DEF a
  <2>2. \A m \in MapNames \ {EnabledMap}, o \in Objects : value'[m][o] = value[m][o]
    BY <1>t, <2>1, Names
  <2> QED
    BY <1>t, <2>2, Names, ExportedMaps DEF Fits
<1>4. ASSUME NEW i \in Instances, Packet(i)
      PROVE  Fits' /\ \A m \in CounterMaps, o \in Objects : value'[m][o] >= value[m][o]
  <2>1. ASSUME NEW m \in MapNames, NEW o \in Objects
        PROVE  \/ value'[m][o] = value[m][o]
               \/ value'[m][o] = value[m][o] + 1 /\ value[m][o] < MaxPackets
    BY <1>4 DEF Packet
  <2> QED
    BY <1>t, <2>1, Limits, ExportedMaps DEF Fits
<1>5. \/ \E i \in Instances : SetLoops(i) \/ Enable(i) \/ Disable(i) \/ Packet(i)
      \/ UNCHANGED value
  BY DEF Next, Lifecycle, Start, ReuseMap, CreateMap, ChmodMap, UnpinMap, Attach, AttachFails,
         Stop, DetachHook, CloseCollection, RemoveDir, Die, vars, kernel
<1> QED
  BY <1>1, <1>2, <1>3, <1>4, <1>5

\* A step of the processes is one of the exporter's environment.
LEMMA Serves ==
  ASSUME TInv, Fits, Next, UNCHANGED exporter
  PROVE  E!Environment
<1>t. TInv' /\ Fits' /\ \A m \in CounterMaps, o \in Objects : value'[m][o] >= value[m][o]
  BY TypeStep, Grows
<1>1. [m \in Exported |-> pins'[m]] \in [Exported -> Objects \cup {None}]
  BY <1>t, ExportedMaps DEF TInv, TypeOK
<1>2. readable' \cap Exported \in SUBSET Exported
  OBVIOUS
<1>3. [m \in Exported |-> value'[m]] \in [Exported -> [Objects -> 0 .. MaxUInt64]]
  <2>1. \A m \in Exported : value'[m] \in [Objects -> Nat]
    BY <1>t, ExportedMaps DEF TInv, TypeOK
  <2>2. \A m \in Exported : value'[m] \in [Objects -> 0 .. MaxUInt64]
    BY <1>t, <2>1, Limits DEF Fits
  <2> QED
    BY <2>2
<1>4. \A m \in CounterMaps, o \in Objects :
        [n \in Exported |-> value'[n]][m][o] >= [n \in Exported |-> value[n]][m][o]
  BY <1>t, ExportedMaps
<1>5. UNCHANGED <<E!collector, E!metrics, main, ready>>
  BY DEF exporter, E!collector, E!metrics
<1> QED
  BY <1>1, <1>2, <1>3, <1>4, <1>5, ExportedMaps DEF E!Environment

LEMMA BothHold == BothSpec => [](TInv /\ Fits)
<1>1. BothInit => TInv /\ Fits
  BY TypeInit, FitsInit DEF BothInit
<1>2. TInv /\ Fits /\ [BothNext]_<<vars, exporter>> => (TInv /\ Fits)'
  <2>1. [BothNext]_<<vars, exporter>> => [Next]_vars
    BY DEF BothNext
  <2> QED
    BY <2>1, TypeStep, Grows
<1> QED
  BY <1>1, <1>2, PTL DEF BothSpec

\* Any number of processes, started, killed and started again over the maps the
\* others left, are an environment as Exporter assumes it: what is proved of the
\* exporter, that its totals grow and its rates do not wrap, holds next to them.
THEOREM Served == BothSpec => ExporterIsServed
<1>1. BothInit => E!Init
  BY DEF BothInit
<1>2. TInv /\ Fits /\ [BothNext]_<<vars, exporter>> => [E!Next]_(E!vars)
  <2> SUFFICES ASSUME TInv, Fits, [BothNext]_<<vars, exporter>> PROVE [E!Next]_(E!vars)
    OBVIOUS
  <2>1. CASE Next /\ UNCHANGED exporter
    BY <2>1, Serves DEF E!Next
  <2>2. CASE UNCHANGED vars /\ E!Exporting
    BY <2>2 DEF E!Next
  <2>3. CASE UNCHANGED <<vars, exporter>>
    BY <2>3 DEF vars, kernel, exporter, E!vars, E!environment, E!collector, E!metrics
  <2> QED
    BY <2>1, <2>2, <2>3 DEF BothNext
<1> QED
  BY <1>1, <1>2, BothHold, PTL DEF BothSpec, ExporterIsServed, E!Spec

================================================================================
