----------------------- MODULE NginxSupervisorProofs -----------------------
(***************************************************************************)
(* Theorems about NginxSupervisor, for every set of configs and templates  *)
(* and every bound: what is on disk was tested, and a config that counts   *)
(* as running is the one nginx has or is about to read.                    *)
(***************************************************************************)
EXTENDS NginxSupervisor, TLAPS

USE TemplatesAssumption, NilAssumption, BoundsAssumption

(***************************************************************************)
(* Type correctness                                                        *)
(***************************************************************************)

LEMMA IdleType == <<0, 0>> \in Items /\ Idle \in Workers /\ Idle.pc = "idle"
  <1>1. <<0, 0>> \in Items
    BY DEF Items
  <1> QED
    BY <1>1 DEF Idle, Workers

LEMMA ReturnType ==
    ASSUME w \in Workers, queue \subseteq Items, NEW err \in BOOLEAN, Return(err)
    PROVE  w' \in Workers /\ w'.pc = "idle" /\ queue' \subseteq Items
  <1>1. w' \in Workers /\ w'.pc = "idle"
    BY IdleType DEF Return
  <1>2. w.item \in Items
    BY DEF Workers
  <1>3. w.item[2] < MaxRetries => <<w.item[1], w.item[2] + 1>> \in Items
    BY <1>2 DEF Items
  <1> QED
    BY <1>1, <1>3 DEF Return

LEMMA GotoType ==
    ASSUME w \in Workers, NEW pc \in {"truncate", "write", "reload", "services"}, Goto(pc)
    PROVE  /\ w' \in Workers /\ w'.pc = pc
           /\ w'.cfg = w.cfg /\ w'.content = w.content
  BY DEF Workers, Goto

\* What render leaves the worker with: nothing, or a content that passed.
LEMMA RenderStep ==
    ASSUME TypeOK, render
    PROVE  /\ w' \in Workers /\ queue' \subseteq Items
           /\ \/ w'.pc = "idle"
              \/ /\ w'.pc = "truncate" /\ w'.cfg = w.cfg
                 /\ w'.content \in Contents /\ Accepts(w'.content)
                 /\ w'.content.cfg = w.cfg
  <1>1. w \in Workers /\ queue \subseteq Items /\ w.cfg \in Configs \cup {Nil}
        /\ template \in Templates
    BY DEF TypeOK, WorkerOK, FilesOK, Workers
  <1>2. CASE \E err \in BOOLEAN : Return(err)
    BY <1>1, <1>2, ReturnType
  <1>3. ASSUME NEW content \in Write(w.cfg), testTemplate(content), UNCHANGED queue,
               w' = [w EXCEPT !.pc = "truncate", !.content = content]
        PROVE  /\ w' \in Workers /\ queue' \subseteq Items
               /\ w'.pc = "truncate" /\ w'.cfg = w.cfg
               /\ w'.content \in Contents /\ Accepts(w'.content)
               /\ w'.content.cfg = w.cfg
    <2>1. /\ content \in Contents /\ Accepts(content)
          /\ content.cfg = w.cfg
      <3>1. content = [cfg |-> w.cfg, template |-> template] \/ content = Cut
        BY <1>3 DEF Write
      <3>2. Accepts(content) /\ content # Cut
        BY <1>3 DEF testTemplate, Accepts, Cut
      <3> QED
        BY <1>1, <3>1, <3>2 DEF Contents
    <2> QED
      BY <2>1, <1>1, <1>3 DEF Workers
  <1> QED
    BY <1>2, <1>3 DEF render

\* The types and ContentTested hold at first and are kept by every step.
LEMMA TypeInductive ==
    /\ Init => TypeOK /\ ContentTested
    /\ TypeOK /\ ContentTested /\ [Next]_vars => TypeOK' /\ ContentTested'
  <1> USE DEF nginxConf
  <1>1. ASSUME Init PROVE TypeOK /\ ContentTested
    <2>1. WorkerOK /\ w.pc = "idle"
      BY <1>1, IdleType DEF Init, WorkerOK
    <2>2. FilesOK
      <3>1. template = shipped /\ file = Image /\ cut \in BOOLEAN
            /\ templateFile = [content |-> shipped, unseen |-> FALSE]
        BY <1>1 DEF Init
      <3> QED
        BY <3>1 DEF FilesOK, Contents, Image
    <2>3. NginxOK
      <3>1. /\ master = "none" /\ loaded = Nil /\ signals = {}
            /\ start = "off" /\ stop = "no"
        BY <1>1 DEF Init
      <3>2. orphans \in BOOLEAN
        BY <1>1 DEF Init
      <3> QED
        BY <3>1, <3>2 DEF NginxOK
    <2>4. BoundsOK
      <3>1. edits = 0 /\ faults = 0 /\ accidents = 0
        BY <1>1 DEF Init
      <3> QED
        BY <3>1 DEF BoundsOK
    <2> QED
      BY <2>1, <2>2, <2>3, <2>4 DEF TypeOK, ContentTested
  <1>2. ASSUME TypeOK, ContentTested, [Next]_vars PROVE TypeOK' /\ ContentTested'
    <2>0. WorkerOK /\ FilesOK /\ NginxOK /\ BoundsOK
      BY <1>2 DEF TypeOK
    <2>w. /\ w \in Workers /\ queue \subseteq Items
          /\ w.cfg \in Configs \cup {Nil}
      BY <2>0 DEF WorkerOK, Workers
    <2>c. ASSUME UNCHANGED w PROVE ContentTested'
      BY <2>c, <1>2 DEF ContentTested
    <2>i. ASSUME w'.pc = "idle" PROVE ContentTested'
      BY <2>i DEF ContentTested
    <2>f. (Fault \/ NoFault) => faults' \in 0..MaxFaults
      BY <2>0 DEF Fault, NoFault, BoundsOK
    <2>a. Accident => accidents' \in 0..MaxAccidents
      BY <2>0 DEF Accident, BoundsOK
    <2> USE DEF TypeOK
    <2> USE DEF bounds, nginx, worker
    <2>1. CASE _sync
      <3>0. /\ w' \in Workers /\ queue' \subseteq Items
            /\ w'.pc \in {"idle", "render"}
        <4>1. w' = Idle \/ \E it \in queue :
                 w' = [pc |-> "render", item |-> it, cfg |-> want, content |-> Nil]
          BY <2>1 DEF _sync
        <4>2. queue' \subseteq queue
          BY <2>1 DEF _sync
        <4> QED
          BY <4>1, <4>2, <2>0, <2>w, IdleType DEF WorkerOK, Workers
      <3>1. WorkerOK'
        BY <2>1, <3>0, <2>0 DEF _sync, WorkerOK
      <3>2. FilesOK'
        BY <2>1, <2>0 DEF _sync, FilesOK
      <3>3. NginxOK'
        BY <2>1, <2>0 DEF _sync, NginxOK
      <3>4. BoundsOK'
        BY <2>1, <2>0 DEF _sync, BoundsOK
      <3>5. ContentTested'
        BY <2>1, <3>0 DEF ContentTested
      <3> QED
        BY <3>1, <3>2, <3>3, <3>4, <3>5
    <2>2. CASE render
      <3>1. WorkerOK'
        BY <2>2, <2>0, <1>2, RenderStep DEF render, WorkerOK
      <3>2. FilesOK'
        BY <2>2, <2>0 DEF render, FilesOK
      <3>3. NginxOK'
        BY <2>2, <2>0 DEF render, NginxOK
      <3>4. BoundsOK'
        BY <2>2, <2>0, <2>f DEF render, BoundsOK
      <3>5. ContentTested'
        BY <2>2, <1>2, RenderStep DEF ContentTested
      <3> QED
        BY <3>1, <3>2, <3>3, <3>4, <3>5
    <2>3. CASE truncate
      <3>0. /\ w' \in Workers /\ queue' \subseteq Items
            /\ w'.pc = "idle" \/ w'.content = w.content
        BY <2>3, <2>w, ReturnType, GotoType DEF truncate
      <3>c. Cut \in Contents
        BY DEF Cut, Contents
      <3>d. file' \in Contents
        BY <2>3, <2>0, <3>c DEF truncate, FilesOK
      <3>1. WorkerOK'
        BY <2>3, <3>0, <2>0, <2>w DEF truncate, WorkerOK
      <3>2. FilesOK'
        BY <2>3, <2>0, <3>d DEF truncate, FilesOK
      <3>3. NginxOK'
        BY <2>3, <2>0 DEF truncate, NginxOK
      <3>4. BoundsOK'
        BY <2>3, <2>0, <2>f DEF truncate, BoundsOK
      <3>5. ContentTested'
        BY <2>3, <3>0, <1>2 DEF truncate, At, ContentTested
      <3> QED
        BY <3>1, <3>2, <3>3, <3>4, <3>5
    <2>4. CASE write
      <3>0. /\ w' \in Workers /\ queue' \subseteq Items
            /\ w'.pc = "idle" \/ w'.content = w.content
        BY <2>4, <2>w, ReturnType, GotoType DEF write
      <3>1. WorkerOK'
        BY <2>4, <3>0, <2>0, <2>w DEF write, WorkerOK
      <3>2. FilesOK'
        BY <2>4, <2>0, <1>2 DEF write, At, FilesOK, ContentTested
      <3>3. NginxOK'
        BY <2>4, <2>0 DEF write, NginxOK
      <3>4. BoundsOK'
        BY <2>4, <2>0, <2>f DEF write, BoundsOK
      <3>5. ContentTested'
        BY <2>4, <3>0, <1>2 DEF write, At, ContentTested
      <3> QED
        BY <3>1, <3>2, <3>3, <3>4, <3>5
    <2>5. CASE reload
      <3>0. /\ w' \in Workers /\ queue' \subseteq Items
            /\ w'.pc = "idle" \/ w'.content = w.content
        BY <2>5, <2>w, ReturnType, GotoType DEF reload
      <3>1. WorkerOK'
        BY <2>5, <3>0, <2>0, <2>w DEF reload, WorkerOK
      <3>2. FilesOK'
        BY <2>5, <2>0 DEF reload, FilesOK
      <3>3. NginxOK'
        BY <2>5, <2>0 DEF reload, NginxOK
      <3>4. BoundsOK'
        BY <2>5, <2>0, <2>f DEF reload, BoundsOK
      <3>5. ContentTested'
        BY <2>5, <3>0, <1>2 DEF reload, At, ContentTested
      <3> QED
        BY <3>1, <3>2, <3>3, <3>4, <3>5
    <2>6. CASE services
      <3>0. /\ w' \in Workers /\ queue' \subseteq Items
            /\ w'.pc = "idle" \/ w'.content = w.content
        BY <2>6, <2>w, ReturnType, GotoType DEF services
      <3>1. WorkerOK'
        BY <2>6, <3>0, <2>0, <2>w DEF services, WorkerOK
      <3>2. FilesOK'
        BY <2>6, <2>0 DEF services, FilesOK
      <3>3. NginxOK'
        BY <2>6, <2>0 DEF services, NginxOK
      <3>4. BoundsOK'
        BY <2>6, <2>0, <2>f DEF services, BoundsOK
      <3>5. ContentTested'
        BY <2>6, <3>0, <1>2 DEF services, At, ContentTested
      <3> QED
        BY <3>1, <3>2, <3>3, <3>4, <3>5
    <2>7. CASE Start
      <3>1. WorkerOK'
        BY <2>7, <2>0 DEF Start, fork, WorkerOK
      <3>2. FilesOK'
        BY <2>7, <2>0 DEF Start, fork, FilesOK
      <3>3. NginxOK'
        BY <2>7, <2>0 DEF Start, fork, NginxOK
      <3>4. BoundsOK'
        BY <2>7, <2>0 DEF Start, fork, BoundsOK
      <3>5. ContentTested'
        BY <2>7, <2>c DEF Start, fork
      <3> QED
        BY <3>1, <3>2, <3>3, <3>4, <3>5
    <2>8. CASE died
      <3>1. WorkerOK'
        BY <2>8, <2>0 DEF died, WorkerOK
      <3>2. FilesOK'
        BY <2>8, <2>0 DEF died, FilesOK
      <3>3. NginxOK'
        BY <2>8, <2>0 DEF died, NginxOK
      <3>4. BoundsOK'
        BY <2>8, <2>0 DEF died, BoundsOK
      <3>5. ContentTested'
        BY <2>8, <2>c DEF died
      <3> QED
        BY <3>1, <3>2, <3>3, <3>4, <3>5
    <2>9. CASE restart
      <3>1. WorkerOK'
        BY <2>9, <2>0 DEF restart, fork, WorkerOK
      <3>2. FilesOK'
        BY <2>9, <2>0 DEF restart, fork, FilesOK
      <3>3. NginxOK'
        BY <2>9, <2>0 DEF restart, fork, NginxOK
      <3>4. BoundsOK'
        BY <2>9, <2>0 DEF restart, fork, BoundsOK
      <3>5. ContentTested'
        BY <2>9, <2>c DEF restart, fork
      <3> QED
        BY <3>1, <3>2, <3>3, <3>4, <3>5
    <2>10. CASE ContainerRestart
      <3>0. /\ w' \in Workers /\ queue' \subseteq Items /\ w'.pc = "idle"
        BY <2>10, <2>0, IdleType DEF ContainerRestart, BoundsOK, Items
      <3>1. WorkerOK'
        BY <2>10, <3>0, <2>0 DEF ContainerRestart, WorkerOK
      <3>2. FilesOK'
        BY <2>10, <2>0 DEF ContainerRestart, FilesOK, Contents, Image
      <3>3. NginxOK'
        BY <2>10, <2>0 DEF ContainerRestart, NginxOK
      <3>4. BoundsOK'
        BY <2>10, <2>0, <2>a DEF ContainerRestart, BoundsOK
      <3>5. ContentTested'
        BY <2>10, <3>0, <2>i
      <3> QED
        BY <3>1, <3>2, <3>3, <3>4, <3>5
    <2>11. CASE open
      <3>1. WorkerOK'
        BY <2>11, <2>0 DEF open, WorkerOK
      <3>2. FilesOK'
        BY <2>11, <2>0 DEF open, FilesOK
      <3>3. NginxOK'
        BY <2>11, <2>0 DEF open, NginxOK, FilesOK
      <3>4. BoundsOK'
        BY <2>11, <2>0 DEF open, BoundsOK
      <3>5. ContentTested'
        BY <2>11, <2>c DEF open
      <3> QED
        BY <3>1, <3>2, <3>3, <3>4, <3>5
    <2>12. CASE up
      <3>1. WorkerOK'
        BY <2>12, <2>0 DEF up, WorkerOK
      <3>2. FilesOK'
        BY <2>12, <2>0 DEF up, FilesOK
      <3>3. NginxOK'
        BY <2>12, <2>0 DEF up, NginxOK
      <3>4. BoundsOK'
        BY <2>12, <2>0 DEF up, BoundsOK
      <3>5. ContentTested'
        BY <2>12, <2>c DEF up
      <3> QED
        BY <3>1, <3>2, <3>3, <3>4, <3>5
    <2>13. CASE handleReload
      <3>1. WorkerOK'
        BY <2>13, <2>0 DEF handleReload, WorkerOK
      <3>2. FilesOK'
        BY <2>13, <2>0 DEF handleReload, FilesOK
      <3>3. NginxOK'
        BY <2>13, <2>0 DEF handleReload, NginxOK, FilesOK
      <3>4. BoundsOK'
        BY <2>13, <2>0 DEF handleReload, BoundsOK
      <3>5. ContentTested'
        BY <2>13, <2>c DEF handleReload
      <3> QED
        BY <3>1, <3>2, <3>3, <3>4, <3>5
    <2>14. CASE handleQuit
      <3>1. WorkerOK'
        BY <2>14, <2>0 DEF handleQuit, WorkerOK
      <3>2. FilesOK'
        BY <2>14, <2>0 DEF handleQuit, FilesOK
      <3>3. NginxOK'
        BY <2>14, <2>0 DEF handleQuit, NginxOK
      <3>4. BoundsOK'
        BY <2>14, <2>0 DEF handleQuit, BoundsOK
      <3>5. ContentTested'
        BY <2>14, <2>c DEF handleQuit
      <3> QED
        BY <3>1, <3>2, <3>3, <3>4, <3>5
    <2>15. CASE Die
      <3>1. WorkerOK'
        BY <2>15, <2>0 DEF Die, WorkerOK
      <3>2. FilesOK'
        BY <2>15, <2>0 DEF Die, FilesOK
      <3>3. NginxOK'
        BY <2>15, <2>0 DEF Die, NginxOK
      <3>4. BoundsOK'
        BY <2>15, <2>0, <2>a DEF Die, BoundsOK
      <3>5. ContentTested'
        BY <2>15, <2>c DEF Die
      <3> QED
        BY <3>1, <3>2, <3>3, <3>4, <3>5
    <2>16. CASE OrphansEnd
      <3>1. WorkerOK'
        BY <2>16, <2>0 DEF OrphansEnd, WorkerOK
      <3>2. FilesOK'
        BY <2>16, <2>0 DEF OrphansEnd, FilesOK
      <3>3. NginxOK'
        BY <2>16, <2>0 DEF OrphansEnd, NginxOK
      <3>4. BoundsOK'
        BY <2>16, <2>0 DEF OrphansEnd, BoundsOK
      <3>5. ContentTested'
        BY <2>16, <2>c DEF OrphansEnd
      <3> QED
        BY <3>1, <3>2, <3>3, <3>4, <3>5
    <2>17. CASE Edit
      <3>0. queue' \subseteq Items
        BY <2>17, <2>0, <2>w DEF Edit, BoundsOK, Items
      <3>1. WorkerOK'
        BY <2>17, <3>0, <2>0 DEF Edit, WorkerOK
      <3>2. FilesOK'
        BY <2>17, <2>0 DEF Edit, FilesOK
      <3>3. NginxOK'
        BY <2>17, <2>0 DEF Edit, NginxOK
      <3>4. BoundsOK'
        BY <2>17, <2>0 DEF Edit, BoundsOK
      <3>5. ContentTested'
        BY <2>17, <2>c DEF Edit
      <3> QED
        BY <3>1, <3>2, <3>3, <3>4, <3>5
    <2>18. CASE ChangeTemplate
      <3>1. WorkerOK'
        BY <2>18, <2>0 DEF ChangeTemplate, WorkerOK
      <3>2. FilesOK'
        BY <2>18, <2>0 DEF ChangeTemplate, FilesOK
      <3>3. NginxOK'
        BY <2>18, <2>0 DEF ChangeTemplate, NginxOK
      <3>4. BoundsOK'
        BY <2>18, <2>0, <2>a DEF ChangeTemplate, BoundsOK
      <3>5. ContentTested'
        BY <2>18, <2>c DEF ChangeTemplate
      <3> QED
        BY <3>1, <3>2, <3>3, <3>4, <3>5
    <2>19. CASE onChange
      <3>1. WorkerOK'
        BY <2>19, <2>0 DEF onChange, WorkerOK
      <3>2. FilesOK'
        BY <2>19, <2>0 DEF onChange, FilesOK
      <3>3. NginxOK'
        BY <2>19, <2>0 DEF onChange, NginxOK
      <3>4. BoundsOK'
        BY <2>19, <2>0 DEF onChange, BoundsOK
      <3>5. ContentTested'
        BY <2>19, <2>c DEF onChange
      <3> QED
        BY <3>1, <3>2, <3>3, <3>4, <3>5
    <2>20. CASE ShutDown
      <3>1. WorkerOK'
        BY <2>20, <2>0 DEF ShutDown, WorkerOK
      <3>2. FilesOK'
        BY <2>20, <2>0 DEF ShutDown, FilesOK
      <3>3. NginxOK'
        BY <2>20, <2>0 DEF ShutDown, NginxOK
      <3>4. BoundsOK'
        BY <2>20, <2>0 DEF ShutDown, BoundsOK
      <3>5. ContentTested'
        BY <2>20, <2>c DEF ShutDown
      <3> QED
        BY <3>1, <3>2, <3>3, <3>4, <3>5
    <2>21. CASE Stop
      <3>1. WorkerOK'
        BY <2>21, <2>0 DEF Stop, WorkerOK
      <3>2. FilesOK'
        BY <2>21, <2>0 DEF Stop, FilesOK
      <3>3. NginxOK'
        BY <2>21, <2>0 DEF Stop, NginxOK
      <3>4. BoundsOK'
        BY <2>21, <2>0 DEF Stop, BoundsOK
      <3>5. ContentTested'
        BY <2>21, <2>c DEF Stop
      <3> QED
        BY <3>1, <3>2, <3>3, <3>4, <3>5
    <2>22. CASE waitForNginxShutdown
      <3>1. WorkerOK'
        BY <2>22, <2>0 DEF waitForNginxShutdown, WorkerOK
      <3>2. FilesOK'
        BY <2>22, <2>0 DEF waitForNginxShutdown, FilesOK
      <3>3. NginxOK'
        BY <2>22, <2>0 DEF waitForNginxShutdown, NginxOK
      <3>4. BoundsOK'
        BY <2>22, <2>0 DEF waitForNginxShutdown, BoundsOK
      <3>5. ContentTested'
        BY <2>22, <2>c DEF waitForNginxShutdown
      <3> QED
        BY <3>1, <3>2, <3>3, <3>4, <3>5
    <2>23. CASE UNCHANGED vars
      <3>1. WorkerOK'
        BY <2>23, <2>0 DEF vars, WorkerOK
      <3>2. FilesOK'
        BY <2>23, <2>0 DEF vars, FilesOK
      <3>3. NginxOK'
        BY <2>23, <2>0 DEF vars, NginxOK
      <3>4. BoundsOK'
        BY <2>23, <2>0 DEF vars, BoundsOK
      <3>5. ContentTested'
        BY <2>23, <2>c DEF vars
      <3> QED
        BY <3>1, <3>2, <3>3, <3>4, <3>5
    <2> QED
      BY <1>2, <2>1, <2>2, <2>3, <2>4, <2>5, <2>6, <2>7, <2>8, <2>9, <2>10, <2>11,
         <2>12, <2>13, <2>14, <2>15, <2>16, <2>17, <2>18, <2>19, <2>20, <2>21, <2>22, <2>23
         DEF Next, Worker, Supervisor, Nginx, Shutdown
  <1> QED
    BY <1>1, <1>2

\* In every behaviour the variables have their types; an item is tried
\* MaxRetries times again and no more (queue.go 212-239).
THEOREM TypeCorrect == Spec => []TypeOK
  <1>1. Spec => [](TypeOK /\ ContentTested)
    BY TypeInductive, PTL DEF Spec
  <1> QED
    BY <1>1, PTL

(***************************************************************************)
(* What is on disk was tested                                              *)
(***************************************************************************)

LEMMA FileInductive ==
    /\ Init => FileIsTested
    /\ TypeOK /\ ContentTested /\ FileIsTested /\ [Next]_vars => FileIsTested'
  <1>1. Init => FileIsTested
    BY DEF Init, FileIsTested, Accepts, Image
  <1>2. ASSUME TypeOK, ContentTested, FileIsTested, [Next]_vars PROVE FileIsTested'
    <2> USE DEF bounds, nginx, worker, nginxConf
    <2>c. ASSUME UNCHANGED nginxConf, w'.pc = "write" \/ w.pc # "write"
          PROVE  FileIsTested'
      BY <2>c, <1>2 DEF FileIsTested, Accepts
    <2>1. CASE ContainerRestart
      BY <2>1 DEF ContainerRestart, FileIsTested, Accepts, Image
    <2>2. CASE _sync
      BY <2>2, <2>c DEF _sync, At
    <2>3. CASE render
      BY <2>3, <2>c DEF render, At
    <2>4. CASE truncate
      <3>1. CASE file' = Cut /\ Goto("write")
        <4>1. w'.pc = "write"
          BY <3>1, <1>2, GotoType DEF TypeOK, WorkerOK
        <4> QED
          BY <3>1, <4>1 DEF FileIsTested
      <3>2. CASE UNCHANGED nginxConf
        BY <2>4, <3>2, <2>c DEF truncate, At
      <3> QED
        BY <2>4, <3>1, <3>2 DEF truncate
    <2>5. CASE write
      <3>1. CASE file' = w.content
        BY <2>5, <3>1, <1>2 DEF write, At, ContentTested, FileIsTested, Accepts
      <3>2. CASE cut' = TRUE /\ UNCHANGED file
        BY <3>2, <1>2 DEF FileIsTested, Accepts
      <3> QED
        BY <2>5, <3>1, <3>2 DEF write
    <2>6. CASE reload
      BY <2>6, <2>c DEF reload, At, Fault, NoFault
    <2>7. CASE services
      BY <2>7, <2>c DEF services, At, Fault, NoFault
    <2>8. CASE Supervisor
      BY <2>8, <2>c DEF Supervisor, Start, died, restart, fork
    <2>9. CASE Nginx \/ Die \/ OrphansEnd
      BY <2>9, <2>c DEF Nginx, open, up, handleReload, handleQuit, Die, OrphansEnd
    <2>10. CASE Edit \/ ChangeTemplate \/ onChange
      BY <2>10, <2>c DEF Edit, ChangeTemplate, onChange
    <2>11. CASE ShutDown \/ Shutdown
      BY <2>11, <2>c DEF ShutDown, Shutdown, Stop, waitForNginxShutdown
    <2>12. CASE UNCHANGED vars
      BY <2>12, <2>c DEF vars
    <2> QED
      BY <1>2, <2>1, <2>2, <2>3, <2>4, <2>5, <2>6, <2>7, <2>8, <2>9, <2>10, <2>11, <2>12
         DEF Next, Worker
  <1> QED
    BY <1>1, <1>2

\* In every behaviour a content that nginx refuses is on disk only while it
\* is being written or when the last writing of it failed (nginx.go 187-201).
THEOREM OnDiskIsTested == Spec => []FileIsTested
  BY TypeInductive, FileInductive, PTL DEF Spec

(***************************************************************************)
(* What counts as running is what nginx has or will read                   *)
(***************************************************************************)

\* nginx has the file, or reads it before it answers again.
Reaches == loaded = file \/ "reload" \in signals \/ master \in {"none", "starting"}

\* A step of nginx, or of the loop that starts it, keeps that up for a file
\* it can start from.
LEMMA NginxReaches ==
    ASSUME Accepts(file), Reaches, Supervisor \/ Nginx \/ Die \/ OrphansEnd
    PROVE  Reaches'
  <1> USE DEF Reaches, nginxConf
  <1>1. CASE Supervisor
    BY <1>1 DEF Supervisor, Start, died, restart, fork, nginx
  <1>2. CASE open
    BY <1>2 DEF open
  <1>3. CASE up
    BY <1>3 DEF up
  <1>4. CASE handleReload
    BY <1>4 DEF handleReload
  <1>5. CASE handleQuit \/ Die
    BY <1>5 DEF handleQuit, Die
  <1>6. CASE OrphansEnd
    BY <1>6 DEF OrphansEnd
  <1> QED
    BY <1>1, <1>2, <1>3, <1>4, <1>5, <1>6 DEF Nginx

LEMMA ReloadInductive ==
    /\ Init => ReloadInv /\ ReloadReaches
    /\ TypeOK /\ ContentTested /\ FileIsTested /\ ReloadInv /\ ReloadReaches
       /\ [Next]_vars => ReloadInv' /\ ReloadReaches'
  <1> USE DEF nginxConf
  <1>1. Init => ReloadInv /\ ReloadReaches
    BY IdleType DEF Init, ReloadInv, ReloadReaches
  <1>2. ASSUME TypeOK, ContentTested, FileIsTested, ReloadInv, ReloadReaches, [Next]_vars
        PROVE  ReloadInv' /\ ReloadReaches'
    <2>0. /\ w \in Workers /\ queue \subseteq Items
          /\ runningConfig \in Configs \cup {Nil}
      BY <1>2 DEF TypeOK, WorkerOK
    <2>1. /\ w.pc = "services" => file = w.content /\ file.cfg = w.cfg /\ Reaches
          /\ runningConfig # Nil /\ file.cfg = runningConfig => Reaches
      BY <1>2 DEF ReloadInv, ReloadReaches, Reaches
    <2>g. ASSUME w'.pc = "services" => file' = w'.content /\ file'.cfg = w'.cfg /\ Reaches',
                 runningConfig' # Nil /\ file'.cfg = runningConfig' => Reaches',
                 w'.pc \in {"render", "truncate", "write", "reload"}
                    => w'.cfg # runningConfig',
                 w'.pc \in {"truncate", "write", "reload"} => w'.content.cfg = w'.cfg,
                 w'.pc = "reload" => file' = w'.content
          PROVE  ReloadInv' /\ ReloadReaches'
      BY <2>g DEF ReloadInv, ReloadReaches, Reaches
    \* A step that leaves the worker, the config and the file alone.
    <2>n. ASSUME UNCHANGED <<w, runningConfig, file>>, Reaches => Reaches'
          PROVE  ReloadInv' /\ ReloadReaches'
      BY <2>n, <2>1, <2>g, <1>2 DEF ReloadInv
    \* A step that leaves nginx alone and the worker idle.
    <2>i. ASSUME w'.pc = "idle", UNCHANGED <<runningConfig, file, loaded, signals, master>>
          PROVE  ReloadInv' /\ ReloadReaches'
      <3>1. Reaches' <=> Reaches
        BY <2>i DEF Reaches
      <3> QED
        BY <2>i, <3>1, <2>1, <2>g
    <2>2. CASE _sync
      <3>0. UNCHANGED <<runningConfig, file, loaded, signals, master>>
        BY <2>2 DEF _sync, nginx
      <3>1. CASE w' = Idle
        BY <3>0, <3>1, <2>i, IdleType
      <3>2. CASE runningConfig # want /\ w'.pc = "render" /\ w'.cfg = want
        <4>1. Reaches' <=> Reaches
          BY <3>0 DEF Reaches
        <4> QED
          BY <3>0, <3>2, <4>1, <2>1, <2>g
      <3> QED
        BY <2>2, <3>1, <3>2 DEF _sync
    <2>3. CASE render
      <3>0. UNCHANGED <<runningConfig, file, loaded, signals, master>> /\ w.pc = "render"
        BY <2>3 DEF render, At, nginx
      <3>1. Reaches' <=> Reaches
        BY <3>0 DEF Reaches
      <3>2. w.cfg # runningConfig
        BY <3>0, <1>2 DEF ReloadInv
      <3> QED
        BY <3>0, <3>1, <3>2, <2>3, <2>1, <2>g, <2>i, <1>2, RenderStep
    <2>4. CASE truncate
      <3>0. UNCHANGED <<runningConfig, loaded, signals, master>> /\ w.pc = "truncate"
        BY <2>4 DEF truncate, At, nginx
      <3>1. CASE file' = Cut /\ Goto("write")
        <4>1. w'.pc = "write" /\ w'.cfg = w.cfg /\ w'.content = w.content
          BY <3>1, <2>0, GotoType
        <4>2. w.cfg # runningConfig /\ w.content.cfg = w.cfg
          BY <3>0, <1>2 DEF ReloadInv
        <4> QED
          BY <3>0, <3>1, <4>1, <4>2, <2>g DEF Cut
      <3>2. CASE Return(TRUE) /\ UNCHANGED file
        BY <3>0, <3>2, <2>0, <2>i, ReturnType
      <3> QED
        BY <2>4, <3>1, <3>2 DEF truncate
    <2>5. CASE write
      <3>0. UNCHANGED <<runningConfig, loaded, signals, master>> /\ w.pc = "write"
        BY <2>5 DEF write, At, nginx
      <3>1. CASE file' = w.content /\ Goto("reload")
        <4>1. w'.pc = "reload" /\ w'.cfg = w.cfg /\ w'.content = w.content
          BY <3>1, <2>0, GotoType
        <4>2. w.cfg # runningConfig /\ w.content.cfg = w.cfg
          BY <3>0, <1>2 DEF ReloadInv
        <4> QED
          BY <3>0, <3>1, <4>1, <4>2, <2>g
      <3>2. CASE Return(TRUE) /\ UNCHANGED file
        BY <3>0, <3>2, <2>0, <2>i, ReturnType
      <3> QED
        BY <2>5, <3>1, <3>2 DEF write
    <2>6. CASE reload
      <3>0. UNCHANGED <<runningConfig, file, loaded, master>> /\ w.pc = "reload"
        BY <2>6 DEF reload, At
      <3>1. CASE signals' = signals \cup {"reload"} /\ Goto("services")
        <4>1. w'.pc = "services" /\ w'.cfg = w.cfg /\ w'.content = w.content
          BY <3>1, <2>0, GotoType
        <4>2. Reaches'
          BY <3>1 DEF Reaches
        <4>3. file = w.content /\ w.content.cfg = w.cfg
          BY <3>0, <1>2 DEF ReloadInv
        <4> QED
          BY <3>0, <4>1, <4>2, <4>3, <2>g
      <3>2. CASE Return(TRUE) /\ UNCHANGED signals
        BY <3>0, <3>2, <2>0, <2>i, ReturnType
      <3> QED
        BY <2>6, <3>1, <3>2 DEF reload
    <2>7. CASE services
      <3>0. UNCHANGED <<file, loaded, signals, master>> /\ w.pc = "services"
        BY <2>7 DEF services, At, nginx
      <3>1. CASE runningConfig' = w.cfg /\ Return(FALSE)
        <4>1. w'.pc = "idle"
          BY <3>1, <2>0, ReturnType
        <4>2. Reaches'
          BY <3>0, <2>1 DEF Reaches
        <4> QED
          BY <4>1, <4>2, <2>g
      <3>2. CASE Return(TRUE) /\ UNCHANGED runningConfig
        BY <3>0, <3>2, <2>0, <2>i, ReturnType
      <3> QED
        BY <2>7, <3>1, <3>2 DEF services
    <2>8. CASE Supervisor \/ Nginx \/ Die \/ OrphansEnd
      <3>0. UNCHANGED <<w, runningConfig, file>>
        BY <2>8 DEF Supervisor, Start, died, restart, fork, Nginx, open, up,
                    handleReload, handleQuit, Die, OrphansEnd, worker
      <3>1. CASE Accepts(file)
        BY <2>8, <3>0, <3>1, <2>n, NginxReaches
      <3>2. CASE ~Accepts(file)
        <4>1. file.cfg = Nil
          BY <3>2, <1>2 DEF FileIsTested, Cut
        <4>2. w.pc # "services"
          BY <3>2, <1>2, <2>1 DEF ContentTested
        <4> QED
          BY <3>0, <4>1, <4>2, <2>g, <1>2 DEF ReloadInv
      <3> QED
        BY <3>1, <3>2
    <2>9. CASE ContainerRestart
      <3>1. w'.pc = "idle" /\ runningConfig' = Nil
        BY <2>9, IdleType DEF ContainerRestart
      <3> QED
        BY <3>1, <2>g
    <2>10. CASE Edit \/ ChangeTemplate \/ onChange \/ ShutDown \/ Shutdown
      <3>1. UNCHANGED <<w, runningConfig, file>> /\ (Reaches => Reaches')
        BY <2>10 DEF Edit, ChangeTemplate, onChange, ShutDown, Shutdown, Stop,
                     waitForNginxShutdown, Reaches, nginx, worker
      <3> QED
        BY <3>1, <2>n
    <2>11. CASE UNCHANGED vars
      <3>1. UNCHANGED <<w, runningConfig, file>> /\ (Reaches => Reaches')
        BY <2>11 DEF vars, nginx, Reaches
      <3> QED
        BY <3>1, <2>n
    <2> QED
      BY <1>2, <2>2, <2>3, <2>4, <2>5, <2>6, <2>7, <2>8, <2>9, <2>10, <2>11
         DEF Next, Worker
  <1> QED
    BY <1>1, <1>2

\* In every behaviour nginx has, or is about to read, the config that counts
\* as running, as long as it is the one on disk (nginx.go 198-206, proxy.go
\* 619).
THEOREM RunningIsReached == Spec => []ReloadReaches
  BY TypeInductive, FileInductive, ReloadInductive, PTL DEF Spec
=============================================================================
