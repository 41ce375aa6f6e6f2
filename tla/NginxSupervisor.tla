-------------------------- MODULE NginxSupervisor --------------------------
(***************************************************************************)
(* The nginx process of the canary-release proxy and the three goroutines  *)
(* that deal with it: the queue's worker, which renders, tests, writes and *)
(* reloads a config (OnUpdate); the loop that starts nginx again whenever  *)
(* it dies (Start); and the shutdown (Stop).  A fourth one replaces the    *)
(* template when its file changes.                                         *)
(*                                                                         *)
(* A config is a member of Configs here: UpstreamConfig says what is in    *)
(* it, CanaryProxy what the calls around OnUpdate do to the services.      *)
(***************************************************************************)
EXTENDS Naturals

CONSTANTS
    Configs,       \* the configs the specs of the CanaryRelease ask for
    Templates,     \* the contents of the template file that parse
    shipped,       \* the one in the image
    broken,        \* one that renders to something nginx refuses
    Nil,           \* no config, no content
    MaxRetries,    \* retries of a failed item
    MaxEdits,      \* bound: edits of the spec
    MaxFaults,     \* bound: failing commands and service updates
    MaxAccidents   \* bound: deaths of the master, restarts of the container
                   \* and changes of the template file, together

ASSUME TemplatesAssumption ==
    shipped \in Templates /\ broken \in Templates /\ shipped # broken
ASSUME NilAssumption == Nil \notin Configs
ASSUME BoundsAssumption ==
    /\ MaxRetries \in Nat /\ MaxEdits \in Nat
    /\ MaxFaults \in Nat /\ MaxAccidents \in Nat

\* What nginx.conf may hold: the file of the image (config Nil), a rendered
\* config, or Cut, a file that is truncated and not yet written.
Contents == [cfg : Configs \cup {Nil}, template : Templates]
Image == [cfg |-> Nil, template |-> shipped]
Cut == [cfg |-> Nil, template |-> broken]

\* What nginx -t says of a content: UpstreamConfig has the configs it
\* refuses, here only the template may be at fault.
Accepts(content) == content.template # broken

VARIABLES
    want,           \* the config the stored CanaryRelease asks for
    queue,          \* items in the queue: <<edit, times it was queued again>>
    w,              \* the worker: where it is in _sync, its item, its content
    runningConfig,  \* Proxy.runningConfig
    template,       \* NginxController.template
    templateFile,   \* the template file, and whether a change is unseen
    file,           \* nginx.conf
    cut,            \* history: the last time it was written, the writing failed
    master,         \* the master process: "none", "starting", "opened", "up"
    loaded,         \* the content it has read, or Nil
    signals,        \* the signals it has not handled yet
    orphans,        \* workers of a killed master still hold the ports
    start,          \* the loop of Start: "off", "waits" for nginx to die, "dials"
    stop,           \* "no", "shutdown", "quit", "exited"
    edits, faults, accidents

nginxConf == <<file, cut>>
nginx == <<master, loaded, signals, orphans>>
worker == <<queue, w, runningConfig>>
bounds == <<edits, faults, accidents>>
vars == <<want, queue, w, runningConfig, template, templateFile, nginxConf, master,
          loaded, signals, orphans, start, stop, bounds>>

Idle == [pc |-> "idle", item |-> <<0, 0>>, cfg |-> Nil, content |-> Nil]

Items == (0..MaxEdits) \X (0..MaxRetries)
Workers ==
    [pc : {"idle", "render", "truncate", "write", "reload", "services"},
     item : Items, cfg : Configs \cup {Nil}, content : Contents \cup {Nil}]

WorkerOK ==
    /\ want \in Configs
    /\ queue \subseteq Items
    /\ w \in Workers
    /\ runningConfig \in Configs \cup {Nil}

FilesOK ==
    /\ template \in Templates
    /\ templateFile \in [content : Templates \cup {Nil}, unseen : BOOLEAN]
    /\ file \in Contents /\ cut \in BOOLEAN

NginxOK ==
    /\ master \in {"none", "starting", "opened", "up"}
    /\ loaded \in Contents \cup {Nil}
    /\ signals \subseteq {"reload", "quit"}
    /\ orphans \in BOOLEAN
    /\ start \in {"off", "waits", "dials"}
    /\ stop \in {"no", "shutdown", "quit", "exited"}

BoundsOK ==
    edits \in 0..MaxEdits /\ faults \in 0..MaxFaults /\ accidents \in 0..MaxAccidents

TypeOK == WorkerOK /\ FilesOK /\ NginxOK /\ BoundsOK

\* A new container: nginx.conf and the template are those of the image, nginx
\* is not started, the informer delivers the CanaryRelease.
Init ==
    /\ want \in Configs
    /\ queue = {<<0, 0>>} /\ w = Idle
    /\ runningConfig = Nil
    /\ template = shipped
    /\ templateFile = [content |-> shipped, unseen |-> FALSE]
    /\ file = Image /\ cut = FALSE
    /\ master = "none" /\ loaded = Nil /\ signals = {} /\ orphans = FALSE
    /\ start = "off" /\ stop = "no"
    /\ edits = 0 /\ faults = 0 /\ accidents = 0

Alive == stop # "exited"

(***************************************************************************)
(* The worker                                                              *)
(***************************************************************************)

\* A command, a file operation or an API call fails, within the bound.
Fault == faults < MaxFaults /\ faults' = faults + 1
NoFault == UNCHANGED faults
Accident == accidents < MaxAccidents /\ accidents' = accidents + 1

At(pc) == w.pc = pc /\ Alive
Goto(pc) == w' = [w EXCEPT !.pc = pc]

ReturnOneRetryMore(err) ==
    /\ w' = Idle
    /\ queue' = IF err /\ w.item[2] <= MaxRetries /\ stop = "no"
                THEN queue \cup {<<w.item[1], w.item[2] + 1>>} ELSE queue

\* The end of syncCanaryRelease: a failed item is queued again up to
\* MaxRetries times, unless the queue is shut down; then it is dropped.
Return(err) ==
    /\ w' = Idle
    /\ queue' = IF err /\ w.item[2] < MaxRetries /\ stop = "no"
                THEN queue \cup {<<w.item[1], w.item[2] + 1>>} ELSE queue

\* Take an item: an equal config ends the sync before OnUpdate.
_sync ==
    /\ At("idle")
    /\ \E it \in queue :
         /\ queue' = queue \ {it}
         /\ w' = IF runningConfig = want THEN Idle
                 ELSE [pc |-> "render", item |-> it, cfg |-> want, content |-> Nil]
    /\ UNCHANGED <<want, runningConfig, template, templateFile, nginxConf, nginx,
                   start, stop, bounds>>

\* Template.Write: the rendered config.  When the script that squeezes empty
\* lines fails it is what the script left of the buffer: all of it, or a tail.
Write(cfg) == {[cfg |-> cfg, template |-> template], Cut}

testTemplateTrusts(content) == TRUE
\* nginx -t on a temporary file.
testTemplate(content) == Accepts(content)

\* OnUpdate renders and tests; nothing is written when that fails.
render ==
    /\ At("render")
    /\ \/ \E content \in Write(w.cfg) :
            /\ IF content = Cut THEN Fault ELSE NoFault
            /\ IF testTemplate(content)
               THEN w' = [w EXCEPT !.pc = "truncate", !.content = content]
                    /\ UNCHANGED queue
               ELSE Return(TRUE)
       \/ Fault /\ Return(TRUE)
    /\ UNCHANGED <<want, runningConfig, template, templateFile, nginxConf, nginx,
                   start, stop, edits, accidents>>

\* ioutil.WriteFile opens nginx.conf with O_TRUNC ...
truncate ==
    /\ At("truncate")
    /\ \/ file' = Cut /\ Goto("write") /\ UNCHANGED <<cut, queue>> /\ NoFault
       \/ Fault /\ Return(TRUE) /\ UNCHANGED nginxConf
    /\ UNCHANGED <<want, runningConfig, template, templateFile, nginx,
                   start, stop, edits, accidents>>

\* ... and writes the content; when that fails, the file stays empty.
write ==
    /\ At("write")
    /\ \/ /\ file' = w.content /\ cut' = FALSE
          /\ Goto("reload") /\ UNCHANGED queue /\ NoFault
       \/ /\ Fault /\ Return(TRUE)
          /\ cut' = TRUE /\ UNCHANGED file
    /\ UNCHANGED <<want, runningConfig, template, templateFile, nginx,
                   start, stop, edits, accidents>>

\* nginx -s reload finds the master by its pid file, which the master writes
\* once it has read its config and bound its ports.
reloadFindsMaster == master = "up"

reloadErrorIgnored ==
    /\ At("reload")
    /\ signals' = IF reloadFindsMaster THEN signals \cup {"reload"} ELSE signals
    /\ Goto("services")
    /\ UNCHANGED <<want, queue, runningConfig, template, templateFile, nginxConf,
                   master, loaded, orphans, start, stop, bounds>>

\* nginx -s reload sends a signal; without a master to send it to, it fails.
reload ==
    /\ At("reload")
    /\ \/ /\ reloadFindsMaster
          /\ signals' = signals \cup {"reload"}
          /\ Goto("services") /\ UNCHANGED queue /\ NoFault
       \/ /\ ~reloadFindsMaster
          /\ Return(TRUE) /\ NoFault /\ UNCHANGED signals
       \/ Fault /\ Return(TRUE) /\ UNCHANGED signals
    /\ UNCHANGED <<want, runningConfig, template, templateFile, nginxConf, master,
                   loaded, orphans, start, stop, edits, accidents>>

\* The original services are updated (CanaryProxy), runningConfig is set.
services ==
    /\ At("services")
    /\ \/ runningConfig' = w.cfg /\ Return(FALSE) /\ NoFault
       \/ Fault /\ Return(TRUE) /\ UNCHANGED runningConfig
    /\ UNCHANGED <<want, template, templateFile, nginxConf, nginx, start, stop,
                   edits, accidents>>

Worker == _sync \/ render \/ truncate \/ write \/ reload \/ services

(***************************************************************************)
(* Start                                                                   *)
(***************************************************************************)

\* fork and exec nginx: start() and the goroutine that waits for its end.
fork ==
    /\ master' = "starting" /\ start' = "waits"
    /\ UNCHANGED <<want, worker, template, templateFile, nginxConf, loaded, signals,
                   orphans, stop, bounds>>

\* Run starts nginx after the queue: the worker may be at work already.
Start == Alive /\ start = "off" /\ fork

\* nginx has died: its exit status comes through the channel done.
died ==
    /\ Alive /\ start = "waits" /\ master = "none"
    /\ start' = "dials"
    /\ UNCHANGED <<want, worker, template, templateFile, nginxConf, nginx, stop, bounds>>

startAtOnce == TRUE
port80Answers == FALSE
\* The loop waits a second and dials port 80, where nothing listens: it goes
\* on at the first try.  waitForNginxShutdown looks once a second, too, so
\* within the second that nginx is away it has looked.
aSecondPasses == stop = "quit" => orphans

restart == Alive /\ start = "dials" /\ aSecondPasses /\ fork

\* A command that cannot be forked has no Process: Release panics, in a
\* goroutine without recover, and the container starts from its image, as
\* after any crash.  One that is being stopped is not started again.
ContainerRestart ==
    /\ stop = "no" /\ Accident
    /\ queue' = {<<edits, 0>>} /\ w' = Idle
    /\ runningConfig' = Nil
    /\ template' = shipped
    /\ templateFile' = [content |-> shipped, unseen |-> FALSE]
    /\ file' = Image /\ cut' = FALSE
    /\ master' = "none" /\ loaded' = Nil /\ signals' = {} /\ orphans' = FALSE
    /\ start' = "off" /\ UNCHANGED stop
    /\ UNCHANGED <<want, edits, faults>>

Supervisor == Start \/ died \/ restart

(***************************************************************************)
(* nginx                                                                   *)
(***************************************************************************)

\* A starting master reads nginx.conf and binds its ports, or it exits.
open ==
    /\ Alive /\ master = "starting"
    /\ IF Accepts(file) /\ ~orphans
       THEN master' = "opened" /\ loaded' = file
       ELSE master' = "none" /\ UNCHANGED loaded
    /\ UNCHANGED <<want, worker, template, templateFile, nginxConf, signals, orphans,
                   start, stop, bounds>>

\* It writes its pid file.
up ==
    /\ Alive /\ master = "opened"
    /\ master' = "up"
    /\ UNCHANGED <<want, worker, template, templateFile, nginxConf, loaded, signals,
                   orphans, start, stop, bounds>>

\* It reads nginx.conf again, and keeps what it has if the file is no config.
handleReload ==
    /\ Alive /\ master = "up" /\ "reload" \in signals
    /\ loaded' = IF Accepts(file) THEN file ELSE loaded
    /\ signals' = signals \ {"reload"}
    /\ UNCHANGED <<want, worker, template, templateFile, nginxConf, master, orphans,
                   start, stop, bounds>>

\* The connections have ended and the master exits.
handleQuit ==
    /\ Alive /\ master = "up" /\ "quit" \in signals
    /\ master' = "none" /\ loaded' = Nil /\ signals' = {}
    /\ UNCHANGED <<want, worker, template, templateFile, nginxConf, orphans, start,
                   stop, bounds>>

Nginx == open \/ up \/ handleReload \/ handleQuit

\* The master crashes or is killed; its workers may go on, with its ports.
Die ==
    /\ Alive /\ master # "none" /\ Accident
    /\ master' = "none" /\ loaded' = Nil /\ signals' = {}
    /\ orphans' \in IF master = "up" THEN BOOLEAN ELSE {orphans}
    /\ UNCHANGED <<want, worker, template, templateFile, nginxConf, start, stop,
                   edits, faults>>

OrphansEnd ==
    /\ Alive /\ orphans /\ orphans' = FALSE
    /\ UNCHANGED <<want, worker, template, templateFile, nginxConf, master, loaded,
                   signals, start, stop, bounds>>

(***************************************************************************)
(* The user, the template file                                             *)
(***************************************************************************)

\* Another config is asked for, and the CanaryRelease is enqueued.
Edit ==
    /\ Alive /\ edits < MaxEdits
    /\ edits' = edits + 1
    /\ want' \in Configs \ {want}
    /\ queue' = IF stop = "no" THEN queue \cup {<<edits + 1, 0>>} ELSE queue
    /\ UNCHANGED <<w, runningConfig, template, templateFile, nginxConf, nginx, start,
                   stop, faults, accidents>>

\* The template file changes; Nil is a content that does not parse.
ChangeTemplate ==
    /\ Alive /\ Accident
    /\ \E t \in (Templates \cup {Nil}) \ {templateFile.content} :
         templateFile' = [content |-> t, unseen |-> TRUE]
    /\ UNCHANGED <<want, worker, template, nginxConf, nginx, start, stop, edits,
                   faults>>

\* The watcher's callback: a content that does not parse changes nothing.  No
\* OnUpdate follows.
onChange ==
    /\ Alive /\ templateFile.unseen
    /\ template' = IF templateFile.content = Nil THEN template ELSE templateFile.content
    /\ templateFile' = [templateFile EXCEPT !.unseen = FALSE]
    /\ UNCHANGED <<want, worker, nginxConf, nginx, start, stop, bounds>>

(***************************************************************************)
(* Stop                                                                    *)
(***************************************************************************)

\* waitForCleanup (CanaryProxy) has returned: the queue is shut down.  It
\* still hands out what is in it, not what waits to be added.
ShutDown ==
    /\ stop = "no" /\ stop' = "shutdown"
    /\ queue' \in SUBSET queue
    /\ UNCHANGED <<want, w, runningConfig, template, templateFile, nginxConf, nginx,
                   start, bounds>>

\* The worker is done.  nginx -s quit fails without a master it can find,
\* and the process exits; otherwise Stop waits.
Stop ==
    /\ stop = "shutdown" /\ w.pc = "idle" /\ queue = {}
    /\ \/ /\ master = "up"
          /\ signals' = signals \cup {"quit"} /\ stop' = "quit"
       \/ /\ master # "up"
          /\ stop' = "exited" /\ UNCHANGED signals
    /\ UNCHANGED <<want, worker, template, templateFile, nginxConf, master, loaded,
                   orphans, start, bounds>>

isNginxProcessPresent == master # "none" \/ orphans

\* A look finds no nginx process: Stop returns, and the process exits.
waitForNginxShutdown ==
    /\ stop = "quit" /\ ~isNginxProcessPresent
    /\ stop' = "exited"
    /\ UNCHANGED <<want, worker, template, templateFile, nginxConf, nginx, start, bounds>>

Shutdown == Stop \/ waitForNginxShutdown

Next ==
    \/ Worker \/ Supervisor \/ ContainerRestart
    \/ Nginx \/ Die \/ OrphansEnd
    \/ Edit \/ ChangeTemplate \/ onChange
    \/ ShutDown \/ Shutdown

Spec == Init /\ [][Next]_vars

\* The goroutines run, a master goes on, its connections end.  Nothing says
\* that a change of the template is seen or that orphans end.
FairSpec ==
    /\ Spec
    /\ WF_vars(Worker) /\ WF_vars(Supervisor) /\ WF_vars(Shutdown)
    /\ WF_vars(open) /\ WF_vars(up) /\ WF_vars(handleReload) /\ WF_vars(handleQuit)

(***************************************************************************)
(* Properties                                                              *)
(***************************************************************************)

\* Whatever the template, the script or the commands do, a master that dies
\* finds a config it can start from: nginx.conf passed nginx -t or is the
\* image's, unless it is being written or the last writing of it failed
\* (nginx.go 187-201).
FileIsTested ==
    ~Accepts(file) => file = Cut /\ (w.pc = "write" \/ cut)

\* What makes it inductive: only a tested content gets past render.
ContentTested ==
    w.pc \in {"truncate", "write", "reload", "services"} =>
        w.content \in Contents /\ Accepts(w.content)

\* A config the proxy counts as running and has not written over is the one
\* nginx has, or will read because a reload is pending or it has yet to start
\* (nginx.go 198-206, proxy.go 619).
ReloadReaches ==
    runningConfig # Nil /\ file.cfg = runningConfig =>
        \/ loaded = file
        \/ "reload" \in signals
        \/ master \in {"none", "starting"}

\* What makes ReloadReaches inductive.
ReloadInv ==
    /\ w.pc = "services" =>
         /\ file = w.content /\ file.cfg = w.cfg
         /\ loaded = file \/ "reload" \in signals \/ master \in {"none", "starting"}
    /\ w.pc \in {"render", "truncate", "write", "reload"} => w.cfg # runningConfig
    /\ w.pc \in {"truncate", "write", "reload"} => w.content.cfg = w.cfg
    /\ w.pc = "reload" => file = w.content

\* Whenever nginx dies, the config that counts as running is served again,
\* unless orphans keep its ports or the proxy stops: Start never ends
\* (nginx.go 80-104).
ServedAgain ==
    []<>(\/ runningConfig # Nil /\ file.cfg = runningConfig =>
                master = "up" /\ loaded = file
         \/ orphans
         \/ stop # "no")

\* Stop comes to its end although Start brings nginx back whenever it is
\* gone: the second its loop waits gives Stop the time to see it gone
\* (nginx.go 96-103 and 124-135), unless the master is killed before it quits
\* and leaves orphans.
StopEnds ==
    stop = "quit" /\ "quit" \in signals ~> stop = "exited" \/ orphans
=============================================================================
