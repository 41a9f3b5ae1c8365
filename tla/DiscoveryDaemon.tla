--------------------------- MODULE DiscoveryDaemon ---------------------------
(***************************************************************************)
(* The discovery daemon of one node.  It makes sure that the node has a    *)
(* LocalVolumeDiscoveryResult, lists the devices once, and then lists them *)
(* again after every probe interval and whenever the udev monitor sends an *)
(* event.  The result is written when the list differs from the one of the *)
(* last time, which the process remembers.                                 *)
(*                                                                         *)
(* The udev monitor is a process of its own: it takes the lines of udevadm *)
(* about devices that are added or removed, except those of device mapper  *)
(* and network devices, collapses what comes within a period into one      *)
(* event, and waits until the daemon takes it.                             *)
(***************************************************************************)
EXTENDS Naturals, FiniteSets

CONSTANTS
    Devices,     \* the devices the node may have
    Fixed,       \* those that it always has
    NoResult,    \* the node has no LocalVolumeDiscoveryResult
    Excluded,    \* those whose lines match udevExclusionFilter
    MaxChanges,  \* bound: changes of devices
    MaxFails,    \* bound: calls to the API server, or listings, that fail
    MaxRestarts, \* bound: restarts of the daemon
    MaxDeletes   \* bound: deletions of the result

ASSUME DiscoveryConstants ==
    /\ Fixed \subseteq Devices /\ Excluded \subseteq Devices
    /\ {MaxChanges, MaxFails, MaxRestarts, MaxDeletes} \subseteq Nat

VARIABLES
    dev,      \* the state of each device, or "absent"
    result,   \* the LocalVolumeDiscoveryResult
    pc,       \* of the daemon
    disks,    \* discovery.disks
    copy,     \* whether the copy of the result is current, when it is written
    monitor,  \* the state of the udev monitor
    lines,    \* matching lines of udevadm that were not read yet
    unseen,   \* a change that udev reported and no listing has seen (history)
    unwritten,\* the result could not be read or written (history)
    changes, fails, restarts, deletes

bounds == <<changes, fails, restarts, deletes>>
daemonVars == <<pc, disks, copy>>
vars == <<dev, result, daemonVars, monitor, lines, unseen, unwritten, bounds>>

States == {"Available", "NotAvailable"}

\* The last change that udevadm reported was listed ("no"), is for the monitor to
\* pass on ("reported"), is what the daemon was woken for ("taken"), or the listing
\* that it was woken for has failed ("missed").
Unseen == {"no", "reported", "taken", "missed"}
Taken == IF unseen = "no" THEN "no" ELSE "taken"

\* getDiscoverdDevices: what a listing reports.  The list of a new process is nil,
\* and so is the list of no devices.
List == {<<d, dev[d]>> : d \in {d \in Devices : dev[d] # "absent"}}
Nothing == {}

TypeOK ==
    /\ dev \in [Devices -> States \cup {"absent"}]
    /\ \A d \in Fixed : dev[d] # "absent"
    /\ result = NoResult \/ result \subseteq Devices \X States
    /\ pc \in {"ensure", "first", "get", "write", "select", "probe"}
    /\ disks \subseteq Devices \X States
    /\ copy \in BOOLEAN /\ unseen \in Unseen /\ unwritten \in BOOLEAN
    /\ monitor \in {"off", "read", "collapse", "send", "closed"}
    /\ lines \in 0..MaxChanges
    /\ changes \in 0..MaxChanges /\ fails \in 0..MaxFails
    /\ restarts \in 0..MaxRestarts /\ deletes \in 0..MaxDeletes

Init ==
    /\ dev = [d \in Devices |-> IF d \in Fixed THEN "Available" ELSE "absent"]
    /\ result = NoResult
    /\ pc = "ensure" /\ disks = Nothing /\ copy = FALSE
    /\ monitor = "off" /\ lines = 0 /\ unseen = "no" /\ unwritten = FALSE
    /\ changes = 0 /\ fails = 0 /\ restarts = 0 /\ deletes = 0

-----------------------------------------------------------------------------
(* The devices and the result change.                                      *)

Watching == monitor \in {"read", "collapse", "send"}

\* matchUdevEvent: udevadm prints a line that matches for an added or removed
\* device, unless it is excluded.  A device that is formatted or opened changes
\* without such a line.
ChangeDevice(d, st) ==
    /\ changes < MaxChanges /\ changes' = changes + 1
    /\ dev[d] # st /\ (d \in Fixed => st # "absent")
    /\ dev' = [dev EXCEPT ![d] = st]
    /\ IF Watching /\ d \notin Excluded /\ "absent" \in {dev[d], st}
       THEN lines' = lines + 1 /\ unseen' = "reported"
       ELSE UNCHANGED <<lines, unseen>>
    /\ UNCHANGED <<result, daemonVars, monitor, unwritten, fails, restarts, deletes>>

\* By the operator, for a node that it takes as not selected.
DeleteResult ==
    /\ deletes < MaxDeletes /\ deletes' = deletes + 1
    /\ result # NoResult
    /\ result' = NoResult /\ copy' = FALSE
    /\ UNCHANGED <<dev, pc, disks, monitor, lines, unseen, unwritten, changes, fails, restarts>>

-----------------------------------------------------------------------------
(* The udev monitor.                                                       *)

\* udevBlockMonitor takes a line and starts the period, ...
ReadLine ==
    /\ monitor = "read" /\ lines > 0
    /\ lines' = lines - 1 /\ monitor' = "collapse"
    /\ UNCHANGED <<dev, result, daemonVars, unseen, unwritten, bounds>>

\* ... drops the lines that come in that time, ...
DropLine ==
    /\ monitor = "collapse" /\ lines > 0
    /\ lines' = lines - 1
    /\ UNCHANGED <<dev, result, daemonVars, monitor, unseen, unwritten, bounds>>

\* Mutant: an event is dropped when the daemon is busy.
PeriodEndsBusy ==
    /\ monitor = "collapse"
    /\ monitor' = IF pc = "select" THEN "send" ELSE "read"
    /\ UNCHANGED <<dev, result, daemonVars, lines, unseen, unwritten, bounds>>

\* ... and then sends one event.
PeriodEnds ==
    /\ monitor = "collapse"
    /\ monitor' = "send"
    /\ UNCHANGED <<dev, result, daemonVars, lines, unseen, unwritten, bounds>>

\* udevadm ends, or a line cannot be matched: the channels are closed and the
\* daemon goes on without them.
MonitorEnds ==
    /\ fails < MaxFails /\ fails' = fails + 1
    /\ monitor \in {"read", "collapse"}
    /\ monitor' = "closed" /\ lines' = 0
    /\ UNCHANGED <<dev, result, daemonVars, unseen, unwritten, changes, restarts, deletes>>

-----------------------------------------------------------------------------
(* The daemon.                                                             *)

\* ensureDiscoveryResultCR
EnsureResult ==
    /\ pc = "ensure"
    /\ result' = IF result = NoResult THEN Nothing ELSE result
    /\ pc' = "first"
    /\ UNCHANGED <<dev, disks, copy, monitor, lines, unseen, unwritten, bounds>>

\* Start: the monitor is started when the first listing is done.
Loop ==
    /\ pc' = "select"
    /\ monitor' = IF monitor = "off" THEN "read" ELSE monitor

\* Mutant: devices that went away are kept in the list.
DiscoverAdded ==
    /\ pc \in {"first", "probe"}
    /\ unseen' = "no"
    /\ disks' = List \cup disks
    /\ IF disks = disks' THEN Loop ELSE pc' = "get" /\ monitor' = monitor
    /\ UNCHANGED <<dev, result, copy, lines, unwritten, bounds>>

\* discoverDevices lists the devices; a list that differs is remembered.
Discover ==
    /\ pc \in {"first", "probe"}
    /\ unseen' = "no"
    /\ disks' = List
    /\ IF disks = List THEN Loop ELSE pc' = "get" /\ monitor' = monitor
    /\ UNCHANGED <<dev, result, copy, lines, unwritten, bounds>>

\* The devices cannot be listed: what was to be listed stays unseen.
DiscoverFails ==
    /\ pc \in {"first", "probe"} /\ fails < MaxFails /\ fails' = fails + 1
    /\ unseen' = IF unseen = "taken" THEN "missed" ELSE unseen
    /\ Loop
    /\ UNCHANGED <<dev, result, disks, copy, lines, unwritten, changes, restarts, deletes>>

\* updateStatus gets the result, and takes a missing one for deleted.
GetResult ==
    /\ pc = "get"
    /\ IF result = NoResult THEN Loop /\ copy' = copy
       ELSE pc' = "write" /\ copy' = TRUE /\ monitor' = monitor
    /\ UNCHANGED <<dev, result, disks, lines, unseen, unwritten, bounds>>

\* The write is refused if the result was deleted in between.
WriteResult ==
    /\ pc = "write"
    /\ result' = IF copy THEN disks ELSE result
    /\ Loop /\ copy' = FALSE
    /\ UNCHANGED <<dev, disks, lines, unseen, unwritten, bounds>>

\* An error is reported as an event; the list is remembered all the same.
UpdateFails ==
    /\ pc \in {"get", "write"} /\ fails < MaxFails /\ fails' = fails + 1
    /\ Loop /\ copy' = FALSE /\ unwritten' = TRUE
    /\ UNCHANGED <<dev, result, disks, lines, unseen, changes, restarts, deletes>>

ProbeInterval ==
    /\ pc = "select"
    /\ pc' = "probe"
    /\ UNCHANGED <<dev, result, disks, copy, monitor, lines, unseen, unwritten, bounds>>

\* An event stands for all the lines that the monitor has read.
ReceiveEvent ==
    /\ pc = "select" /\ monitor = "send"
    /\ pc' = "probe" /\ monitor' = "read"
    /\ unseen' = IF lines = 0 THEN Taken ELSE unseen
    /\ UNCHANGED <<dev, result, disks, copy, lines, unwritten, bounds>>

\* The pod is restarted, by kubelet or because the result could not be ensured.  The
\* new daemon begins with a listing.
Restart ==
    /\ restarts < MaxRestarts /\ restarts' = restarts + 1
    /\ pc' = "ensure" /\ disks' = Nothing /\ copy' = FALSE
    /\ monitor' = "off" /\ lines' = 0 /\ unseen' = Taken
    /\ UNCHANGED <<dev, result, unwritten, changes, fails, deletes>>

Monitor == ReadLine \/ DropLine \/ PeriodEnds
Daemon == EnsureResult \/ Discover \/ GetResult \/ WriteResult

Next ==
    \/ \E d \in Devices, st \in States \cup {"absent"} : ChangeDevice(d, st)
    \/ DeleteResult \/ MonitorEnds \/ DiscoverFails \/ UpdateFails \/ Restart
    \/ Monitor \/ Daemon \/ ProbeInterval \/ ReceiveEvent

Spec == Init /\ [][Next]_vars

(* The daemon keeps going, and the probe interval passes when it waits.      *)
(* Nothing is assumed of the monitor.                                        *)
FairSpec == Spec /\ WF_vars(Daemon) /\ WF_vars(ProbeInterval)

-----------------------------------------------------------------------------
(* Collapsing loses nothing: when the daemon waits and a change that udevadm *)
(* reported was not listed yet, whatever the daemon did when it was reported,*)
(* the monitor has a line to read or an event to send, unless it has ended   *)
(* or discoverDevices was called for this change and could not list.         *)
NoEventLost ==
    pc = "select" /\ unseen \in {"reported", "taken"}
        => lines > 0 \/ monitor \in {"collapse", "send", "closed"}

(* The discovery is continuous: while the result can be written and nobody   *)
(* deletes it, it comes to be, and to stay, the list of the node's devices   *)
(* and of their states.  The probe interval makes up for changes without a   *)
(* line of udevadm, for listings that failed, for a monitor that has ended   *)
(* and for a restart.                                                        *)
ResultCurrent == <>[](~unwritten /\ deletes = 0 => result = List)

-----------------------------------------------------------------------------
(* What the code does not do.                                                *)

(* No event is lost, whatever fails.  An event whose listing fails is not    *)
(* tried again before the next probe.                                        *)
NoEventEverLost ==
    pc = "select" /\ unseen # "no" => lines > 0 \/ monitor \in {"collapse", "send", "closed"}

(* The result comes to be current whatever fails, since the daemon never     *)
(* stops.  A list that could not be written is remembered as written.        *)
ResultAlwaysCurrent == <>[](result = List)
=============================================================================
