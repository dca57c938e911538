---------------------------- MODULE BrowserDaemon ----------------------------
(***************************************************************************)
(* start, stop and status of loom-browser-daemon.ts: one Chromium whose    *)
(* pid and DevTools endpoint are kept in .loom/browser/state.toon, for the *)
(* exec commands (module ExecLock) to attach to.                           *)
(*                                                                         *)
(* A start checks the file, spawns Chromium, polls a fixed port until some *)
(* Chromium answers or eight seconds are over, and only then writes the    *)
(* file.  A stop signals the pid of the file and clears the file at once,  *)
(* while Chromium may take its time to end.  daemon.pid is written and     *)
(* removed but read by nobody, and is left out.                            *)
(*                                                                         *)
(* Chromium and the operating system are external: a process ends at any   *)
(* time, its pid may come back as another program's, and the first         *)
(* Chromium to listen on the port keeps it to its end.                     *)
(***************************************************************************)
EXTENDS Naturals, FiniteSets

CONSTANTS
    DaemonCmd,       \* invocations of start and stop
    Pid,             \* process identifiers
    MaxDaemonEvents  \* bound on commands, and on events of the system

ASSUME DaemonAssumption == 0 \notin Pid /\ MaxDaemonEvents \in Nat

VARIABLES
    stateFile,    \* state.toon, or NoState
    procs,        \* what runs under each pid
    port,         \* the pid that listens on the DevTools port, or 0
    daemonCmd,
    daemonEvents,
    daemonRaced,  \* history: a start overlapped a command, or was killed after its spawn
    portShared    \* history: a Chromium was started while another still ran

daemonVars == <<stateFile, procs, port, daemonCmd, daemonEvents, daemonRaced, portShared>>

NoState == [pid |-> 0, endpoint |-> 0, there |-> FALSE]
StateOf(pid, endpoint) == [pid |-> pid, endpoint |-> endpoint, there |-> TRUE]
DaemonIdle == [pc |-> "idle", pid |-> 0]
Chromium == {p \in Pid : procs[p] \in {"chromium", "ending"}}

DaemonTypeOK ==
    /\ stateFile \in [pid : Pid \cup {0}, endpoint : Pid \cup {0}, there : BOOLEAN]
    /\ procs \in [Pid -> {"none", "chromium", "ending", "other"}]
    /\ port \in Pid \cup {0}
    /\ daemonCmd \in [DaemonCmd -> [pc : {"idle", "spawn", "poll", "stop"}, pid : Pid \cup {0}]]
    /\ daemonEvents \in 0..MaxDaemonEvents
    /\ daemonRaced \in BOOLEAN /\ portShared \in BOOLEAN

DaemonInit ==
    /\ stateFile = NoState
    /\ procs = [p \in Pid |-> "none"]
    /\ port = 0
    /\ daemonCmd = [c \in DaemonCmd |-> DaemonIdle]
    /\ daemonEvents = 0 /\ daemonRaced = FALSE /\ portShared = FALSE

DaemonEvent == daemonEvents < MaxDaemonEvents /\ daemonEvents' = daemonEvents + 1

IsPidAlive(pid) == pid # 0 /\ procs[pid] # "none"

(* statusCmd *)
Phase ==
    IF ~stateFile.there \/ stateFile.pid = 0 THEN "stopped"
    ELSE IF IsPidAlive(stateFile.pid) THEN "running" ELSE "crashed"

-----------------------------------------------------------------------------

(* Mutant: a start does not look at the state file. *)
StartChecksNothing(c) ==
    /\ daemonCmd[c].pc = "idle" /\ DaemonEvent
    /\ daemonCmd' = [daemonCmd EXCEPT ![c].pc = "spawn"]
    /\ daemonRaced' = (daemonRaced \/ \E d \in DaemonCmd : daemonCmd[d].pc # "idle")
    /\ UNCHANGED <<stateFile, procs, port, portShared>>

(* Past BROWSER_ALREADY_RUNNING. *)
StartChecks(c) ==
    /\ daemonCmd[c].pc = "idle" /\ DaemonEvent
    /\ ~IsPidAlive(stateFile.pid)
    /\ daemonCmd' = [daemonCmd EXCEPT ![c].pc = "spawn"]
    /\ daemonRaced' = (daemonRaced \/ \E d \in DaemonCmd : daemonCmd[d].pc # "idle")
    /\ UNCHANGED <<stateFile, procs, port, portShared>>

Spawn(c) ==
    /\ daemonCmd[c].pc = "spawn"
    /\ \E p \in Pid :
          /\ procs[p] = "none"
          /\ procs' = [procs EXCEPT ![p] = "chromium"]
          /\ daemonCmd' = [daemonCmd EXCEPT ![c] = [pc |-> "poll", pid |-> p]]
    /\ portShared' = (portShared \/ Chromium # {})
    /\ UNCHANGED <<stateFile, port, daemonEvents, daemonRaced>>

(* No binary: a stub is recorded.  A spawn that fails is recorded as one only *)
(* if it throws; what it reports as an event ends the process instead.        *)
SpawnFails(c) ==
    /\ daemonCmd[c].pc = "spawn"
    /\ stateFile' \in {stateFile, StateOf(0, 0)}
    /\ daemonCmd' = [daemonCmd EXCEPT ![c] = DaemonIdle]
    /\ UNCHANGED <<procs, port, daemonEvents, daemonRaced, portShared>>

(* Whoever answers on the port is taken for the Chromium just spawned. *)
StartWrites(c) ==
    /\ daemonCmd[c].pc = "poll"
    /\ \E endpoint \in {0, port} : stateFile' = StateOf(daemonCmd[c].pid, endpoint)
    /\ daemonCmd' = [daemonCmd EXCEPT ![c] = DaemonIdle]
    /\ UNCHANGED <<procs, port, daemonEvents, daemonRaced, portShared>>

(* The file is read and the pid it names is signalled, whosever it is. *)
StopSignals(c) ==
    /\ daemonCmd[c].pc = "idle" /\ DaemonEvent
    /\ stateFile.there
    /\ procs' = [p \in Pid |-> IF p # stateFile.pid THEN procs[p]
                               ELSE CASE procs[p] = "chromium" -> "ending" [] procs[p] = "other" -> "none" [] OTHER -> procs[p]]
    /\ daemonCmd' = [daemonCmd EXCEPT ![c].pc = "stop"]
    /\ daemonRaced' = (daemonRaced \/ \E d \in DaemonCmd : daemonCmd[d].pc \in {"spawn", "poll"})
    /\ UNCHANGED <<stateFile, port, portShared>>

StopWrites(c) ==
    /\ daemonCmd[c].pc = "stop"
    /\ stateFile' = StateOf(0, 0)
    /\ daemonCmd' = [daemonCmd EXCEPT ![c] = DaemonIdle]
    /\ UNCHANGED <<procs, port, daemonEvents, daemonRaced, portShared>>

DaemonKill(c) ==
    /\ daemonCmd[c].pc # "idle"
    /\ daemonCmd' = [daemonCmd EXCEPT ![c] = DaemonIdle]
    /\ daemonRaced' = (daemonRaced \/ daemonCmd[c].pc = "poll")
    /\ UNCHANGED <<stateFile, procs, port, daemonEvents, portShared>>

-----------------------------------------------------------------------------
(* The system. *)

Listen(p) ==
    /\ procs[p] = "chromium" /\ port = 0
    /\ port' = p
    /\ UNCHANGED <<stateFile, procs, daemonCmd, daemonEvents, daemonRaced, portShared>>

Ends(p) ==
    /\ procs[p] # "none"
    /\ procs' = [procs EXCEPT ![p] = "none"]
    /\ port' = IF port = p THEN 0 ELSE port
    /\ UNCHANGED <<stateFile, daemonCmd, daemonEvents, daemonRaced, portShared>>

OtherProgram(p) ==
    /\ procs[p] = "none" /\ DaemonEvent
    /\ procs' = [procs EXCEPT ![p] = "other"]
    /\ UNCHANGED <<stateFile, port, daemonCmd, daemonRaced, portShared>>

DaemonNext ==
    \/ \E c \in DaemonCmd :
          \/ StartChecks(c) \/ Spawn(c) \/ SpawnFails(c) \/ StartWrites(c)
          \/ StopSignals(c) \/ StopWrites(c) \/ DaemonKill(c)
    \/ \E p \in Pid : Listen(p) \/ Ends(p) \/ OtherProgram(p)

DaemonSpec == DaemonInit /\ [][DaemonNext]_daemonVars

-----------------------------------------------------------------------------
(* No Chromium is lost.  Over starts, stops, spawns that fail, crashes of     *)
(* Chromium and pids that come back as another program, as long as no start   *)
(* overlaps another command or is killed between its spawn and its write,     *)
(* every Chromium nobody told to end is the one the file names, or is being   *)
(* started, so a stop reaches it.  And the endpoint commands attach to is     *)
(* that Chromium's own, unless it was started while another one still ran:    *)
(* a stop does not wait for the Chromium it signalled.                        *)
(* (scripts/loom-browser-daemon.ts:246 "Resolve the REAL cdpEndpoint")        *)
NoChromiumIsLost ==
    ~daemonRaced =>
        /\ \A p \in Pid : procs[p] = "chromium" =>
              \/ stateFile.pid = p /\ Phase = "running"
              \/ \E c \in DaemonCmd : daemonCmd[c] = [pc |-> "poll", pid |-> p]
        /\ ~portShared => stateFile.endpoint \in {0, stateFile.pid}
=============================================================================
