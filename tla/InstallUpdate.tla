---------------------------- MODULE InstallUpdate ----------------------------
(***************************************************************************)
(* The installation of Loom in a home directory: the envelope install.toon *)
(* (scripts/lib/install-state.ts), the first-run handler every session     *)
(* starts with (scripts/lib/first-run.ts), and /loom-update with --pin,    *)
(* --resume and --rollback (scripts/loom-update.ts, scripts/lib/update/).  *)
(*                                                                         *)
(* A process is one command or one session start.  Every helper that edits *)
(* the envelope reads it and replaces it atomically, as two steps, so two  *)
(* processes can lose each other's edits.  The installers (curl script,    *)
(* claude plugin) are external: they replace the tracked files one at a    *)
(* time and may stop anywhere.  Of a restore the staging pass is one step  *)
(* and the renames are one step each.                                      *)
(*                                                                         *)
(* Simplifications: a version is a number, the manifest a set of them,     *)
(* listed in order, so that the last one is the largest; a manifest that   *)
(* cannot be fetched ends a command before it changes anything, which is   *)
(* the command never started; a killed command takes its installer with    *)
(* it; an installer that comes to run places the files of one version, on  *)
(* the curl channel of the tag it was fetched from.                        *)
(***************************************************************************)
EXTENDS Naturals, FiniteSets

CONSTANTS
    Command,      \* processes: invocations of /loom-update and session starts
    File,         \* the files of an installation
    PluginJson,   \* the one that states the version
    Version,      \* released versions
    MaxCommands,  \* bound on processes that begin
    MaxReleases   \* bound on changes of the manifest

ASSUME InstallAssumption ==
    /\ IsFiniteSet(File)
    /\ PluginJson \in File
    /\ Version \subseteq Nat \ {0} /\ \E top \in Version : \A v \in Version : v <= top
    /\ MaxCommands \in Nat /\ MaxReleases \in Nat

VARIABLES
    toon,       \* install.toon, or Absent
    disk,       \* the version each file is of
    manifest,   \* versions the marketplace offers
    snapshot,   \* version the upgrade snapshot holds
    cmd,        \* state of each process
    commands,   \* how many processes began
    releases,   \* how often the manifest changed
    raced,      \* two updates overlapped, or an edit of the envelope was lost
    halfRestored \* files of two versions were left by a restore that stopped between two renames,
                 \* or by an update whose script never arrived, and nothing completed since

installVars == <<toon, disk, manifest, snapshot, cmd, commands, releases, raced, halfRestored>>

Absent == [ver |-> 0]
None == 0
NoMarker == [at |-> "none"]
Failed == [at |-> "failed"]
Marker(from, to) == [at |-> "running", from |-> from, to |-> to]
Channel == {"curl", "plugin"}
Process(pc, op, to, put, chan, left) ==
    [pc |-> pc, op |-> op, to |-> to, put |-> put, chan |-> chan, left |-> left, read |-> FALSE, seen |-> Absent]
Quiet == Process("idle", "none", None, None, "curl", {})

Markers == {NoMarker, Failed} \cup {Marker(f, t) : f, t \in Version}
Envelope == [ver : Version, chan : Channel, up : Markers, pin : Version \cup {None}]
Helper == {"pin", "mark", "clear", "fail", "bump"}
Commands ==
    [pc : {"idle", "exec", "rename"} \cup Helper, op : {"none", "apply", "resume", "rollback", "session"},
     to : Version \cup {None}, put : Version \cup {None}, chan : Channel, left : SUBSET File,
     read : BOOLEAN, seen : Envelope \cup {Absent}]

InstallTypeOK ==
    /\ toon \in Envelope \cup {Absent}
    /\ disk \in [File -> Version]
    /\ manifest \subseteq Version
    /\ snapshot \in Version \cup {None}
    /\ cmd \in [Command -> Commands]
    /\ commands \in 0..MaxCommands
    /\ releases \in 0..MaxReleases
    /\ raced \in BOOLEAN /\ halfRestored \in BOOLEAN

(* The installer has placed one version; the first session writes the envelope. *)
InstallInit ==
    /\ toon = Absent
    /\ \E v \in Version : /\ disk = [f \in File |-> v]
                          /\ manifest = {v}
    /\ snapshot \in Version \cup {None}
    /\ cmd = [c \in Command |-> Quiet]
    /\ commands = 0 /\ releases = 0
    /\ raced = FALSE /\ halfRestored = FALSE

-----------------------------------------------------------------------------
(* resolveLatestVersion of the command line: the last version listed. *)
Latest(vs) == CHOOSE v \in vs : \A w \in vs : w <= v
Torn == \E f, g \in File : disk[f] # disk[g]
Updating(c) == cmd[c].op \in {"apply", "resume", "rollback"}

Begin(c, start) ==
    /\ cmd[c] = Quiet /\ commands < MaxCommands
    /\ commands' = commands + 1
    /\ cmd' = [cmd EXCEPT ![c] = start]
    /\ raced' = (raced \/ (start.op # "session" /\ \E d \in Command \ {c} : Updating(d)))
    /\ UNCHANGED <<toon, disk, manifest, snapshot, releases, halfRestored>>

(* The release the marketplace adds or takes back, between commands. *)
Release ==
    /\ releases < MaxReleases
    /\ \E v \in Version : manifest' = (manifest \ {v}) \cup ({v} \ manifest)
    /\ releases' = releases + 1
    /\ UNCHANGED <<toon, disk, snapshot, cmd, commands, raced, halfRestored>>

Update(op, to, chan, pinned) ==
    Process(IF pinned THEN "pin" ELSE "mark", op, to, None, chan, {})

(* /loom-update [--pin v] [--channel c]; without an envelope it refuses. *)
Apply(c) ==
    /\ toon # Absent
    /\ \E chan \in Channel :
          \/ \E v \in Version : Begin(c, Update("apply", v, chan, TRUE))
          \/ Begin(c, Update("apply", IF manifest = {} THEN toon.ver ELSE Latest(manifest), chan, FALSE))

(* Mutant: resume forgets to pin: it installs the latest release. *)
ResumeLatest(c) ==
    /\ toon # Absent /\ toon.up \notin {NoMarker, Failed}
    /\ manifest # {}
    /\ Begin(c, Update("resume", Latest(manifest), toon.chan, FALSE))

(* /loom-update --resume: only a marker of an interrupted update is taken up, *)
(* as an update pinned to its target, if that is still offered.               *)
Resume(c) ==
    /\ toon # Absent /\ toon.up \notin {NoMarker, Failed}
    /\ IF toon.up.to \in manifest
       THEN Begin(c, Update("resume", toon.up.to, toon.chan, TRUE))
       ELSE Begin(c, Process("fail", "resume", None, None, "curl", {}))

(* First run: takes the version from plugin.json, then looks at the envelope. *)
SessionStart(c) == Begin(c, Process("bump", "session", disk[PluginJson], None, "curl", {}))

(* /loom-update --rollback, once the copies were hashed, the chain matched and *)
(* all of them were staged; every other outcome changes no file.               *)
Rollback(c) ==
    /\ snapshot # None
    /\ Begin(c, Process("rename", "rollback", snapshot, None, "curl", File))

-----------------------------------------------------------------------------
(* readState of a helper. *)
Read(c) ==
    /\ cmd[c].pc \in Helper /\ ~cmd[c].read
    /\ cmd' = [cmd EXCEPT ![c] = [@ EXCEPT !.read = TRUE, !.seen = toon]]
    /\ UNCHANGED <<toon, disk, manifest, snapshot, commands, releases, raced, halfRestored>>

Fresh(c) ==
    {[ver |-> cmd[c].to, chan |-> chan, up |-> NoMarker, pin |-> None] : chan \in Channel}

(* Mutant: first run stamps a fresh envelope on a version bump. *)
EditsFreshOnBump(c) ==
    LET seen == cmd[c].seen
    IN  CASE cmd[c].pc = "pin" -> {[seen EXCEPT !.pin = cmd[c].to]}
          [] cmd[c].pc = "mark" -> {[seen EXCEPT !.up = Marker(seen.ver, cmd[c].to)]}
          [] cmd[c].pc = "clear" -> {[ver |-> cmd[c].to, chan |-> seen.chan, up |-> NoMarker, pin |-> seen.pin]}
          [] cmd[c].pc = "fail" -> {[seen EXCEPT !.up = Failed]}
          [] cmd[c].pc = "bump" -> Fresh(c)

(* What each helper makes of the envelope it read. *)
Edits(c) ==
    LET seen == cmd[c].seen
    IN  CASE cmd[c].pc = "pin" -> {[seen EXCEPT !.pin = cmd[c].to]}
          [] cmd[c].pc = "mark" -> {[seen EXCEPT !.up = Marker(seen.ver, cmd[c].to)]}
          [] cmd[c].pc = "clear" -> {[ver |-> cmd[c].to, chan |-> seen.chan, up |-> NoMarker, pin |-> seen.pin]}
          [] cmd[c].pc = "fail" -> {[seen EXCEPT !.up = Failed]}
          [] cmd[c].pc = "bump" -> IF seen = Absent THEN Fresh(c) ELSE {[seen EXCEPT !.ver = cmd[c].to]}

(* The version the chosen installer starts to place: the plugin manager knows *)
(* only the latest, whatever the target.                                      *)
Placed(c) == IF cmd[c].chan = "plugin" /\ manifest # {} THEN Latest(manifest) ELSE cmd[c].to

(* After pinning comes marking, after marking the installer; then it is over. *)
After(c) ==
    CASE cmd[c].pc = "pin" -> Process("mark", cmd[c].op, cmd[c].to, None, cmd[c].chan, {})
      [] cmd[c].pc = "mark" -> Process("exec", cmd[c].op, cmd[c].to, Placed(c), cmd[c].chan, File)
      [] OTHER -> Quiet

(* writeState of a helper.  A session that finds its own version leaves the file alone. *)
Write(c) ==
    /\ cmd[c].pc \in Helper /\ cmd[c].read
    /\ IF cmd[c].pc = "bump" /\ cmd[c].seen.ver = cmd[c].to
       THEN UNCHANGED <<toon, raced>>
       ELSE /\ toon' \in Edits(c)
            /\ raced' = (raced \/ cmd[c].seen # toon)
    /\ cmd' = [cmd EXCEPT ![c] = After(c)]
    /\ UNCHANGED <<disk, manifest, snapshot, commands, releases, halfRestored>>

(* The installer replaces one file. *)
Place(c) ==
    /\ cmd[c].pc = "exec"
    /\ \E f \in cmd[c].left :
          /\ disk' = [disk EXCEPT ![f] = cmd[c].put]
          /\ cmd' = [cmd EXCEPT ![c] = [@ EXCEPT !.left = cmd[c].left \ {f}]]
    /\ UNCHANGED <<toon, manifest, snapshot, commands, releases, raced, halfRestored>>

(* `claude plugin update` failed: `claude plugin add loom@target` instead. *)
Fallback(c) ==
    /\ cmd[c].pc = "exec" /\ cmd[c].chan = "plugin" /\ cmd[c].put # cmd[c].to
    /\ cmd' = [cmd EXCEPT ![c] = Process("exec", @.op, @.to, @.to, @.chan, File)]
    /\ UNCHANGED <<toon, disk, manifest, snapshot, commands, releases, raced, halfRestored>>

(* `curl ... | bash` where curl gets nothing: bash reads an empty script, and *)
(* its exit code, 0, is the one of the pipe.                                  *)
NothingFetched(c) ==
    /\ cmd[c].pc = "exec" /\ cmd[c].chan = "curl" /\ cmd[c].left = File
    /\ cmd' = [cmd EXCEPT ![c] = Process("clear", @.op, @.to, None, @.chan, {})]
    /\ halfRestored' = (halfRestored \/ Torn)
    /\ UNCHANGED <<toon, disk, manifest, snapshot, commands, releases, raced>>

(* The installer's exit code 0. *)
Placed0(c) ==
    /\ cmd[c].pc = "exec" /\ cmd[c].left = {}
    /\ cmd' = [cmd EXCEPT ![c] = [@ EXCEPT !.pc = "clear"]]
    /\ halfRestored' = FALSE
    /\ UNCHANGED <<toon, disk, manifest, snapshot, commands, releases, raced>>

(* Another exit code: apply leaves its marker, resume records the failure. *)
PlaceFails(c) ==
    /\ cmd[c].pc = "exec"
    /\ cmd' = [cmd EXCEPT ![c] = IF @.op = "resume" THEN Process("fail", "resume", None, None, "curl", {}) ELSE Quiet]
    /\ UNCHANGED <<toon, disk, manifest, snapshot, commands, releases, raced, halfRestored>>

(* One rename of the second pass of a restore. *)
Rename(c) ==
    /\ cmd[c].pc = "rename"
    /\ \E f \in cmd[c].left :
          /\ disk' = [disk EXCEPT ![f] = cmd[c].to]
          /\ cmd' = [cmd EXCEPT ![c] = IF @.left = {f} THEN Quiet ELSE [@ EXCEPT !.left = cmd[c].left \ {f}]]
          /\ halfRestored' = (halfRestored /\ cmd[c].left # {f})
    /\ UNCHANGED <<toon, manifest, snapshot, commands, releases, raced>>

(* The command is over; of a restore, the files renamed so far stay renamed. *)
Stops(c) ==
    /\ cmd' = [cmd EXCEPT ![c] = Quiet]
    /\ halfRestored' = (halfRestored \/ (cmd[c].pc = "rename" /\ cmd[c].left # File))
    /\ UNCHANGED <<toon, disk, manifest, snapshot, commands, releases, raced>>

(* A rename throws: the staged files that are left are removed, nothing is undone. *)
RenameFails(c) == cmd[c].pc = "rename" /\ Stops(c)

CommandKilled(c) == cmd[c].pc # "idle" /\ Stops(c)

InstallNext ==
    \/ Release
    \/ \E c \in Command :
          \/ Apply(c) \/ Resume(c) \/ SessionStart(c) \/ Rollback(c)
          \/ Read(c) \/ Write(c)
          \/ Place(c) \/ Fallback(c) \/ NothingFetched(c) \/ Placed0(c) \/ PlaceFails(c)
          \/ Rename(c) \/ RenameFails(c) \/ CommandKilled(c)

InstallSpec == InstallInit /\ [][InstallNext]_installVars

-----------------------------------------------------------------------------
(* Files of more than one version are never on disk unannounced: the marker   *)
(* is there, or says "failed", from before the installer's first file until   *)
(* after its last, over crashes, failures, retries, other sessions and        *)
(* releases.  (commands/loom-update.md: the marker is set "atomically before  *)
(* the channel-specific" action.)  Four things break it, and only these:      *)
(* overlapping updates, a lost edit of the envelope, a restore that stopped   *)
(* between two renames, which no marker covers, and an update over such files *)
(* whose script was never fetched but which exits with 0.                     *)
TornIsMarked ==
    Torn /\ ~raced /\ ~halfRestored =>
        \/ toon # Absent /\ toon.up # NoMarker
        \/ \E c \in Command : cmd[c].pc = "rename"

(* What the update in its last step has done: if its installer came to run,   *)
(* every file is of the version that installer placed, and on the curl        *)
(* channel this is the version asked for.                                     *)
Installed(c) ==
    cmd[c].put # None =>
        /\ \A f \in File : disk[f] = cmd[c].put
        /\ cmd[c].chan = "curl" => cmd[c].put = cmd[c].to

(* How a marker ends.  An update's marker goes only by the update it was set  *)
(* by or the resume that took it up, which records the version the marker     *)
(* names, also when newer releases appeared meanwhile, and finds the files    *)
(* whole, on the curl channel of that version, unless its script was never    *)
(* fetched (RecordedIsInstalled and ClearedOnSuccess are what does not hold); *)
(* "failed" is set by a resume and stays until a new apply.  No session start *)
(* touches either.                                                            *)
MarkerProtocol ==
    [][ ~raced' /\ toon # Absent /\ toon'.up # toon.up =>
       (CASE toon'.up = NoMarker ->
               /\ toon.up # Failed /\ toon'.ver = toon.up.to
               /\ \E c \in Command : cmd[c].pc = "clear" /\ cmd[c].to = toon'.ver /\ Installed(c)
          [] toon'.up = Failed -> \E c \in Command : cmd[c].op = "resume"
          [] OTHER -> \E c \in Command :
                         /\ cmd[c].op \in {"apply", "resume"} /\ toon'.up.to = cmd[c].to
                         /\ cmd[c].op = "resume" => toon.up \notin {NoMarker, Failed} /\ toon.up.to = toon'.up.to)
      ]_installVars

MarkerGoes == ~raced' /\ toon # Absent /\ toon.up # NoMarker /\ toon'.up = NoMarker

(* Does not hold: once an installer ran and the marker goes, the recorded     *)
(* version is the installed one.  The plugin manager is asked for its latest, *)
(* whatever was pinned or is resumed (apply.ts:151).                          *)
RecordedIsInstalled ==
    [][ MarkerGoes /\ (\A c \in Command : cmd[c].pc = "clear" => cmd[c].put # None) =>
            \A f \in File : disk[f] = toon'.ver ]_installVars

(* Does not hold: a marker goes only over whole files.  It goes with exit     *)
(* code 0, which `curl | bash` has when curl fetched nothing (apply.ts:196).  *)
ClearedOnSuccess == [][ MarkerGoes => ~Torn ]_installVars
=============================================================================
