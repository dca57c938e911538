---------------------------- MODULE InstallProofs -----------------------------
(***************************************************************************)
(* Theorems about the installation in a home directory (InstallUpdate) and *)
(* about the registry of reserved versions (VersionSlots), for any number  *)
(* of processes, releases, worktrees and versions.                         *)
(***************************************************************************)
EXTENDS InstallUpdate, VersionSlots, WellFoundedInduction, TLAPS

-----------------------------------------------------------------------------
(***************************************************************************)
(* The installation: envelope, first run, update, resume, rollback         *)
(***************************************************************************)

(* A bounded set of numbers has a largest one: a minimal upper bound of it. *)
LEMMA GreatestExists ==
  ASSUME NEW S \in SUBSET Nat, S # {}, NEW top \in Nat, \A i \in S : i <= top
  PROVE  \E m \in S : \A i \in S : i <= m
  <1> DEFINE Below == {ss \in Nat \X Nat : ss[1] < ss[2]}
             B == {b \in Nat : \A i \in S : i <= b}
  <1>1. IsWellFoundedOn(Below, Nat)
    BY NatLessThanWellFounded DEF OpToRel
  <1>2. \A x, y \in Nat : y < x => <<y, x>> \in Below
    <2> TAKE x, y \in Nat
    <2>1. <<y, x>>[1] = y /\ <<y, x>>[2] = x /\ <<y, x>> \in Nat \X Nat
      OBVIOUS
    <2> QED
      BY <2>1
  <1>3. B \in SUBSET Nat /\ B # {}
    OBVIOUS
  <1> HIDE DEF Below, B
  <1>4. PICK m \in B : \A b \in B : ~(<<b, m>> \in Below)
    BY <1>1, <1>3, WFMin, Zenon
  <1>5. \A b \in B : m <= b
    <2> TAKE b \in B
    <2>1. b \in Nat /\ m \in Nat
      BY <1>3
    <2>2. ~(b < m)
      BY <1>2, <1>4, <2>1
    <2> QED
      BY <2>1, <2>2
  <1>6. m \in Nat /\ \A i \in S : i <= m
    BY <1>3 DEF B
  <1>7. m \in S
    <2> SUFFICES ASSUME m \notin S
                 PROVE  FALSE
      OBVIOUS
    <2>1. \A i \in S : i <= m - 1 /\ m - 1 \in Nat
      BY <1>6
    <2>2. m - 1 \in B
      BY <2>1 DEF B
    <2> QED
      BY <1>5, <1>6, <2>2
  <1> QED
    BY <1>6, <1>7

(* A process does what its kind of command does, and every command but a   *)
(* first run found an envelope.                                            *)
Role(r) ==
    /\ r.op = "none" <=> r.pc = "idle"
    /\ r.pc \in {"pin", "mark", "exec", "clear"} => r.op \in {"apply", "resume"} /\ r.to \in Version /\ toon # Absent
    /\ r.pc = "exec" => r.put \in Version
    /\ r.pc = "fail" => r.op = "resume" /\ toon # Absent
    /\ r.pc = "bump" => r.op = "session" /\ r.to \in Version
    /\ r.pc = "rename" => r.op = "rollback" /\ r.to \in Version
    /\ r.read /\ r.pc # "bump" => r.seen # Absent

Updates(r) == r.op \in {"apply", "resume", "rollback"}

(* An update has its marker while files change, and knows which did. *)
Marks(r) ==
    /\ r.pc \in {"exec", "clear"} \/ (r.pc \in {"pin", "mark"} /\ r.op = "resume") =>
          toon.up \notin {NoMarker, Failed} /\ toon.up.to = r.to
    /\ r.pc = "exec" => /\ \A f \in File \ r.left : disk[f] = r.put
                        /\ r.chan = "curl" => r.put = r.to
    /\ r.pc = "clear" => \/ r.put = None /\ (Torn => halfRestored)
                         \/ /\ \A f \in File : disk[f] = r.put
                            /\ r.chan = "curl" => r.put = r.to
    /\ r.pc = "rename" => \A f \in File \ r.left : disk[f] = r.to

Restoring(r) == r.pc = "rename" /\ r.left # File

MarkInv ==
    /\ \A c, d \in Command : Updates(cmd[c]) /\ Updates(cmd[d]) => c = d
    /\ \A c \in Command : Marks(cmd[c])
    /\ Torn /\ ~halfRestored => (toon # Absent /\ toon.up # NoMarker) \/ \E c \in Command : Restoring(cmd[c])

InstallInv ==
    /\ InstallTypeOK
    /\ \A c \in Command : Role(cmd[c])
    /\ ~raced => MarkInv

LEMMA Kinds ==
  /\ Absent \notin Envelope
  /\ NoMarker # Failed
  /\ \A f, to : Marker(f, to) # NoMarker /\ Marker(f, to) # Failed /\ Marker(f, to).to = to
  /\ NoMarker \in Markers /\ Failed \in Markers /\ \A f, to \in Version : Marker(f, to) \in Markers
  /\ None \notin Version
  /\ PluginJson \in File
  <1>1. \A e \in Envelope : e.ver \in Version
    BY DEF Envelope
  <1>2. None \notin Version
    BY InstallAssumption DEF None
  <1>3. Absent \notin Envelope
    BY <1>1, <1>2 DEF Absent, None
  <1>4. NoMarker # Failed
    <2>1. NoMarker.at = "none" /\ Failed.at = "failed"
      BY DEF NoMarker, Failed
    <2> QED
      BY <2>1
  <1>5. \A f, to : Marker(f, to) # NoMarker /\ Marker(f, to) # Failed /\ Marker(f, to).to = to
    <2>1. NoMarker.at = "none" /\ Failed.at = "failed" /\ \A f, to : Marker(f, to).at = "running" /\ Marker(f, to).to = to
      BY DEF NoMarker, Failed, Marker
    <2> QED
      BY <2>1
  <1> QED
    BY <1>2, <1>3, <1>4, <1>5, InstallAssumption DEF Markers

LEMMA LatestIsOne ==
  ASSUME NEW vs \in SUBSET Version, vs # {}
  PROVE  Latest(vs) \in vs
  <1>1. PICK top \in Nat : \A i \in vs : i <= top
    BY InstallAssumption
  <1>2. \E m \in vs : \A i \in vs : i <= m
    BY <1>1, GreatestExists, InstallAssumption
  <1> QED
    BY <1>2 DEF Latest

(* What a new command is, and that it may begin beside the others. *)
LEMMA ProcessType ==
  ASSUME NEW pc \in {"idle", "exec", "rename"} \cup Helper, NEW op \in {"none", "apply", "resume", "rollback", "session"},
         NEW to \in Version \cup {None}, NEW put \in Version \cup {None}, NEW chan \in Channel, NEW left \in SUBSET File
  PROVE  LET r == Process(pc, op, to, put, chan, left)
         IN  /\ r \in Commands
             /\ r.pc = pc /\ r.op = op /\ r.to = to /\ r.put = put /\ r.chan = chan /\ r.left = left
             /\ r.read = FALSE /\ r.seen = Absent
  BY DEF Process, Commands

LEMMA QuietType ==
  /\ Quiet \in Commands /\ Role(Quiet) /\ ~Updates(Quiet) /\ Marks(Quiet) /\ ~Restoring(Quiet)
  /\ Quiet.pc = "idle" /\ Quiet.op = "none"
  <1>1. Quiet \in Commands /\ Quiet.pc = "idle" /\ Quiet.op = "none" /\ Quiet.read = FALSE
    BY DEF Quiet, Process, Commands, Channel
  <1> QED
    BY <1>1 DEF Role, Updates, Marks, Restoring

LEMMA InstallStarts == InstallInit => InstallInv
  <1> SUFFICES ASSUME InstallInit
               PROVE  InstallInv
    OBVIOUS
  <1>1. \A c \in Command : cmd[c] = Quiet
    BY DEF InstallInit
  <1>2. InstallTypeOK
    <2>1. cmd \in [Command -> Commands]
      BY QuietType DEF InstallInit
    <2>2. disk \in [File -> Version] /\ manifest \subseteq Version
      BY DEF InstallInit
    <2> QED
      BY <2>1, <2>2, InstallAssumption, 0 \in 0..MaxCommands, 0 \in 0..MaxReleases DEF InstallInit, InstallTypeOK
  <1>3. ~Torn
    BY DEF InstallInit, Torn
  <1> QED
    BY <1>1, <1>2, <1>3, QuietType DEF InstallInv, MarkInv

(* The step of a process that leaves install.toon alone keeps the others'  *)
(* claims, if it changes files only while it updates.                      *)
LEMMA ProcessStep ==
  ASSUME InstallInv, NEW c \in Command, NEW n \in Commands, cmd' = [cmd EXCEPT ![c] = n], InstallTypeOK',
         toon' = toon, Role(n)', ~raced' => ~raced,
         ~raced' =>
            /\ Updates(n) => Updates(cmd[c]) \/ \A d \in Command \ {c} : ~Updates(cmd[d])
            /\ Marks(n)'
            /\ (disk' = disk /\ (halfRestored => halfRestored')) \/ Updates(cmd[c])
            /\ Torn' /\ ~halfRestored' =>
                  \/ toon # Absent /\ toon.up # NoMarker
                  \/ Restoring(n)
                  \/ Torn /\ ~halfRestored /\ ~Restoring(cmd[c])
  PROVE  InstallInv'
  <1>1. cmd'[c] = n /\ \A d \in Command \ {c} : cmd'[d] = cmd[d]
    BY DEF InstallInv, InstallTypeOK
  <1>2. \A d \in Command : Role(cmd[d])'
    BY <1>1 DEF InstallInv, Role
  <1>3. ASSUME ~raced'
        PROVE  MarkInv'
    <2>1. MarkInv
      BY <1>3 DEF InstallInv
    <2>2. \A d, e \in Command : Updates(cmd'[d]) /\ Updates(cmd'[e]) => d = e
      BY <1>1, <1>3, <2>1 DEF MarkInv
    <2>3. ASSUME NEW d \in Command \ {c}
          PROVE  Marks(cmd[d])'
      <3>1. Marks(cmd[d]) /\ cmd'[d] = cmd[d] /\ Role(cmd[d])
        BY <1>1, <2>1 DEF MarkInv, InstallInv
      <3>2. (disk' = disk /\ (halfRestored => halfRestored')) \/ ~Updates(cmd[d])
        BY <1>3, <2>1 DEF MarkInv
      <3>3. CASE disk' = disk /\ (halfRestored => halfRestored')
        BY <3>1, <3>3 DEF Marks, Torn
      <3>4. CASE ~Updates(cmd[d])
        BY <3>1, <3>4 DEF Marks, Updates, Role
      <3> QED
        BY <3>2, <3>3, <3>4
    <2>4. Torn' /\ ~halfRestored' => (toon # Absent /\ toon.up # NoMarker) \/ \E d \in Command : Restoring(cmd'[d])
      BY <1>1, <1>3, <2>1 DEF MarkInv
    <2>5. Marks(cmd[c])'
      BY <1>1, <1>3
    <2> QED
      BY <2>2, <2>3, <2>4, <2>5 DEF MarkInv, Updates, Restoring
  <1> QED
    BY <1>2, <1>3 DEF InstallInv

LEMMA BeginStep ==
  ASSUME InstallInv, NEW c \in Command, NEW n \in Commands, Begin(c, n), Role(n), Marks(n)
  PROVE  InstallInv' /\ toon' = toon
  <1>1. /\ cmd[c] = Quiet /\ cmd' = [cmd EXCEPT ![c] = n]
        /\ UNCHANGED <<toon, disk, manifest, snapshot, releases, halfRestored>>
        /\ raced' = (raced \/ (n.op # "session" /\ \E d \in Command \ {c} : Updating(d)))
        /\ commands' \in 0..MaxCommands
    BY InstallAssumption DEF Begin, InstallInv, InstallTypeOK
  <1>2. raced' \in BOOLEAN
    BY <1>1
  <1>3. InstallTypeOK'
    BY <1>1, <1>2 DEF InstallInv, InstallTypeOK
  <1>4. Role(n)' /\ Marks(n)'
    BY <1>1 DEF Role, Marks, Torn
  <1>5. ~raced' /\ Updates(n) => \A d \in Command \ {c} : ~Updates(cmd[d])
    BY <1>1 DEF Updates, Updating
  <1>6. (Torn' <=> Torn) /\ ~Restoring(cmd[c]) /\ (~raced' => ~raced)
    BY <1>1, QuietType DEF Torn
  <1> QED
    BY <1>1, <1>3, <1>4, <1>5, <1>6, ProcessStep

LEMMA BeginsStep ==
  ASSUME InstallInv, NEW c \in Command
  PROVE  /\ Apply(c) => InstallInv' /\ toon' = toon
         /\ Resume(c) => InstallInv' /\ toon' = toon
         /\ SessionStart(c) => InstallInv' /\ toon' = toon
         /\ Rollback(c) => InstallInv' /\ toon' = toon
  <1>a. toon \in Envelope \cup {Absent} /\ manifest \subseteq Version /\ disk \in [File -> Version]
        /\ snapshot \in Version \cup {None} /\ None \notin Version /\ PluginJson \in File
    BY Kinds DEF InstallInv, InstallTypeOK
  <1>1. ASSUME NEW to \in Version, NEW chan \in Channel, NEW pinned \in BOOLEAN, NEW op \in {"apply", "resume"},
               toon # Absent, op = "resume" => toon.up \notin {NoMarker, Failed} /\ toon.up.to = to,
               Begin(c, Update(op, to, chan, pinned))
        PROVE  InstallInv' /\ toon' = toon
    <2>1. PICK n : n = Update(op, to, chan, pinned)
      OBVIOUS
    <2>2. PICK pc \in {"pin", "mark"} : n = Process(pc, op, to, None, chan, {})
      BY <2>1 DEF Update
    <2>3. n \in Commands /\ n.pc = pc /\ n.op = op /\ n.to = to /\ n.read = FALSE
      BY <2>2 DEF Process, Commands, Helper
    <2>4. Role(n) /\ Marks(n)
      BY <1>1, <2>3 DEF Role, Marks
    <2> QED
      BY <1>1, <2>1, <2>3, <2>4, BeginStep
  <1>2. ASSUME Apply(c)
        PROVE  InstallInv' /\ toon' = toon
    <2>1. toon # Absent /\ toon.ver \in Version
      BY <1>2, <1>a DEF Apply, Envelope
    <2>2. (IF manifest = {} THEN toon.ver ELSE Latest(manifest)) \in Version
      BY <1>a, <2>1, LatestIsOne
    <2> QED
      BY <1>1, <1>2, <2>1, <2>2 DEF Apply
  <1>3. ASSUME Resume(c)
        PROVE  InstallInv' /\ toon' = toon
    <2>1. toon # Absent /\ toon.chan \in Channel /\ toon.up \notin {NoMarker, Failed}
      BY <1>3, <1>a DEF Resume, Envelope
    <2>2. CASE toon.up.to \in manifest
      BY <1>1, <1>3, <1>a, <2>1, <2>2 DEF Resume
    <2>3. CASE toon.up.to \notin manifest
      <3>1. PICK n : n = Process("fail", "resume", None, None, "curl", {})
        OBVIOUS
      <3>2. n \in Commands /\ n.pc = "fail" /\ n.op = "resume" /\ n.read = FALSE
        BY <3>1 DEF Process, Commands, Helper, Channel
      <3>3. Role(n) /\ Marks(n)
        BY <2>1, <3>2 DEF Role, Marks
      <3> QED
        BY <1>3, <2>3, <3>1, <3>2, <3>3, BeginStep DEF Resume
    <2> QED
      BY <2>2, <2>3
  <1>4. ASSUME SessionStart(c)
        PROVE  InstallInv' /\ toon' = toon
    <2>1. PICK n : n = Process("bump", "session", disk[PluginJson], None, "curl", {})
      OBVIOUS
    <2>2. n \in Commands /\ n.pc = "bump" /\ n.op = "session" /\ n.read = FALSE /\ n.to \in Version
      BY <1>a, <2>1 DEF Process, Commands, Helper, Channel
    <2>3. Role(n) /\ Marks(n)
      BY <2>2 DEF Role, Marks
    <2> QED
      BY <1>4, <2>1, <2>2, <2>3, BeginStep DEF SessionStart
  <1>5. ASSUME Rollback(c)
        PROVE  InstallInv' /\ toon' = toon
    <2>1. PICK n : n = Process("rename", "rollback", snapshot, None, "curl", File)
      OBVIOUS
    <2>2. snapshot \in Version
      BY <1>5, <1>a DEF Rollback
    <2>3. n \in Commands /\ n.pc = "rename" /\ n.op = "rollback" /\ n.read = FALSE /\ n.to \in Version /\ n.left = File
      BY <2>1, <2>2 DEF Process, Commands, Channel
    <2>4. Role(n) /\ Marks(n)
      BY <2>3 DEF Role, Marks
    <2> QED
      BY <1>5, <2>1, <2>3, <2>4, BeginStep DEF Rollback
  <1> QED
    BY <1>2, <1>3, <1>4, <1>5

(* The process at hand, and what the update that runs knows. *)
LEMMA ProcessFacts ==
  ASSUME InstallInv, NEW c \in Command
  PROVE  /\ cmd[c] \in Commands /\ Role(cmd[c])
         /\ cmd[c].to \in Version \cup {None} /\ cmd[c].put \in Version \cup {None} /\ cmd[c].chan \in Channel
         /\ cmd[c].left \in SUBSET File /\ cmd[c].read \in BOOLEAN /\ cmd[c].seen \in Envelope \cup {Absent}
         /\ toon \in Envelope \cup {Absent} /\ disk \in [File -> Version] /\ manifest \in SUBSET Version
         /\ ~raced => MarkInv /\ Marks(cmd[c])
  BY DEF InstallInv, InstallTypeOK, Commands, MarkInv

LEMMA ReadStep ==
  ASSUME InstallInv, NEW c \in Command, Read(c)
  PROVE  InstallInv' /\ toon' = toon
  <1>1. PICK r : r = cmd[c]
    OBVIOUS
  <1>2. r \in Commands /\ Role(r) /\ toon \in Envelope \cup {Absent} /\ r.pc \in Helper /\ (~raced => Marks(r))
    BY <1>1, ProcessFacts DEF Read
  <1> DEFINE half == [r EXCEPT !.read = TRUE]
  <1>3. cmd' = [cmd EXCEPT ![c] = [half EXCEPT !.seen = toon]]
        /\ UNCHANGED <<toon, disk, manifest, snapshot, commands, releases, raced, halfRestored>>
    BY <1>1, Zenon DEF Read
  <1>4. half \in Commands /\ half.pc = r.pc /\ half.op = r.op /\ half.to = r.to /\ half.left = r.left /\ half.put = r.put
        /\ half.chan = r.chan
    BY <1>2 DEF Commands
  <1> HIDE DEF half
  <1>5. PICK n : n = [half EXCEPT !.seen = toon]
    OBVIOUS
  <1>6. n \in Commands /\ n.pc = r.pc /\ n.op = r.op /\ n.to = r.to /\ n.left = r.left /\ n.put = r.put /\ n.seen = toon
        /\ n.chan = r.chan
    BY <1>2, <1>4, <1>5 DEF Commands
  <1>7. InstallTypeOK'
    BY <1>3, <1>5, <1>6 DEF InstallInv, InstallTypeOK
  <1>8. Role(n)'
    BY <1>2, <1>3, <1>6 DEF Role, Helper
  <1>9. ~raced => Marks(n)'
    BY <1>2, <1>3, <1>6 DEF Marks, Torn
  <1>10. (Updates(n) <=> Updates(cmd[c])) /\ (Torn' <=> Torn) /\ ~Restoring(cmd[c])
    BY <1>1, <1>2, <1>3, <1>6 DEF Updates, Restoring, Torn, Helper
  <1>11. cmd' = [cmd EXCEPT ![c] = n] /\ UNCHANGED <<toon, disk, raced, halfRestored>>
    BY <1>3, <1>5
  <1> QED
    BY <1>6, <1>7, <1>8, <1>9, <1>10, <1>11, ProcessStep

MarkerStep ==
    ~raced' /\ toon # Absent /\ toon'.up # toon.up =>
       (CASE toon'.up = NoMarker ->
               /\ toon.up # Failed /\ toon'.ver = toon.up.to
               /\ \E c \in Command : cmd[c].pc = "clear" /\ cmd[c].to = toon'.ver /\ Installed(c)
          [] toon'.up = Failed -> \E c \in Command : cmd[c].op = "resume"
          [] OTHER -> \E c \in Command :
                         /\ cmd[c].op \in {"apply", "resume"} /\ toon'.up.to = cmd[c].to
                         /\ cmd[c].op = "resume" => toon.up \notin {NoMarker, Failed} /\ toon.up.to = toon'.up.to)

(* What a helper that writes makes of the envelope. *)
LEMMA EditFacts ==
  ASSUME InstallInv, NEW c \in Command, NEW r, r = cmd[c], r.pc \in Helper, r.read, toon' \in Edits(c)
  PROVE  /\ toon' \in Envelope
         /\ r.pc = "pin" => toon'.up = r.seen.up
         /\ r.pc = "mark" => toon'.up = Marker(r.seen.ver, r.to)
         /\ r.pc = "clear" => toon'.up = NoMarker /\ toon'.ver = r.to
         /\ r.pc = "fail" => toon'.up = Failed
         /\ r.pc = "bump" /\ r.seen # Absent => toon'.up = r.seen.up
  <1>1. /\ r.seen \in Envelope \cup {Absent} /\ Role(r) /\ r.to \in Version \cup {None}
    BY ProcessFacts
  <1>2. CASE r.pc = "pin"
    <2>1. r.seen \in Envelope /\ r.to \in Version
      BY <1>1, <1>2 DEF Role
    <2>2. toon' = [r.seen EXCEPT !.pin = r.to]
      BY <1>2 DEF Edits
    <2> QED
      BY <1>2, <2>1, <2>2 DEF Envelope
  <1>3. CASE r.pc = "mark"
    <2>1. r.seen \in Envelope /\ r.to \in Version
      BY <1>1, <1>3 DEF Role
    <2>2. toon' = [r.seen EXCEPT !.up = Marker(r.seen.ver, r.to)]
      BY <1>3 DEF Edits
    <2>3. Marker(r.seen.ver, r.to) \in Markers
      BY <2>1, Kinds DEF Envelope
    <2> QED
      BY <1>3, <2>1, <2>2, <2>3 DEF Envelope
  <1>4. CASE r.pc = "clear"
    <2>1. r.seen \in Envelope /\ r.to \in Version
      BY <1>1, <1>4 DEF Role
    <2>2. toon' = [ver |-> r.to, chan |-> r.seen.chan, up |-> NoMarker, pin |-> r.seen.pin]
      BY <1>4 DEF Edits
    <2> QED
      BY <1>4, <2>1, <2>2, Kinds DEF Envelope
  <1>5. CASE r.pc = "fail"
    <2>1. r.seen \in Envelope
      BY <1>1, <1>5 DEF Role
    <2>2. toon' = [r.seen EXCEPT !.up = Failed]
      BY <1>5 DEF Edits
    <2> QED
      BY <1>5, <2>1, <2>2, Kinds DEF Envelope
  <1>6. CASE r.pc = "bump"
    <2>1. r.to \in Version
      BY <1>1, <1>6 DEF Role
    <2>2. CASE r.seen = Absent
      <3>1. PICK chan \in Channel : toon' = [ver |-> r.to, chan |-> chan, up |-> NoMarker, pin |-> None]
        BY <1>6, <2>2 DEF Edits, Fresh
      <3> QED
        BY <1>6, <2>1, <2>2, <3>1, Kinds DEF Envelope
    <2>3. CASE r.seen # Absent
      <3>1. toon' = [r.seen EXCEPT !.ver = r.to] /\ r.seen \in Envelope
        BY <1>1, <1>6, <2>3 DEF Edits
      <3> QED
        BY <1>6, <2>1, <2>3, <3>1 DEF Envelope
    <2> QED
      BY <2>2, <2>3
  <1> QED
    BY <1>2, <1>3, <1>4, <1>5, <1>6 DEF Helper

LEMMA AfterType ==
  ASSUME InstallInv, NEW c \in Command, cmd[c].pc \in Helper
  PROVE  LET n == After(c)
         IN  /\ n \in Commands /\ n.read = FALSE
             /\ cmd[c].pc = "pin" => n.pc = "mark" /\ n.op = cmd[c].op /\ n.to = cmd[c].to
             /\ cmd[c].pc = "mark" => /\ n.pc = "exec" /\ n.op = cmd[c].op /\ n.to = cmd[c].to
                                      /\ n.put \in Version /\ n.left = File /\ (n.chan = "curl" => n.put = n.to)
             /\ cmd[c].pc \notin {"pin", "mark"} => n = Quiet
  <1>0. PICK r : r = cmd[c]
    OBVIOUS
  <1>1. r \in Commands /\ Role(r) /\ r.op \in {"none", "apply", "resume", "rollback", "session"} /\ r.chan \in Channel
        /\ manifest \in SUBSET Version
    BY <1>0, ProcessFacts DEF Commands
  <1>2. CASE r.pc = "pin"
    <2>1. After(c) = Process("mark", r.op, r.to, None, r.chan, {}) /\ r.to \in Version
      BY <1>0, <1>1, <1>2 DEF After, Role
    <2> QED
      BY <1>0, <1>1, <1>2, <2>1 DEF Process, Commands, Helper
  <1>3. CASE r.pc = "mark"
    <2>1. After(c) = Process("exec", r.op, r.to, Placed(c), r.chan, File) /\ r.to \in Version
      BY <1>0, <1>1, <1>3 DEF After, Role
    <2>2. Placed(c) \in Version /\ (r.chan = "curl" => Placed(c) = r.to)
      BY <1>0, <1>1, <2>1, LatestIsOne DEF Placed
    <2> QED
      BY <1>0, <1>1, <1>3, <2>1, <2>2 DEF Process, Commands
  <1>4. CASE r.pc \notin {"pin", "mark"}
    <2>1. After(c) = Quiet
      BY <1>0, <1>4 DEF After
    <2>2. Quiet.read = FALSE
      BY DEF Quiet, Process
    <2> QED
      BY <1>0, <1>4, <2>1, <2>2, QuietType
  <1> QED
    BY <1>2, <1>3, <1>4

LEMMA WriteStep ==
  ASSUME InstallInv, NEW c \in Command, Write(c)
  PROVE  InstallInv' /\ MarkerStep
  <1>1. PICK r : r = cmd[c]
    OBVIOUS
  <1>2. PICK n : n = After(c)
    OBVIOUS
  <1>3. /\ r \in Commands /\ Role(r) /\ r.pc \in Helper /\ r.read /\ r.seen \in Envelope \cup {Absent}
        /\ toon \in Envelope \cup {Absent} /\ (~raced => MarkInv /\ Marks(r))
        /\ cmd' = [cmd EXCEPT ![c] = n]
        /\ UNCHANGED <<disk, manifest, snapshot, commands, releases, halfRestored>>
    BY <1>1, <1>2, ProcessFacts DEF Write
  <1>4. /\ n \in Commands /\ n.read = FALSE
        /\ r.pc = "pin" => n.pc = "mark" /\ n.op = r.op /\ n.to = r.to
        /\ r.pc = "mark" => n.pc = "exec" /\ n.op = r.op /\ n.to = r.to /\ n.put \in Version /\ n.left = File
                          /\ (n.chan = "curl" => n.put = n.to)
        /\ r.pc \notin {"pin", "mark"} => n = Quiet
    BY <1>1, <1>2, <1>3, AfterType
  <1>5. ~Restoring(r) /\ (Torn' <=> Torn)
    BY <1>3 DEF Restoring, Helper, Torn
  <1>6. CASE r.pc = "bump" /\ UNCHANGED <<toon, raced>>
    <2>1. InstallTypeOK'
      BY <1>3, <1>4, <1>6 DEF InstallInv, InstallTypeOK
    <2>2. n = Quiet /\ Role(n)' /\ Marks(n)' /\ ~Updates(n)
      BY <1>3, <1>4, <1>6, QuietType DEF Role, Marks
    <2>3. InstallInv'
      BY <1>1, <1>3, <1>4, <1>5, <1>6, <2>1, <2>2, ProcessStep
    <2> QED
      BY <1>6, <2>3 DEF MarkerStep
  <1>7. CASE toon' \in Edits(c) /\ raced' = (raced \/ r.seen # toon)
    <2>1. /\ toon' \in Envelope /\ toon' # Absent
          /\ r.pc = "pin" => toon'.up = r.seen.up
          /\ r.pc = "mark" => toon'.up = Marker(r.seen.ver, r.to)
          /\ r.pc = "clear" => toon'.up = NoMarker /\ toon'.ver = r.to
          /\ r.pc = "fail" => toon'.up = Failed
          /\ r.pc = "bump" /\ r.seen # Absent => toon'.up = r.seen.up
      BY <1>1, <1>3, <1>7, EditFacts, Kinds
    <2>2. raced' \in BOOLEAN /\ (~raced' => ~raced /\ r.seen = toon)
      BY <1>7
    <2>3. InstallTypeOK'
      BY <1>3, <1>4, <2>1, <2>2 DEF InstallInv, InstallTypeOK
    <2>4. cmd'[c] = n /\ \A d \in Command \ {c} : cmd'[d] = cmd[d]
      BY <1>3 DEF InstallInv, InstallTypeOK
    <2>5. Role(n)'
      BY <1>3, <1>4, <2>1, QuietType DEF Role, Helper
    <2>6. \A d \in Command : Role(cmd[d])'
      BY <2>1, <2>4, <2>5 DEF InstallInv, Role
    <2>7. ASSUME ~raced'
          PROVE  MarkInv' /\ MarkerStep
      <3>1. MarkInv /\ Marks(r) /\ r.seen = toon
        BY <1>3, <2>2, <2>7
      <3>2. Updates(n) => Updates(r)
        BY <1>3, <1>4, QuietType DEF Updates, Role, Helper
      <3>3. r.pc # "bump" => toon # Absent /\ Updates(r)
        BY <1>3, <3>1 DEF Role, Updates, Helper
      <3>4. Marks(n)'
        <4>1. CASE r.pc = "pin"
          BY <1>4, <2>1, <3>1, <4>1 DEF Marks
        <4>2. CASE r.pc = "mark"
          BY <1>4, <2>1, <3>1, <4>2, Kinds DEF Marks
        <4>3. CASE r.pc \notin {"pin", "mark"}
          BY <1>4, <4>3, QuietType DEF Marks
        <4> QED
          BY <4>1, <4>2, <4>3
      <3>5. ASSUME NEW d \in Command \ {c}
            PROVE  Marks(cmd[d])'
        <4>1. Marks(cmd[d]) /\ Role(cmd[d]) /\ cmd'[d] = cmd[d]
          BY <2>4, <3>1 DEF MarkInv, InstallInv
        <4>2. CASE Updates(r)
          <5>1. ~Updates(cmd[d])
            BY <1>1, <3>1, <4>2 DEF MarkInv
          <5> QED
            BY <4>1, <5>1 DEF Marks, Updates, Role
        <4>3. CASE ~Updates(r)
          <5>1. toon # Absent => toon'.up = toon.up
            BY <1>3, <2>1, <3>1, <3>3, <4>3
          <5> QED
            BY <1>3, <4>1, <5>1 DEF Marks, Role, Torn
        <4> QED
          BY <4>2, <4>3
      <3>6. \A d, e \in Command : Updates(cmd'[d]) /\ Updates(cmd'[e]) => d = e
        BY <1>1, <2>4, <3>1, <3>2 DEF MarkInv
      <3>7. ASSUME Torn', ~halfRestored'
            PROVE  toon'.up # NoMarker \/ \E d \in Command : Restoring(cmd'[d])
        <4>1. (toon # Absent /\ toon.up # NoMarker) \/ \E d \in Command : Restoring(cmd[d])
          BY <1>3, <1>5, <3>1, <3>7 DEF MarkInv
        <4>2. CASE \E d \in Command : Restoring(cmd[d])
          BY <1>1, <1>5, <2>4, <4>2
        <4>3. CASE toon # Absent /\ toon.up # NoMarker
          <5>0. (\A f \in File : disk[f] = r.put) => ~Torn
            BY DEF Torn
          <5>1. r.pc # "clear"
            BY <1>3, <1>5, <3>1, <3>7, <5>0 DEF Marks
          <5> QED
            BY <1>3, <2>1, <3>1, <4>3, <5>1, Kinds DEF Helper
        <4> QED
          BY <4>1, <4>2, <4>3
      <3>8. MarkInv'
        BY <2>1, <2>4, <3>4, <3>5, <3>6, <3>7 DEF MarkInv, Updates, Restoring
      <3>9. MarkerStep
        <4> SUFFICES ASSUME toon # Absent, toon'.up # toon.up
                     PROVE  CASE toon'.up = NoMarker ->
                                   /\ toon.up # Failed /\ toon'.ver = toon.up.to
                                   /\ \E b \in Command : cmd[b].pc = "clear" /\ cmd[b].to = toon'.ver /\ Installed(b)
                              [] toon'.up = Failed -> \E b \in Command : cmd[b].op = "resume"
                              [] OTHER -> \E b \in Command :
                                   /\ cmd[b].op \in {"apply", "resume"} /\ toon'.up.to = cmd[b].to
                                   /\ cmd[b].op = "resume" => toon.up \notin {NoMarker, Failed} /\ toon.up.to = toon'.up.to
          BY DEF MarkerStep
        <4>1. r.pc \in {"mark", "clear", "fail"}
          BY <1>3, <2>1, <3>1 DEF Helper
        <4>2. CASE r.pc = "mark"
          BY <1>1, <1>3, <2>1, <3>1, <4>2, Kinds DEF Marks, Role
        <4>3. CASE r.pc = "clear"
          <5>1. toon'.up = NoMarker /\ toon.up \notin {NoMarker, Failed} /\ toon'.ver = toon.up.to /\ toon'.ver = r.to
            BY <2>1, <3>1, <4>3 DEF Marks
          <5>2. Installed(c)
            BY <1>1, <3>1, <4>3 DEF Marks, Installed
          <5> QED
            BY <1>1, <4>3, <5>1, <5>2, Kinds
        <4>4. CASE r.pc = "fail"
          BY <1>1, <1>3, <2>1, <4>4, Kinds DEF Role
        <4> QED
          BY <4>1, <4>2, <4>3, <4>4
      <3> QED
        BY <3>8, <3>9
    <2> QED
      BY <2>3, <2>6, <2>7 DEF InstallInv, MarkerStep
  <1> QED
    BY <1>1, <1>6, <1>7 DEF Write

LEMMA PlaceStep ==
  ASSUME InstallInv, NEW c \in Command, Place(c)
  PROVE  InstallInv' /\ toon' = toon
  <1>1. PICK r : r = cmd[c]
    OBVIOUS
  <1>0. \E f \in cmd[c].left : /\ disk' = [disk EXCEPT ![f] = cmd[c].put]
                               /\ cmd' = [cmd EXCEPT ![c] = [cmd[c] EXCEPT !.left = cmd[c].left \ {f}]]
    BY Zenon DEF Place
  <1>2. PICK f \in r.left : /\ disk' = [disk EXCEPT ![f] = r.put]
                            /\ cmd' = [cmd EXCEPT ![c] = [r EXCEPT !.left = r.left \ {f}]]
    BY <1>0, <1>1, Zenon
  <1>3. /\ r \in Commands /\ Role(r) /\ r.left \in SUBSET File /\ r.pc = "exec" /\ disk \in [File -> Version]
        /\ (~raced => MarkInv /\ Marks(r))
        /\ UNCHANGED <<toon, manifest, snapshot, commands, releases, raced, halfRestored>>
    BY <1>1, ProcessFacts DEF Place
  <1>4. PICK n : n = [r EXCEPT !.left = r.left \ {f}]
    OBVIOUS
  <1>5. /\ n \in Commands /\ n.pc = "exec" /\ n.op = r.op /\ n.to = r.to /\ n.put = r.put /\ n.read = r.read
        /\ n.seen = r.seen /\ n.left = r.left \ {f} /\ n.chan = r.chan
    BY <1>3, <1>4 DEF Commands
  <1>6. r.put \in Version /\ toon # Absent /\ r.op \in {"apply", "resume"}
    BY <1>3 DEF Role
  <1>7. disk' \in [File -> Version]
    BY <1>2, <1>3, <1>6
  <1>8. InstallTypeOK'
    BY <1>2, <1>3, <1>4, <1>5, <1>7 DEF InstallInv, InstallTypeOK
  <1>9. Role(n)'
    BY <1>3, <1>5 DEF Role
  <1>10. ASSUME ~raced
         PROVE  Marks(n)' /\ toon.up # NoMarker
    <2>1. toon.up \notin {NoMarker, Failed} /\ toon.up.to = r.to /\ (r.chan = "curl" => r.put = r.to)
          /\ \A g \in File \ r.left : disk[g] = r.put
      BY <1>3, <1>10 DEF Marks
    <2>2. \A g \in File \ n.left : disk'[g] = n.put
      BY <1>2, <1>3, <1>5, <2>1
    <2> QED
      BY <1>3, <1>5, <2>1, <2>2 DEF Marks
  <1>11. Updates(cmd[c])
    BY <1>1, <1>6 DEF Updates
  <1>12. cmd' = [cmd EXCEPT ![c] = n]
    BY <1>2, <1>4
  <1> QED
    BY <1>3, <1>5, <1>6, <1>8, <1>9, <1>10, <1>11, <1>12, ProcessStep

LEMMA FallbackStep ==
  ASSUME InstallInv, NEW c \in Command, Fallback(c)
  PROVE  InstallInv' /\ toon' = toon
  <1>1. PICK r : r = cmd[c]
    OBVIOUS
  <1>2. PICK n : n = Process("exec", r.op, r.to, r.to, r.chan, File)
    OBVIOUS
  <1>3. /\ r \in Commands /\ Role(r) /\ r.chan \in Channel /\ r.pc = "exec"
        /\ (~raced => MarkInv /\ Marks(r))
        /\ cmd' = [cmd EXCEPT ![c] = n]
        /\ UNCHANGED <<toon, disk, manifest, snapshot, commands, releases, raced, halfRestored>>
    BY <1>1, <1>2, ProcessFacts DEF Fallback
  <1>4. r.to \in Version /\ toon # Absent /\ r.op \in {"apply", "resume"}
    BY <1>3 DEF Role
  <1>5. n \in Commands /\ n.pc = "exec" /\ n.op = r.op /\ n.to = r.to /\ n.put = r.to /\ n.read = FALSE /\ n.left = File
    BY <1>2, <1>3, <1>4 DEF Process, Commands
  <1>6. InstallTypeOK'
    BY <1>3, <1>5 DEF InstallInv, InstallTypeOK
  <1>7. Role(n)'
    BY <1>3, <1>4, <1>5 DEF Role
  <1>8. ~raced => Marks(n)' /\ toon.up # NoMarker
    BY <1>3, <1>5 DEF Marks
  <1>9. Updates(cmd[c])
    BY <1>1, <1>4 DEF Updates
  <1> QED
    BY <1>3, <1>4, <1>5, <1>6, <1>7, <1>8, <1>9, ProcessStep

LEMMA NothingFetchedStep ==
  ASSUME InstallInv, NEW c \in Command, NothingFetched(c)
  PROVE  InstallInv' /\ toon' = toon
  <1>1. PICK r : r = cmd[c]
    OBVIOUS
  <1>2. PICK n : n = Process("clear", r.op, r.to, None, r.chan, {})
    OBVIOUS
  <1>3. /\ r \in Commands /\ Role(r) /\ r.chan \in Channel /\ r.pc = "exec"
        /\ (~raced => MarkInv /\ Marks(r))
        /\ cmd' = [cmd EXCEPT ![c] = n]
        /\ halfRestored' = (halfRestored \/ Torn)
        /\ UNCHANGED <<toon, disk, manifest, snapshot, commands, releases, raced>>
    BY <1>1, <1>2, ProcessFacts DEF NothingFetched
  <1>4. r.to \in Version /\ toon # Absent /\ r.op \in {"apply", "resume"}
    BY <1>3 DEF Role
  <1>5. n \in Commands /\ n.pc = "clear" /\ n.op = r.op /\ n.to = r.to /\ n.put = None /\ n.read = FALSE
    BY <1>2, <1>3, <1>4 DEF Process, Commands, Helper
  <1>6. halfRestored' \in BOOLEAN
    BY <1>3
  <1>7. InstallTypeOK'
    BY <1>3, <1>5, <1>6 DEF InstallInv, InstallTypeOK
  <1>8. Role(n)'
    BY <1>3, <1>4, <1>5 DEF Role
  <1>9. Torn' => halfRestored'
    BY <1>3 DEF Torn
  <1>10. ~raced => Marks(n)' /\ toon.up # NoMarker
    BY <1>3, <1>5, <1>9 DEF Marks
  <1>11. Updates(cmd[c])
    BY <1>1, <1>4 DEF Updates
  <1> QED
    BY <1>3, <1>4, <1>5, <1>7, <1>8, <1>10, <1>11, ProcessStep

LEMMA Placed0Step ==
  ASSUME InstallInv, NEW c \in Command, Placed0(c)
  PROVE  InstallInv' /\ toon' = toon
  <1>1. PICK r : r = cmd[c]
    OBVIOUS
  <1>2. PICK n : n = [r EXCEPT !.pc = "clear"]
    OBVIOUS
  <1>3. /\ r \in Commands /\ Role(r) /\ r.pc = "exec" /\ r.left = {}
        /\ (~raced => MarkInv /\ Marks(r))
        /\ cmd' = [cmd EXCEPT ![c] = n]
        /\ halfRestored' = FALSE
        /\ UNCHANGED <<toon, disk, manifest, snapshot, commands, releases, raced>>
    BY <1>1, <1>2, ProcessFacts DEF Placed0
  <1>4. r.to \in Version /\ toon # Absent /\ r.op \in {"apply", "resume"}
    BY <1>3 DEF Role
  <1>5. n \in Commands /\ n.pc = "clear" /\ n.op = r.op /\ n.to = r.to /\ n.read = r.read /\ n.seen = r.seen
        /\ n.put = r.put /\ n.chan = r.chan
    BY <1>2, <1>3 DEF Commands, Helper
  <1>6. InstallTypeOK'
    BY <1>3, <1>5 DEF InstallInv, InstallTypeOK
  <1>7. Role(n)'
    BY <1>3, <1>4, <1>5 DEF Role
  <1>8. ASSUME ~raced
        PROVE  Marks(n)' /\ toon.up # NoMarker
    <2>1. toon.up \notin {NoMarker, Failed} /\ toon.up.to = r.to /\ (r.chan = "curl" => r.put = r.to)
          /\ \A f \in File : disk[f] = r.put
      BY <1>3, <1>8 DEF Marks
    <2>2. \A f \in File : disk'[f] = n.put
      BY <1>3, <1>5, <2>1
    <2> QED
      BY <1>3, <1>5, <2>1, <2>2 DEF Marks
  <1>9. Updates(cmd[c])
    BY <1>1, <1>4 DEF Updates
  <1> QED
    BY <1>3, <1>4, <1>5, <1>6, <1>7, <1>8, <1>9, ProcessStep

LEMMA PlaceFailsStep ==
  ASSUME InstallInv, NEW c \in Command, PlaceFails(c)
  PROVE  InstallInv' /\ toon' = toon
  <1>1. PICK r : r = cmd[c]
    OBVIOUS
  <1>2. PICK n : n = IF r.op = "resume" THEN Process("fail", "resume", None, None, "curl", {}) ELSE Quiet
    OBVIOUS
  <1>3. /\ r \in Commands /\ Role(r) /\ r.pc = "exec"
        /\ (~raced => MarkInv /\ Marks(r))
        /\ cmd' = [cmd EXCEPT ![c] = n]
        /\ UNCHANGED <<toon, disk, manifest, snapshot, commands, releases, raced, halfRestored>>
    BY <1>1, <1>2, ProcessFacts DEF PlaceFails
  <1>4. toon # Absent /\ r.op \in {"apply", "resume"}
    BY <1>3 DEF Role
  <1>5. n = Quiet \/ (n \in Commands /\ n.pc = "fail" /\ n.op = "resume" /\ n.read = FALSE)
    <2>1. n = Quiet \/ n = Process("fail", "resume", None, None, "curl", {})
      BY <1>2
    <2>2. LET q == Process("fail", "resume", None, None, "curl", {})
          IN  q \in Commands /\ q.pc = "fail" /\ q.op = "resume" /\ q.read = FALSE
      BY DEF Process, Commands, Helper, Channel
    <2> QED
      BY <2>1, <2>2
  <1>6. n \in Commands /\ Role(n)' /\ Marks(n)'
    <2>1. CASE n = Quiet
      BY <2>1, QuietType DEF Role, Marks
    <2>2. CASE n \in Commands /\ n.pc = "fail" /\ n.op = "resume" /\ n.read = FALSE
      BY <1>3, <1>4, <2>2 DEF Role, Marks
    <2> QED
      BY <1>5, <2>1, <2>2
  <1>7. InstallTypeOK'
    BY <1>3, <1>6 DEF InstallInv, InstallTypeOK
  <1>8. ~raced => toon.up # NoMarker
    BY <1>3 DEF Marks
  <1>9. Updates(cmd[c])
    BY <1>1, <1>4 DEF Updates
  <1> QED
    BY <1>3, <1>4, <1>6, <1>7, <1>8, <1>9, ProcessStep

LEMMA RenameStep ==
  ASSUME InstallInv, NEW c \in Command, Rename(c)
  PROVE  InstallInv' /\ toon' = toon
  <1>1. PICK r : r = cmd[c]
    OBVIOUS
  <1>0. \E f \in cmd[c].left :
            /\ disk' = [disk EXCEPT ![f] = cmd[c].to]
            /\ cmd' = [cmd EXCEPT ![c] = IF cmd[c].left = {f} THEN Quiet ELSE [cmd[c] EXCEPT !.left = cmd[c].left \ {f}]]
            /\ halfRestored' = (halfRestored /\ cmd[c].left # {f})
    BY Zenon DEF Rename
  <1>2. PICK f \in r.left :
            /\ disk' = [disk EXCEPT ![f] = r.to]
            /\ cmd' = [cmd EXCEPT ![c] = IF r.left = {f} THEN Quiet ELSE [r EXCEPT !.left = r.left \ {f}]]
            /\ halfRestored' = (halfRestored /\ r.left # {f})
    BY <1>0, <1>1, Zenon
  <1>3. /\ r \in Commands /\ Role(r) /\ r.left \in SUBSET File /\ r.pc = "rename" /\ disk \in [File -> Version]
        /\ (~raced => MarkInv /\ Marks(r))
        /\ UNCHANGED <<toon, manifest, snapshot, commands, releases, raced>>
    BY <1>1, ProcessFacts DEF Rename
  <1>4. PICK n : n = IF r.left = {f} THEN Quiet ELSE [r EXCEPT !.left = r.left \ {f}]
    OBVIOUS
  <1>5. r.left # {f} => /\ n \in Commands /\ n.pc = "rename" /\ n.op = r.op /\ n.to = r.to /\ n.read = r.read
                        /\ n.seen = r.seen /\ n.left = r.left \ {f}
    BY <1>3, <1>4 DEF Commands
  <1>6. r.to \in Version /\ r.op = "rollback"
    BY <1>3 DEF Role
  <1>7. disk' \in [File -> Version] /\ halfRestored' \in BOOLEAN
    BY <1>2, <1>3, <1>6
  <1>8. n \in Commands /\ Role(n)'
    <2>1. CASE r.left = {f}
      BY <1>4, <2>1, QuietType DEF Role
    <2>2. CASE r.left # {f}
      BY <1>3, <1>5, <2>2 DEF Role
    <2> QED
      BY <2>1, <2>2
  <1>9. cmd' = [cmd EXCEPT ![c] = n]
    BY <1>2, <1>4
  <1>10. InstallTypeOK'
    BY <1>3, <1>7, <1>8, <1>9 DEF InstallInv, InstallTypeOK
  <1>11. ASSUME ~raced
         PROVE  Marks(n)' /\ (Torn' => Restoring(n))
    <2>1. \A g \in File \ (r.left \ {f}) : disk'[g] = r.to
      BY <1>2, <1>3, <1>11 DEF Marks
    <2>2. CASE r.left = {f}
      <3>1. ~Torn'
        BY <2>1, <2>2 DEF Torn
      <3> QED
        BY <1>4, <2>2, <3>1, QuietType DEF Marks
    <2>3. CASE r.left # {f}
      <3>1. n.left # File
        BY <1>2, <1>3, <1>5, <2>3
      <3> QED
        BY <1>5, <2>1, <2>3, <3>1 DEF Marks, Restoring
    <2> QED
      BY <2>2, <2>3
  <1>12. Updates(cmd[c])
    BY <1>1, <1>6 DEF Updates
  <1> QED
    BY <1>3, <1>8, <1>9, <1>10, <1>11, <1>12, ProcessStep

LEMMA StopsStep ==
  ASSUME InstallInv, NEW c \in Command, Stops(c)
  PROVE  InstallInv' /\ toon' = toon
  <1>1. /\ cmd' = [cmd EXCEPT ![c] = Quiet]
        /\ halfRestored' = (halfRestored \/ (cmd[c].pc = "rename" /\ cmd[c].left # File))
        /\ UNCHANGED <<toon, disk, manifest, snapshot, commands, releases, raced>>
    BY DEF Stops
  <1>2. halfRestored' \in BOOLEAN
    BY <1>1 DEF InstallInv, InstallTypeOK
  <1>3. InstallTypeOK'
    BY <1>1, <1>2, QuietType DEF InstallInv, InstallTypeOK
  <1>4. Role(Quiet)' /\ Marks(Quiet)'
    BY QuietType DEF Role, Marks, Quiet, Process
  <1>5. ~halfRestored' => ~halfRestored /\ ~Restoring(cmd[c])
    BY <1>1 DEF Restoring
  <1>6. Torn' <=> Torn
    BY <1>1 DEF Torn
  <1> QED
    BY <1>1, <1>3, <1>4, <1>5, <1>6, QuietType, ProcessStep

LEMMA ReleaseStep ==
  ASSUME InstallInv, Release \/ UNCHANGED installVars
  PROVE  InstallInv' /\ toon' = toon
  <1>1. /\ UNCHANGED <<toon, disk, snapshot, cmd, commands, raced, halfRestored>>
        /\ manifest' \subseteq Version /\ releases' \in 0..MaxReleases
    <2>1. CASE Release
      BY <2>1, InstallAssumption DEF Release, InstallInv, InstallTypeOK
    <2>2. CASE UNCHANGED installVars
      BY <2>2 DEF installVars, InstallInv, InstallTypeOK
    <2> QED
      BY <2>1, <2>2
  <1>2. InstallTypeOK'
    BY <1>1 DEF InstallInv, InstallTypeOK
  <1>3. \A c \in Command : Role(cmd[c])'
    BY <1>1 DEF InstallInv, Role
  <1>4. MarkInv => MarkInv'
    BY <1>1 DEF MarkInv, Marks, Torn, Updates, Restoring
  <1> QED
    BY <1>1, <1>2, <1>3, <1>4 DEF InstallInv

LEMMA InstallStep == InstallInv /\ [InstallNext]_installVars => InstallInv' /\ MarkerStep
  <1> SUFFICES ASSUME InstallInv, [InstallNext]_installVars
               PROVE  InstallInv' /\ MarkerStep
    OBVIOUS
  <1>1. toon' = toon => MarkerStep
    BY DEF MarkerStep
  <1>2. CASE Release \/ UNCHANGED installVars
    BY <1>1, <1>2, ReleaseStep
  <1>3. ASSUME NEW c \in Command,
               \/ Apply(c) \/ Resume(c) \/ SessionStart(c) \/ Rollback(c)
               \/ Read(c) \/ Write(c)
               \/ Place(c) \/ Fallback(c) \/ NothingFetched(c) \/ Placed0(c) \/ PlaceFails(c)
               \/ Rename(c) \/ RenameFails(c) \/ CommandKilled(c)
        PROVE  InstallInv' /\ MarkerStep
    <2>1. CASE Write(c)
      BY <2>1, WriteStep
    <2>2. CASE Apply(c) \/ Resume(c) \/ SessionStart(c) \/ Rollback(c)
      BY <1>1, <2>2, BeginsStep
    <2>3. CASE Read(c)
      BY <1>1, <2>3, ReadStep
    <2>4. CASE Place(c)
      BY <1>1, <2>4, PlaceStep
    <2>5. CASE Fallback(c)
      BY <1>1, <2>5, FallbackStep
    <2>6. CASE Placed0(c)
      BY <1>1, <2>6, Placed0Step
    <2>7. CASE PlaceFails(c)
      BY <1>1, <2>7, PlaceFailsStep
    <2>8. CASE Rename(c)
      BY <1>1, <2>8, RenameStep
    <2>9. CASE RenameFails(c) \/ CommandKilled(c)
      BY <1>1, <2>9, StopsStep DEF RenameFails, CommandKilled
    <2>10. CASE NothingFetched(c)
      BY <1>1, <2>10, NothingFetchedStep
    <2> QED
      BY <1>3, <2>1, <2>2, <2>3, <2>4, <2>5, <2>6, <2>7, <2>8, <2>9, <2>10
  <1> QED
    BY <1>2, <1>3 DEF InstallNext

LEMMA InstallAlways == InstallSpec => []InstallInv
  <1>1. InstallInv /\ [InstallNext]_installVars => InstallInv'
    BY InstallStep
  <1> QED
    BY <1>1, InstallStarts, PTL DEF InstallSpec

(* The state of the installation and of every process is well-formed, and  *)
(* a process holds the targets its kind of command needs.                  *)
THEOREM InstallTypeCorrect == InstallSpec => []InstallTypeOK
  <1>1. InstallInv => InstallTypeOK
    BY DEF InstallInv
  <1> QED
    BY <1>1, InstallAlways, PTL

(* Files of more than one version are never on disk unannounced, whatever  *)
(* crashes, fails, is retried or released meanwhile, for any number of     *)
(* files, versions and processes: only overlapping updates, a lost edit of *)
(* the envelope, a half restore, and a success reported for a script that  *)
(* was never fetched break it.                                             *)
THEOREM InstallTornIsMarked == InstallSpec => []TornIsMarked
  <1>1. InstallInv => TornIsMarked
    BY DEF InstallInv, MarkInv, TornIsMarked, Restoring
  <1> QED
    BY <1>1, InstallAlways, PTL

(* How a marker ends, for any number of processes: an update's marker goes *)
(* only by an update to the version it names, which is then recorded; if   *)
(* its installer came to run the files are all of the version it placed,   *)
(* on the curl channel of the recorded one.  "failed" is set by a resume   *)
(* and goes with a new apply.                                              *)
THEOREM InstallMarkerProtocol == InstallSpec => MarkerProtocol
  <1>1. InstallInv /\ [InstallNext]_installVars => [MarkerStep]_installVars
    BY InstallStep
  <1> QED
    BY <1>1, InstallAlways, PTL DEF InstallSpec, MarkerProtocol, MarkerStep

-----------------------------------------------------------------------------
(***************************************************************************)
(* The version slots: refresh, reserve, release                            *)
(***************************************************************************)

(* A process does what its kind of command does, and every command but a   *)

(* A worktree that is on its branch has it; a command knows its version, and  *)
(* a reserve that got so far saw it free; a reservation's row is its owner's. *)
SlotInv ==
    /\ SlotTypeOK
    /\ \A w \in Worktree :
          /\ tree[w] = "live" => branchHere[w]
          /\ slotCmd[w].pc # "idle" /\ slotCmd[w].op # "scan" => slotCmd[w].ver \in SlotVersion
          /\ slotCmd[w].pc = "refreshed" => slotCmd[w].op # "scan"
          /\ slotCmd[w].pc = "refreshed" /\ slotCmd[w].op = "reserve" => ~IsClaimed(slotCmd[w].reg, w, slotCmd[w].ver)
    /\ ~slotStale => \A g \in granted :
          /\ slots[g[2]] # NoSlot /\ slots[g[2]].at = g[1]
          /\ slots[g[2]].branch # "unknown" => slots[g[2]].branch = BranchOf[g[1]] /\ branchHere[g[1]]

SlotRunning == [pc : {"read", "refreshed"}, op : {"scan", "reserve", "release"}, ver : SlotVersion \cup {0}, reg : Registry]

LEMMA SlotCommandFacts ==
  ASSUME SlotInv, NEW w \in Worktree, slotCmd[w].pc # "idle"
  PROVE  /\ slotCmd[w].pc \in {"read", "refreshed"} /\ slotCmd[w].op \in {"scan", "reserve", "release"}
         /\ slotCmd[w].ver \in SlotVersion \cup {0} /\ slotCmd[w].reg \in Registry /\ slotCmd[w] \in SlotRunning
         /\ slotCmd[w].op # "scan" => slotCmd[w].ver \in SlotVersion
         /\ slotCmd[w].pc = "refreshed" => slotCmd[w].op # "scan"
         /\ slotCmd[w].pc = "refreshed" /\ slotCmd[w].op = "reserve" => ~IsClaimed(slotCmd[w].reg, w, slotCmd[w].ver)
  <1>1. slotCmd[w] = NoCommand \/ slotCmd[w] \in SlotRunning
    BY DEF SlotInv, SlotTypeOK, SlotRunning
  <1>2. slotCmd[w] \in SlotRunning
    BY <1>1 DEF NoCommand
  <1> QED
    BY <1>2 DEF SlotInv, SlotRunning

LEMMA SlotOfIsSlot ==
  ASSUME NEW w \in Worktree, NEW branch \in {BranchOf[s] : s \in Worktree} \cup {"unknown"}
  PROVE  LET row == [branch |-> branch, at |-> w]
         IN  row \in Slot /\ row # NoSlot /\ row.at = w /\ row.branch = branch
  <1>1. w # 0
    BY SlotAssumption
  <1> QED
    BY <1>1 DEF Slot, NoSlot

LEMMA RefreshedType ==
  ASSUME NEW w \in Worktree, NEW reg \in Registry
  PROVE  Refreshed(w, reg) \in Registry
  <1>1. ASSUME NEW k \in Key
        PROVE  Refreshed(w, reg)[k] \in Slot
    <2> DEFINE found == {s \in Siblings(w) : <<DirName[w], ships[s]>> = k}
    <2>1. Refreshed(w, reg)[k] =
             IF found # {} THEN [branch |-> BranchOf[LastOf(found)], at |-> LastOf(found)]
             ELSE IF reg[k] # NoSlot /\ BranchExists(w, reg[k].branch) THEN reg[k]
             ELSE NoSlot
      BY DEF Refreshed
    <2>2. found \in SUBSET Worktree /\ reg[k] \in Slot /\ NoSlot \in Slot
      BY DEF Siblings, Registry, Slot
    <2> HIDE DEF found
    <2>3. ASSUME found # {}
          PROVE  LastOf(found) \in Worktree
      <3>1. PICK last \in Nat : \A i \in found : i <= last
        BY <2>2, SlotAssumption
      <3>2. found \in SUBSET Nat
        BY <2>2, SlotAssumption
      <3>3. \E m \in found : \A i \in found : i <= m
        BY <2>3, <3>1, <3>2, GreatestExists
      <3> QED
        BY <2>2, <3>3 DEF LastOf
    <2> QED
      BY <2>1, <2>2, <2>3, SlotOfIsSlot
  <1>2. Refreshed(w, reg) = [k \in Key |-> Refreshed(w, reg)[k]]
    BY DEF Refreshed
  <1> QED
    BY <1>1, <1>2 DEF Registry

LEMMA SlotStarts == SlotInit => SlotInv
  <1> SUFFICES ASSUME SlotInit
               PROVE  SlotInv
    OBVIOUS
  <1>1. slots \in Registry
    BY DEF SlotInit, Registry, Slot
  <1>2. /\ tree \in [Worktree -> {"live", "detached", "gone"}]
        /\ branchHere \in [Worktree -> BOOLEAN]
        /\ ships \in [Worktree -> SlotVersion \cup {0}]
        /\ granted = {} /\ \A w \in Worktree : slotCmd[w] = NoCommand /\ branchHere[w]
    BY DEF SlotInit
  <1>3. slotCmd \in [Worktree -> {NoCommand} \cup SlotRunning]
    BY DEF SlotInit
  <1>4. slotEvents \in 0..MaxSlotEvents
    BY SlotAssumption, 0 \in 0..MaxSlotEvents DEF SlotInit
  <1>5. slotStale \in BOOLEAN
    BY DEF SlotInit
  <1>6. SlotTypeOK
    BY <1>1, <1>2, <1>3, <1>4, <1>5 DEF SlotTypeOK, SlotRunning
  <1>7. NoCommand.pc = "idle"
    BY DEF NoCommand
  <1> QED
    BY <1>2, <1>6, <1>7 DEF SlotInv

(* What a command does next, as far as it concerns the others. *)
LEMMA SlotCommandStep ==
  ASSUME SlotInv, NEW w \in Worktree, NEW n \in {NoCommand} \cup SlotRunning,
         slotCmd' = [slotCmd EXCEPT ![w] = n],
         n # NoCommand =>
            /\ n.op # "scan" => n.ver \in SlotVersion
            /\ n.pc = "refreshed" => n.op # "scan"
            /\ n.pc = "refreshed" /\ n.op = "reserve" => ~IsClaimed(n.reg, w, n.ver),
         UNCHANGED <<tree, branchHere, ships>>,
         slots' \in Registry, slotEvents' \in 0..MaxSlotEvents, granted' \subseteq Worktree \X Key, slotStale' \in BOOLEAN,
         ~slotStale' => \A g \in granted' :
            /\ slots'[g[2]] # NoSlot /\ slots'[g[2]].at = g[1]
            /\ slots'[g[2]].branch # "unknown" => slots'[g[2]].branch = BranchOf[g[1]] /\ branchHere[g[1]]
  PROVE  SlotInv'
  <1>1. slotCmd'[w] = n /\ slotCmd' \in [Worktree -> {NoCommand} \cup SlotRunning]
        /\ \A s \in Worktree \ {w} : slotCmd'[s] = slotCmd[s]
    BY DEF SlotInv, SlotTypeOK, SlotRunning
  <1>2. SlotTypeOK'
    BY <1>1 DEF SlotInv, SlotTypeOK, SlotRunning
  <1>3. ASSUME NEW s \in Worktree
        PROVE  /\ (tree[s] = "live" => branchHere[s])'
               /\ (slotCmd[s].pc # "idle" /\ slotCmd[s].op # "scan" => slotCmd[s].ver \in SlotVersion)'
               /\ (slotCmd[s].pc = "refreshed" => slotCmd[s].op # "scan")'
               /\ (slotCmd[s].pc = "refreshed" /\ slotCmd[s].op = "reserve" => ~IsClaimed(slotCmd[s].reg, s, slotCmd[s].ver))'
    <2>1. CASE s # w
      BY <1>1, <2>1 DEF SlotInv, IsClaimed
    <2>2. CASE s = w
      <3>1. tree[s] = "live" => branchHere[s]
        BY DEF SlotInv
      <3>2. NoCommand.pc = "idle"
        BY DEF NoCommand
      <3> QED
        BY <1>1, <2>2, <3>1, <3>2 DEF IsClaimed
    <2> QED
      BY <2>1, <2>2
  <1> QED
    BY <1>2, <1>3 DEF SlotInv

LEMMA SlotReadStep ==
  ASSUME SlotInv, NEW w \in Worktree, SlotRead(w)
  PROVE  SlotInv'
  <1>1. PICK op \in {"scan", "reserve", "release"}, v \in SlotVersion :
           slotCmd' = [slotCmd EXCEPT ![w] = [pc |-> "read", op |-> op, ver |-> IF op = "scan" THEN 0 ELSE v, reg |-> slots]]
    BY DEF SlotRead
  <1>2. PICK n : n = [pc |-> "read", op |-> op, ver |-> IF op = "scan" THEN 0 ELSE v, reg |-> slots]
    OBVIOUS
  <1>3. /\ UNCHANGED <<slots, tree, branchHere, ships, granted, slotStale>> /\ slotEvents' \in 0..MaxSlotEvents
        /\ slots \in Registry /\ granted \subseteq Worktree \X Key /\ slotStale \in BOOLEAN
    BY SlotAssumption DEF SlotRead, SlotEvent, SlotInv, SlotTypeOK
  <1>4. n \in SlotRunning /\ n.pc = "read" /\ (n.op # "scan" => n.ver \in SlotVersion)
    BY <1>2, <1>3 DEF SlotRunning
  <1>5. slotCmd' = [slotCmd EXCEPT ![w] = n]
    BY <1>1, <1>2
  <1> QED
    BY <1>3, <1>4, <1>5, SlotCommandStep DEF SlotInv

LEMMA SlotRefreshStep ==
  ASSUME SlotInv, NEW w \in Worktree, SlotRefresh(w)
  PROVE  SlotInv'
  <1>1. PICK c : c = slotCmd[w]
    OBVIOUS
  <1>2. PICK reg : reg = Refreshed(w, c.reg)
    OBVIOUS
  <1>3. PICK n : n = IF c.op = "scan" \/ (c.op = "reserve" /\ IsClaimed(reg, w, c.ver))
                     THEN NoCommand ELSE [pc |-> "refreshed", op |-> c.op, ver |-> c.ver, reg |-> reg]
    OBVIOUS
  <1>4. /\ c.pc = "read" /\ slots' = reg /\ slotStale' = (slotStale \/ slots # c.reg)
        /\ granted' = granted \ Voided(w)
        /\ slotCmd' = [slotCmd EXCEPT ![w] = n]
        /\ UNCHANGED <<tree, branchHere, ships, slotEvents>>
    BY <1>1, <1>2, <1>3 DEF SlotRefresh
  <1>5. /\ c.op \in {"scan", "reserve", "release"} /\ c.ver \in SlotVersion \cup {0} /\ c.reg \in Registry
        /\ c.op # "scan" => c.ver \in SlotVersion
    BY <1>1, <1>4, SlotCommandFacts
  <1>6. reg \in Registry
    BY <1>2, <1>5, RefreshedType
  <1>7. /\ n \in {NoCommand} \cup SlotRunning
        /\ n # NoCommand => /\ n.op # "scan" /\ n.ver \in SlotVersion
                            /\ n.op = "reserve" => ~IsClaimed(n.reg, w, n.ver)
    BY <1>3, <1>5, <1>6 DEF SlotRunning
  <1>8. /\ granted' \subseteq Worktree \X Key /\ slotEvents' \in 0..MaxSlotEvents /\ slotStale' \in BOOLEAN
    BY <1>4 DEF SlotInv, SlotTypeOK
  <1>9. ASSUME ~slotStale', NEW g \in granted'
        PROVE  /\ slots'[g[2]] # NoSlot /\ slots'[g[2]].at = g[1]
               /\ slots'[g[2]].branch # "unknown" => slots'[g[2]].branch = BranchOf[g[1]] /\ branchHere[g[1]]
    <2>1. ~slotStale /\ slots = c.reg /\ g \in granted /\ g \notin Voided(w)
      BY <1>4, <1>9
    <2>2. PICK k : k = g[2]
      OBVIOUS
    <2>3. PICK v : v = g[1]
      OBVIOUS
    <2>4. /\ slots[k] # NoSlot /\ slots[k].at = v
          /\ slots[k].branch # "unknown" => slots[k].branch = BranchOf[v] /\ branchHere[v]
          /\ k \in Key /\ v \in Worktree
      BY <2>1, <2>2, <2>3 DEF SlotInv, SlotTypeOK
    <2>5. /\ RepoOf[v] = RepoOf[w] /\ slots[k].branch # "unknown"
          /\ \A s \in Siblings(w) : k # <<DirName[w], ships[s]>>
      BY <2>1, <2>2, <2>3 DEF Voided
    <2>6. BranchExists(w, slots[k].branch)
      BY <2>4, <2>5 DEF BranchExists
    <2>7. {s \in Siblings(w) : <<DirName[w], ships[s]>> = k} = {}
      BY <2>5
    <2>8. reg[k] = slots[k]
      BY <1>2, <2>1, <2>4, <2>6, <2>7 DEF Refreshed
    <2> QED
      BY <1>4, <2>2, <2>3, <2>4, <2>8
  <1> QED
    BY <1>4, <1>6, <1>7, <1>8, <1>9, SlotCommandStep

LEMMA ReserveStep ==
  ASSUME SlotInv, NEW w \in Worktree, Reserve(w)
  PROVE  SlotInv'
  <1>1. PICK c : c = slotCmd[w]
    OBVIOUS
  <1>2. PICK k : k = <<DirName[w], c.ver>>
    OBVIOUS
  <1>3. /\ c.pc = "refreshed" /\ c.op = "reserve"
        /\ slots' = [c.reg EXCEPT ![k] = OwnSlot(w)]
        /\ slotStale' = (slotStale \/ slots # c.reg)
        /\ granted' = granted \cup {<<w, k>>}
        /\ slotCmd' = [slotCmd EXCEPT ![w] = NoCommand]
        /\ UNCHANGED <<tree, branchHere, ships, slotEvents>>
    BY <1>1, <1>2 DEF Reserve
  <1>4. c.ver \in SlotVersion /\ c.reg \in Registry /\ c.reg[k] = NoSlot
    <2>1. c.pc # "idle"
      BY <1>3
    <2> QED
      BY <1>1, <1>2, <1>3, <2>1, SlotCommandFacts DEF IsClaimed
  <1>5. k \in Key
    BY <1>2, <1>4 DEF Key
  <1>6. PICK row : row = OwnSlot(w)
    OBVIOUS
  <1>7. /\ row \in Slot /\ row # NoSlot /\ row.at = w
        /\ row.branch # "unknown" => row.branch = BranchOf[w] /\ branchHere[w]
    <2>1. row = [branch |-> IF tree[w] = "live" THEN BranchOf[w] ELSE "unknown", at |-> w]
      BY <1>6 DEF OwnSlot
    <2>2. tree[w] = "live" => branchHere[w]
      BY DEF SlotInv
    <2>3. CASE tree[w] = "live"
      BY <2>1, <2>2, <2>3, SlotOfIsSlot
    <2>4. CASE tree[w] # "live"
      BY <2>1, <2>4, SlotOfIsSlot
    <2> QED
      BY <2>3, <2>4
  <1>8. slots' \in Registry /\ slots'[k] = row /\ \A j \in Key \ {k} : slots'[j] = c.reg[j]
    BY <1>3, <1>4, <1>5, <1>6, <1>7 DEF Registry
  <1>9. granted' \subseteq Worktree \X Key /\ slotEvents' \in 0..MaxSlotEvents /\ slotStale' \in BOOLEAN
    BY <1>3, <1>5 DEF SlotInv, SlotTypeOK
  <1>10. ASSUME ~slotStale', NEW g \in granted'
         PROVE  /\ slots'[g[2]] # NoSlot /\ slots'[g[2]].at = g[1]
                /\ slots'[g[2]].branch # "unknown" => slots'[g[2]].branch = BranchOf[g[1]] /\ branchHere[g[1]]
    <2>1. CASE g = <<w, k>>
      BY <1>7, <1>8, <2>1
    <2>2. CASE g # <<w, k>>
      <3>1. ~slotStale /\ slots = c.reg /\ g \in granted
        BY <1>3, <1>10, <2>2
      <3>2. /\ slots[g[2]] # NoSlot /\ slots[g[2]].at = g[1] /\ g[2] \in Key
            /\ slots[g[2]].branch # "unknown" => slots[g[2]].branch = BranchOf[g[1]] /\ branchHere[g[1]]
        BY <3>1 DEF SlotInv, SlotTypeOK
      <3>3. g[2] # k
        BY <1>4, <3>1, <3>2
      <3> QED
        BY <1>8, <3>1, <3>2, <3>3
    <2> QED
      BY <2>1, <2>2
  <1> QED
    BY <1>3, <1>8, <1>9, <1>10, SlotCommandStep

LEMMA ReleaseSlotStep ==
  ASSUME SlotInv, NEW w \in Worktree, ReleaseSlot(w)
  PROVE  SlotInv'
  <1>1. PICK c : c = slotCmd[w]
    OBVIOUS
  <1>2. PICK k : k = <<DirName[w], c.ver>>
    OBVIOUS
  <1>3. /\ c.pc = "refreshed" /\ c.op = "release"
        /\ slots' = [c.reg EXCEPT ![k] = NoSlot]
        /\ slotStale' = (slotStale \/ slots # c.reg)
        /\ granted' = {g \in granted : g[2] # k}
        /\ slotCmd' = [slotCmd EXCEPT ![w] = NoCommand]
        /\ UNCHANGED <<tree, branchHere, ships, slotEvents>>
    BY <1>1, <1>2 DEF ReleaseSlot
  <1>4. c.reg \in Registry
    BY <1>1, <1>3, SlotCommandFacts
  <1>5. slots' \in Registry /\ \A j \in Key \ {k} : slots'[j] = c.reg[j]
    BY <1>3, <1>4 DEF Registry, Slot
  <1>6. granted' \subseteq Worktree \X Key /\ slotEvents' \in 0..MaxSlotEvents /\ slotStale' \in BOOLEAN
    BY <1>3 DEF SlotInv, SlotTypeOK
  <1>7. ASSUME ~slotStale', NEW g \in granted'
        PROVE  /\ slots'[g[2]] # NoSlot /\ slots'[g[2]].at = g[1]
               /\ slots'[g[2]].branch # "unknown" => slots'[g[2]].branch = BranchOf[g[1]] /\ branchHere[g[1]]
    <2>1. ~slotStale /\ slots = c.reg /\ g \in granted /\ g[2] # k
      BY <1>3, <1>7
    <2>2. /\ slots[g[2]] # NoSlot /\ slots[g[2]].at = g[1] /\ g[2] \in Key
          /\ slots[g[2]].branch # "unknown" => slots[g[2]].branch = BranchOf[g[1]] /\ branchHere[g[1]]
      BY <2>1 DEF SlotInv, SlotTypeOK
    <2> QED
      BY <1>5, <2>1, <2>2
  <1> QED
    BY <1>3, <1>5, <1>6, <1>7, SlotCommandStep

LEMMA SlotKillStep ==
  ASSUME SlotInv, NEW w \in Worktree, SlotKill(w)
  PROVE  SlotInv'
  <1>1. /\ slotCmd' = [slotCmd EXCEPT ![w] = NoCommand]
        /\ UNCHANGED <<slots, tree, branchHere, ships, slotEvents, granted, slotStale>>
        /\ slots \in Registry /\ slotEvents \in 0..MaxSlotEvents /\ granted \subseteq Worktree \X Key /\ slotStale \in BOOLEAN
    BY DEF SlotKill, SlotInv, SlotTypeOK
  <1> QED
    BY <1>1, SlotCommandStep DEF SlotInv

LEMMA SlotWorldStep ==
  ASSUME SlotInv, NEW w \in Worktree, SlotWorld(w) \/ UNCHANGED slotVars
  PROVE  SlotInv'
  <1>1. /\ UNCHANGED <<slots, slotCmd, slotStale>> /\ slotEvents' \in 0..MaxSlotEvents
        /\ granted' \subseteq granted
        /\ ships' \in [Worktree -> SlotVersion \cup {0}]
        /\ tree' \in [Worktree -> {"live", "detached", "gone"}]
        /\ branchHere' \in [Worktree -> BOOLEAN]
        /\ \A s \in Worktree : tree'[s] = "live" => tree[s] = "live" /\ branchHere'[s] = branchHere[s]
        /\ \A g \in granted' : g[1] \in Worktree => branchHere'[g[1]] = branchHere[g[1]]
    <2>0. slotEvents' \in 0..MaxSlotEvents /\ UNCHANGED <<slots, slotCmd, slotStale>>
      BY SlotAssumption DEF SlotWorld, SlotEvent, slotVars, SlotInv, SlotTypeOK
    <2>1. CASE UNCHANGED slotVars
      BY <2>0, <2>1 DEF slotVars, SlotInv, SlotTypeOK
    <2>2. CASE /\ \E v \in SlotVersion : ships' = [ships EXCEPT ![w] = v]
               /\ UNCHANGED <<tree, branchHere, granted>>
      BY <2>0, <2>2 DEF SlotInv, SlotTypeOK
    <2>3. CASE /\ \E to \in {"detached", "gone"} : tree' = [tree EXCEPT ![w] = to]
               /\ UNCHANGED <<ships, branchHere, granted>>
      BY <2>0, <2>3 DEF SlotInv, SlotTypeOK
    <2>4. CASE /\ tree[w] # "live" /\ branchHere' = [branchHere EXCEPT ![w] = FALSE]
               /\ granted' = {g \in granted : g[1] # w}
               /\ UNCHANGED <<ships, tree>>
      BY <2>0, <2>4 DEF SlotInv, SlotTypeOK
    <2> QED
      BY <2>1, <2>2, <2>3, <2>4 DEF SlotWorld
  <1>2. SlotTypeOK'
    BY <1>1 DEF SlotInv, SlotTypeOK
  <1>3. ASSUME ~slotStale', NEW g \in granted'
        PROVE  /\ slots'[g[2]] # NoSlot /\ slots'[g[2]].at = g[1]
               /\ slots'[g[2]].branch # "unknown" => slots'[g[2]].branch = BranchOf[g[1]] /\ branchHere'[g[1]]
    <2>1. ~slotStale /\ g \in granted /\ g[1] \in Worktree
      BY <1>1, <1>3 DEF SlotInv, SlotTypeOK
    <2>2. branchHere'[g[1]] = branchHere[g[1]]
      BY <1>1, <1>3, <2>1
    <2> QED
      BY <1>1, <2>1, <2>2 DEF SlotInv
  <1>4. ASSUME NEW s \in Worktree
        PROVE  (tree[s] = "live" => branchHere[s])'
    BY <1>1 DEF SlotInv
  <1>5. ASSUME NEW s \in Worktree
        PROVE  /\ (slotCmd[s].pc # "idle" /\ slotCmd[s].op # "scan" => slotCmd[s].ver \in SlotVersion)'
               /\ (slotCmd[s].pc = "refreshed" => slotCmd[s].op # "scan")'
               /\ (slotCmd[s].pc = "refreshed" /\ slotCmd[s].op = "reserve" => ~IsClaimed(slotCmd[s].reg, s, slotCmd[s].ver))'
    BY <1>1 DEF SlotInv, IsClaimed
  <1> QED
    BY <1>2, <1>3, <1>4, <1>5 DEF SlotInv

LEMMA SlotAlways == SlotSpec => []SlotInv
  <1>1. SlotInv /\ [SlotNext]_slotVars => SlotInv'
    <2> SUFFICES ASSUME SlotInv, [SlotNext]_slotVars
                 PROVE  SlotInv'
      OBVIOUS
    <2>1. CASE UNCHANGED slotVars
      BY <2>1, SlotWorldStep, SlotAssumption
    <2>2. CASE SlotNext
      BY <2>2, SlotReadStep, SlotRefreshStep, ReserveStep, ReleaseSlotStep, SlotKillStep, SlotWorldStep DEF SlotNext
    <2> QED
      BY <2>1, <2>2
  <1> QED
    BY <1>1, SlotStarts, PTL DEF SlotSpec

(* The registry, the worktrees and every command are well-formed. *)
THEOREM SlotTypeCorrect == SlotSpec => []SlotTypeOK
  <1>1. SlotInv => SlotTypeOK
    BY DEF SlotInv
  <1> QED
    BY <1>1, SlotAlways, PTL

(* A reserved version stays claimed, and is promised once, for any number of *)
(* worktrees, repositories and versions.                                     *)
THEOREM SlotReservation == SlotSpec => []ReservedMeansClaimed
  <1>1. SlotInv => ReservedMeansClaimed
    <2> SUFFICES ASSUME SlotInv, ~slotStale
                 PROVE  /\ \A g \in granted : slots[g[2]] # NoSlot
                        /\ \A g, h \in granted : g[2] = h[2] => g = h
      BY DEF ReservedMeansClaimed
    <2>1. \A g \in granted : slots[g[2]] # NoSlot /\ slots[g[2]].at = g[1] /\ g = <<g[1], g[2]>>
      BY DEF SlotInv, SlotTypeOK
    <2> QED
      BY <2>1
  <1> QED
    BY <1>1, SlotAlways, PTL
=============================================================================
