---------------------------- MODULE HookSettings ----------------------------
(***************************************************************************)
(* The hook entries of a project's two settings files and the programs     *)
(* that edit them: register-loom-hooks.ts, and the migration every session *)
(* starts (scripts/lib/migration-runner.ts, hooks/loom-migration.ts) under *)
(* the guard of scripts/lib/ownership-evidence.ts, a log of what the       *)
(* migration found and left.                                               *)
(*                                                                         *)
(* A hash is the content it was taken of.  Of the log only the latest      *)
(* record of each file is ever used.  A migration takes one step for each  *)
(* thing others can come between: reading a file and its record, replacing *)
(* the file, the two halves of an append, and the notice it ends with; it  *)
(* can be killed anywhere, and an error ends it just so.                   *)
(* The commands a person types (register, doctor) are one step each.       *)
(*                                                                         *)
(* Of a file the hook commands are kept: a legacy bare path, the anchored  *)
(* form the migration makes of it, and the `sh ...` form that registration *)
(* writes and looks for; the migration never matches that one, nor         *)
(* registration the others.                                                *)
(***************************************************************************)
EXTENDS Naturals, FiniteSets

CONSTANTS
    Session,     \* sessions whose start runs the migration
    Hook,        \* hooks of the manifest
    MaxStarts,   \* bound on migrations
    MaxEdits     \* bound on edits and commands of people

ASSUME HookAssumption == IsFiniteSet(Hook) /\ MaxStarts \in Nat /\ MaxEdits \in Nat

VARIABLES
    settings,  \* content of each settings file
    evidence,  \* latest record of the log for each file
    mig,       \* state of each session's migration
    starts, edits,
    known,     \* history: contents that records since the last reset vouch for
    silent,    \* history: files whose latest record is a refusal that nobody was told of
    stale,     \* a file or the log was written from a read that was out of date
    chosen     \* someone put Loom's entries in a file of their choice

hookVars == <<settings, evidence, mig, starts, edits, known, silent, stale, chosen>>

Tier == {"project", "local"}
Channels == {"plugin", "curl"}
Form == {"bare", "sh"} \cup Channels

Missing == [kind |-> "missing", cmds |-> {}]
Broken == [kind |-> "broken", cmds |-> {}]
Json(cmds) == [kind |-> "json", cmds |-> cmds]
Content == {Missing, Broken} \cup {Json(cmds) : cmds \in SUBSET (Hook \X Form)}

NoRecord == [outcome |-> "none", before |-> Missing, after |-> Missing]
Record(outcome, before, after) == [outcome |-> outcome, before |-> before, after |-> after]
Records == {NoRecord} \cup [outcome : {"applied", "not-needed", "refused"}, before : Content, after : Content]
Outcome == {"none", "applied", "not-needed", "refused"}
Off == [pc |-> "off"]
Pass(pc, tier, chan, out) ==
    [pc |-> pc, tier |-> tier, chan |-> chan, out |-> out,
     seen |-> Missing, rec |-> NoRecord, log |-> [t \in Tier |-> NoRecord]]

HookTypeOK ==
    /\ settings \in [Tier -> Content]
    /\ evidence \in [Tier -> Records]
    /\ mig \in [Session -> {Off} \cup [pc : {"look", "write", "append", "store", "notice"}, tier : Tier, chan : Channels,
                                       out : [Tier -> Outcome], seen : Content, rec : Records, log : [Tier -> Records]]]
    /\ starts \in 0..MaxStarts /\ edits \in 0..MaxEdits
    /\ known \in [Tier -> SUBSET Content] /\ silent \subseteq Tier
    /\ stale \in BOOLEAN /\ chosen \in BOOLEAN

(* A legacy project: bare paths, in either file. *)
HookInit ==
    /\ settings \in [Tier -> {Missing} \cup {Json(hs \X {"bare"}) : hs \in SUBSET Hook}]
    /\ evidence = [t \in Tier |-> NoRecord]
    /\ mig = [s \in Session |-> Off]
    /\ starts = 0 /\ edits = 0
    /\ known = [t \in Tier |-> {}] /\ silent = {}
    /\ stale = FALSE /\ chosen = FALSE

-----------------------------------------------------------------------------
(* The migration. *)

Start(s) ==
    /\ mig[s].pc = "off" /\ starts < MaxStarts
    /\ starts' = starts + 1
    /\ \E chan \in Channels : mig' = [mig EXCEPT ![s] = Pass("look", "project", chan, [t \in Tier |-> "none"])]
    /\ UNCHANGED <<settings, evidence, edits, known, silent, stale, chosen>>

(* After settings.json comes settings.local.json, then the notice. *)
NextFile(m, outcome) ==
    Pass(IF m.tier = "project" THEN "look" ELSE "notice", "local", m.chan, [m.out EXCEPT ![m.tier] = outcome])

HasBare(c) == \E e \in c.cmds : e[2] = "bare"
Rewrite(c, chan) == Json({IF e[2] = "bare" THEN <<e[1], chan>> ELSE e : e \in c.cmds})

(* checkOwnership: a record's reference is what it left, or found if it left nothing. *)
Reference(rec) == IF rec.outcome = "refused" THEN rec.before ELSE rec.after

(* Mutant: the guard forgets the refusal it recorded: only what it left is compared, *)
(* and a file it never touched passes.                                       *)
DivergedFromApplied(rec, c) == rec.outcome = "not-needed" /\ Reference(rec) # c

Diverged(rec, c) == rec # NoRecord /\ Reference(rec) # c

(* The file and its record are read, and what to do is decided. *)
Look(s) ==
    LET m == mig[s]
        c == settings[m.tier]
        prior == evidence[m.tier]
        append(rec) == [m EXCEPT !.pc = "append", !.rec = rec]
    IN  /\ m.pc = "look"
        /\ mig' = [mig EXCEPT ![s] =
             IF c = Missing THEN NextFile(m, "none")
             ELSE IF Diverged(prior, c) \/ c = Broken THEN append(Record("refused", c, Missing))
             ELSE IF HasBare(c) THEN [m EXCEPT !.pc = "write", !.seen = c, !.rec = prior]
             ELSE IF prior = Record("not-needed", prior.before, c) THEN NextFile(m, "not-needed")
             ELSE append(Record("not-needed", c, c))]
        /\ UNCHANGED <<settings, evidence, starts, edits, known, silent, stale, chosen>>

(* The file is replaced; the log does not know yet. *)
WriteFile(s) ==
    LET m == mig[s]
        new == Rewrite(m.seen, m.chan)
    IN  /\ m.pc = "write"
        /\ settings' = [settings EXCEPT ![m.tier] = new]
        /\ stale' = (stale \/ settings[m.tier] # m.seen \/ evidence[m.tier] # m.rec)
        /\ mig' = [mig EXCEPT ![s] = [m EXCEPT !.pc = "append", !.seen = Missing, !.rec = Record("applied", m.seen, new)]]
        /\ UNCHANGED <<evidence, starts, edits, known, silent, chosen>>

(* appendRecord reads the log ... *)
AppendRead(s) ==
    /\ mig[s].pc = "append"
    /\ mig' = [mig EXCEPT ![s].pc = "store", ![s].log = evidence]
    /\ UNCHANGED <<settings, evidence, starts, edits, known, silent, stale, chosen>>

(* ... and writes it back with the record. *)
AppendWrite(s) ==
    LET m == mig[s]
    IN  /\ m.pc = "store"
        /\ evidence' = [m.log EXCEPT ![m.tier] = m.rec]
        /\ stale' = (stale \/ evidence # m.log)
        /\ known' = [known EXCEPT ![m.tier] = @ \cup {Reference(m.rec)}]
        /\ silent' = silent \ {m.tier}
        /\ mig' = [mig EXCEPT ![s] = NextFile(m, m.rec.outcome)]
        /\ UNCHANGED <<settings, starts, edits, chosen>>

(* run() returns what came of the last file there is, and the hook speaks of *)
(* that alone: of its rewriting (then of all that were rewritten), or of its *)
(* refusal.  Of an earlier file that was refused nobody hears.               *)
Notice(s) ==
    LET out == mig[s].out
        last == IF out["local"] # "none" THEN "local" ELSE "project"
    IN  /\ mig[s].pc = "notice"
        /\ silent' = (silent \ {last}) \cup {t \in Tier \ {last} : out[t] = "refused"}
        /\ mig' = [mig EXCEPT ![s] = Off]
        /\ UNCHANGED <<settings, evidence, starts, edits, known, stale, chosen>>

Kill(s) ==
    /\ mig[s].pc # "off"
    /\ mig' = [mig EXCEPT ![s] = Off]
    /\ UNCHANGED <<settings, evidence, starts, edits, known, silent, stale, chosen>>

-----------------------------------------------------------------------------
(* What people do. *)

Edit == edits < MaxEdits /\ edits' = edits + 1

Registered(c) == {h \in Hook : <<h, "sh">> \in c.cmds}

(* Mutant: without entries in the local file the project file is the default. *)
TargetIgnoresLocal(flag) ==
    IF flag \in Tier THEN {flag}
    ELSE IF Registered(settings["project"]) # {} THEN {"project"}
    ELSE IF Registered(settings["local"]) = Hook THEN {"project"} ELSE {"local"}

(* resolveTier: a choice wins; without one, the file that already has entries, *)
(* the local file when none has, and a refusal when both have.                *)
Target(flag) ==
    IF flag \in Tier THEN {flag}
    ELSE LET occupied == {t \in Tier : Registered(settings[t]) # {}}
         IN  CASE occupied = Tier -> {}
               [] occupied = {} -> {"local"}
               [] OTHER -> occupied

(* Registering adds the hooks whose own form is not there; --replace first *)
(* purges those.  A file that does not parse is refused.                   *)
Register(flag, replace) ==
    /\ Edit
    /\ \E t \in Target(flag) :
          /\ settings[t] # Broken
          /\ replace \/ Registered(settings[t]) # Hook
          /\ settings' = [settings EXCEPT ![t] = Json(@.cmds \cup (Hook \X {"sh"}))]
    /\ chosen' = (chosen \/ flag \in Tier)
    /\ UNCHANGED <<evidence, mig, starts, known, silent, stale>>

Coerce(c, chan) == Json({IF e[2] \in {"bare"} \cup Channels THEN <<e[1], chan>> ELSE e : e \in c.cmds})

(* /loom-doctor --reconcile: both files, not the log. *)
Reconcile(chan) ==
    /\ Edit
    /\ settings' = [t \in Tier |-> IF settings[t] \in {Missing, Broken} THEN settings[t] ELSE Coerce(settings[t], chan)]
    /\ UNCHANGED <<evidence, mig, starts, known, silent, stale, chosen>>

(* /loom-doctor --reset-evidence bare-anchor. *)
ResetEvidence ==
    /\ Edit
    /\ evidence' = [t \in Tier |-> NoRecord]
    /\ known' = [t \in Tier |-> {}] /\ silent' = {}
    /\ UNCHANGED <<settings, mig, starts, stale, chosen>>

(* An editor or a pull changes one command of one file, or breaks its JSON. *)
EditByHand ==
    /\ Edit
    /\ \E t \in Tier :
          /\ \/ \E h \in Hook, f \in {"bare", "sh"} :
                   settings' = [settings EXCEPT ![t] =
                      Json(IF <<h, f>> \in @.cmds THEN @.cmds \ {<<h, f>>} ELSE @.cmds \cup {<<h, f>>})]
             \/ settings' = [settings EXCEPT ![t] = Broken]
          /\ chosen' = (chosen \/ ~(Registered(settings'[t]) \subseteq Registered(settings[t])))
    /\ UNCHANGED <<evidence, mig, starts, known, silent, stale>>

HookNext ==
    \/ \E s \in Session : Start(s) \/ Look(s) \/ WriteFile(s) \/ AppendRead(s) \/ AppendWrite(s) \/ Notice(s) \/ Kill(s)
    \/ \E flag \in Tier \cup {"auto"}, replace \in BOOLEAN : Register(flag, replace)
    \/ \E chan \in Channels : Reconcile(chan)
    \/ ResetEvidence
    \/ EditByHand

HookSpec == HookInit /\ [][HookNext]_hookVars

-----------------------------------------------------------------------------
(* Ownership.  The migration rewrites a file it has evidence about only at a  *)
(* content that an earlier record vouches for: one it left, found in order,   *)
(* or refused.  A change by anyone else, or by a migration killed before it   *)
(* logged, is therefore on record before it is rewritten.  It does not hold   *)
(* across overlapping migrations, and on record does not mean that a person   *)
(* knows (ToldBeforeRewrite).  (scripts/lib/ownership-evidence.ts:5-10)       *)
RecordedBeforeRewrite ==
    [][ ~stale' => \A s \in Session :
            mig[s].pc = "write" /\ mig'[s].pc = "append" =>
                LET t == mig[s].tier
                IN  known[t] = {} \/ settings[t] \in known[t]
      ]_hookVars

(* Does not hold: no migration rewrites a file whose refusal a completed run  *)
(* recorded without telling anyone.  (protocols/migration-runner.schema.md:69)*)
ToldBeforeRewrite ==
    [][ ~stale' => \A s \in Session :
            mig[s].pc = "write" /\ mig'[s].pc = "append" => mig[s].tier \notin silent
      ]_hookVars

(* Registration keeps to one file: as long as nobody chooses a file or places *)
(* entries himself, and no stale write brings old entries back, the two files *)
(* never both hold entries of the form registration writes and looks for.     *)
(* (lib/tier-resolution.ts:54-71)  It does not see the migration's entries,   *)
(* so that a hook may well run twice (PreservesTier).                         *)
OneTier ==
    ~chosen /\ ~stale => \E t \in Tier : Registered(settings[t]) = {}

(* Does not hold: registering without a choice adds entries to a file only if *)
(* the other one has none of Loom's, in whatever form.                        *)
(* (lib/tier-resolution.ts:12-13)                                             *)
PreservesTier ==
    [][ ~chosen' => \A t, u \in Tier :
            t # u /\ ~(Registered(settings'[t]) \subseteq Registered(settings[t]))
                => settings[u].cmds = {} ]_hookVars
=============================================================================
