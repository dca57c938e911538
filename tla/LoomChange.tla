------------------------------ MODULE LoomChange ------------------------------
(***************************************************************************)
(* /loom-change: proposals that are reviewed, approved, run and archived   *)
(* into contract pages (scripts/loom-change/*.ts over                      *)
(* hooks/lib/change-state.ts), one action per file operation that another  *)
(* command can observe.                                                    *)
(*                                                                         *)
(* Simplifications.                                                        *)
(*  - What a command reads before its first write is read in one step;     *)
(*    the writes of several conflict entries, backups and restores are one *)
(*    step each.  A restore that fails leaves its page as it was.          *)
(*  - A proposal has one DeltaBlock per domain, and that one operation on  *)
(*    requirements; scenarios, which differ in having ids from the author, *)
(*    migration notes, rationales and the wiki index are left out.         *)
(*  - The text of a requirement is named by the change that wrote it.      *)
(*  - conflicts[] is left out of the state, its effect on updatedAt is     *)
(*    not; supersededBy is set exactly when status is superseded.          *)
(*  - A command takes its own tick of the clock; the millisecond ladder of *)
(*    quick-archive is one tick.                                           *)
(***************************************************************************)
EXTENDS Integers, Sequences, SequencesExt, FiniteSetsExt, Functions

CONSTANTS
    Change,     \* change ids
    Session,    \* command invocations that may overlap
    Domain,     \* contract domains, numbered in alphabetical order
    Drafts,     \* what authors write: functions of domains to [kind, id]
    Absent,     \* no such file
    MaxClock    \* bound: commands begun

Kind == {"add", "modify", "remove"}

ASSUME ChangeAssumption ==
    /\ Domain \subseteq Nat
    /\ \A f \in Drafts : \E ds \in (SUBSET Domain) \ {{}} : f \in [ds -> [kind : Kind, id : Nat]]
    /\ MaxClock \in Nat

VARIABLES
    clock,      \* ticks
    pages,      \* contract-{domain}.md: requirements and sourceChanges
    backup,     \* contract-{domain}.md.bak, where there is one
    proposal,   \* proposal.md of each change: status and deltas
    state,      \* its ChangeState: status, transitions, updatedAt
    session,    \* where each command is, and what it has in memory
    killed,     \* history: changes whose archive died after its backups
    unrestored  \* history: changes whose failed archive left a page it could not restore

vars == <<clock, pages, backup, proposal, state, session, killed, unrestored>>

InFlight == {"proposed", "reviewed", "approved", "in-progress"}
Status == InFlight \cup {"archived", "rejected", "superseded"}
(* Mutant: reject does not look at LEGAL_FROM. *)
CliMovesRejectAny ==
    {<<"proposed", "reviewed">>, <<"reviewed", "approved">>,
     <<"approved", "in-progress">>} \cup (Status \X {"rejected"})

(* What review, approve, run and reject accept. *)
CliMoves == {<<"proposed", "reviewed">>, <<"reviewed", "approved">>,
             <<"approved", "in-progress">>, <<"proposed", "rejected">>,
             <<"reviewed", "rejected">>, <<"in-progress", "rejected">>}

NoDeltas == [d \in {} |-> Absent]
Idle == [at |-> "idle", c |-> Absent, to |-> "none", now |-> 0, st |-> Absent,
         deltas |-> NoDeltas, seen |-> NoDeltas, todo |-> {}, peers |-> NoDeltas,
         peer |-> Absent]


Init ==
    /\ clock = 0
    /\ pages = [d \in Domain |-> [reqs |-> [i \in {1} |-> Absent], changes |-> <<>>]]
    /\ backup = NoDeltas
    /\ proposal = [c \in Change |-> Absent]
    /\ state = [c \in Change |-> Absent]
    /\ session = [s \in Session |-> Idle]
    /\ killed = {}
    /\ unrestored = {}

-----------------------------------------------------------------------------
(* Time stamps and the guarded write of a ChangeState.                     *)

BumpAfter(previous, now) == IF now > previous THEN now ELSE previous + 1

(* writeChangeState: throws unless updatedAt moves forward. *)
Accepted(c, st) == state[c] = Absent \/ st.stamp > state[c].stamp

(* Mutant: the state is spread without its new transition. *)
MovedSilently(st, to, now) ==
    IF st = Absent THEN [status |-> to, log |-> <<to>>, stamp |-> now]
    ELSE [st EXCEPT !.status = to, !.stamp = BumpAfter(st.stamp, now)]

Moved(st, to, now) ==
    IF st = Absent THEN [status |-> to, log |-> <<to>>, stamp |-> now]
    ELSE [status |-> to, log |-> Append(st.log, to), stamp |-> BumpAfter(st.stamp, now)]

Put(s, r) == session' = [session EXCEPT ![s] = r]
Goto(s, at) == Put(s, [session[s] EXCEPT !.at = at])
End(s) == Put(s, Idle)

(* A command starts at a tick of its own, with what it has read. *)
Begin(s, r) ==
    /\ session[s] = Idle
    /\ clock < MaxClock
    /\ clock' = clock + 1
    /\ Put(s, r)

(* It is about to write proposal.md with status `to`, then the ChangeState. *)
Writing(c, to, st, deltas) ==
    [ at |-> "proposal", c |-> c, to |-> to, now |-> clock + 1, st |-> st, deltas |-> deltas,
      seen |-> NoDeltas, todo |-> {}, peers |-> NoDeltas, peer |-> Absent ]

-----------------------------------------------------------------------------
(* init, review, approve, run, reject, quick-archive: proposal.md, then    *)
(* the ChangeState.                                                        *)

(* The directory of a new change is made at once; only a rejected change   *)
(* may have one already.                                                   *)
Directory == [status |-> "none", deltas |-> NoDeltas]

BeginInit(s, c) ==
    /\ \/ /\ proposal[c] = Absent
          /\ proposal' = [proposal EXCEPT ![c] = Directory]
       \/ /\ state[c] # Absent
          /\ state[c].status = "rejected"
          /\ UNCHANGED proposal
    /\ Begin(s, Writing(c, "proposed", state[c], NoDeltas))
    /\ UNCHANGED <<pages, backup, state, killed, unrestored>>

(* The status a command goes by is that of the ChangeState, not the one    *)
(* proposal.md has.                                                        *)
BeginMove(s, c, to) ==
    /\ proposal[c] # Absent
    /\ state[c] # Absent
    /\ <<state[c].status, to>> \in CliMoves
    /\ Begin(s, Writing(c, to, state[c], NoDeltas))
    /\ UNCHANGED <<pages, backup, proposal, state, killed, unrestored>>

BeginReview(s, c) == BeginMove(s, c, "reviewed")
BeginApprove(s, c) == BeginMove(s, c, "approved")
BeginRun(s, c) == BeginMove(s, c, "in-progress")
BeginReject(s, c) == BeginMove(s, c, "rejected")

(* An author copies the text that is modified into the delta. *)
Drafted(f) ==
    [d \in DOMAIN f |-> [ kind |-> f[d].kind, id |-> f[d].id,
                           before |-> IF f[d].kind = "modify"
                                      THEN pages[d].reqs[f[d].id] ELSE Absent ]]
Draftable(f) ==
    \A d \in DOMAIN f : f[d].kind = "add" \/ f[d].id \in DOMAIN pages[d].reqs

BeginQuick(s, c, f) ==
    /\ proposal[c] = Absent
    /\ Draftable(f)
    /\ proposal' = [proposal EXCEPT ![c] = Directory]
    /\ Begin(s, Writing(c, "in-progress", Absent, Drafted(f)))
    /\ UNCHANGED <<pages, backup, state, killed, unrestored>>

(* init and quick-archive write a new proposal, the others its status. *)
WriteProposal(s) ==
    /\ session[s].at = "proposal"
    /\ LET r == session[s]
           fresh == r.to = "proposed" \/ r.st = Absent
       IN  proposal' = [proposal EXCEPT ![r.c] =
               [status |-> r.to,
                deltas |-> IF fresh THEN r.deltas ELSE @.deltas]]
    /\ Goto(s, "state")
    /\ UNCHANGED <<clock, pages, backup, state, killed, unrestored>>

(* quick-archive writes the four transitions it skipped in one go. *)
QuickState(now) == [ status |-> "in-progress", stamp |-> now,
                     log |-> <<"proposed", "reviewed", "approved", "in-progress">> ]

Quick(r) == r.st = Absent /\ r.to = "in-progress"

(* Mutant: a revived change gets the state of a new one. *)
NewStateAfresh(r) ==
    CASE r.to = "proposed" -> [status |-> "proposed", stamp |-> r.now + 1, log |-> <<"proposed">>]
      [] Quick(r) -> QuickState(r.now)
      [] OTHER -> Moved(r.st, r.to, r.now)

(* The state that is written continues the one read when the command       *)
(* began; only a revival reads it again.  If the write is refused the      *)
(* command dies of the exception.                                          *)
NewState(r) ==
    CASE Quick(r) -> QuickState(r.now)
      [] r.st # Absent /\ r.to = "proposed" -> Moved(state[r.c], r.to, r.now)
      [] OTHER -> Moved(r.st, r.to, r.now)

After(r) ==
    CASE r.to = "archived" -> "scan"
      [] Quick(r) -> "archive"
      [] OTHER -> "idle"

WriteState(s) ==
    /\ session[s].at = "state"
    /\ LET r == session[s]
           st == NewState(r)
       IN  IF Accepted(r.c, st)
           THEN /\ state' = [state EXCEPT ![r.c] = st]
                /\ IF After(r) = "idle" THEN End(s) ELSE Goto(s, After(r))
           ELSE UNCHANGED state /\ End(s)
    /\ UNCHANGED <<clock, pages, backup, proposal, killed, unrestored>>

-----------------------------------------------------------------------------
(* archive: pre-flight, conflict scan, backups, commit, status, scan.      *)

(* Mutant: the before-text is not compared. *)
AppliesUnread(op, page) == op.kind = "add" \/ op.id \in DOMAIN page.reqs

(* The requirement exists, and a modified one reads as its author saw it. *)
Applies(op, page) ==
    \/ op.kind = "add"
    \/ /\ op.id \in DOMAIN page.reqs
       /\ op.kind = "modify" => page.reqs[op.id] = op.before

PreFlight(deltas) ==
    /\ deltas # NoDeltas
    /\ \A d \in DOMAIN deltas : Applies(deltas[d], pages[d])

(* buildTouchedIdMap: an added requirement has no id yet. *)
Touched(deltas) ==
    {<<d, deltas[d].id>> : d \in {e \in DOMAIN deltas : deltas[e].kind # "add"}}

(* listChangeStates: the changes that have a ChangeState. *)
Listed == {c \in Change : state[c] # Absent}

Peers(c) == {p \in Listed \ {c} : state[p].status \in InFlight}

Conflicts(c) ==
    {p \in Peers(c) : Touched(proposal[p].deltas) \cap Touched(proposal[c].deltas) # {}}

(* What the archive does when it has read everything. *)
Archiving(c, now) ==
    [ at |-> IF Conflicts(c) = {} THEN "backup" ELSE "conflict",
      c |-> c, to |-> "archived", now |-> now, st |-> state[c],
      deltas |-> proposal[c].deltas,
      seen |-> [d \in DOMAIN proposal[c].deltas |-> pages[d]],
      todo |-> DOMAIN proposal[c].deltas, peers |-> NoDeltas, peer |-> Absent ]

BeginArchive(s, c) ==
    /\ state[c] # Absent
    /\ state[c].status = "in-progress"
    /\ PreFlight(proposal[c].deltas)
    /\ Begin(s, Archiving(c, clock + 1))
    /\ UNCHANGED <<pages, backup, proposal, state, killed, unrestored>>

(* quick-archive calls runArchive with the state it has just written. *)
ContinueQuick(s) ==
    /\ session[s].at = "archive"
    /\ LET c == session[s].c
       IN  IF state[c].status = "in-progress" /\ PreFlight(proposal[c].deltas)
           THEN Put(s, Archiving(c, session[s].now))
           ELSE End(s)
    /\ UNCHANGED <<clock, pages, backup, proposal, state, killed, unrestored>>

(* The conflict is recorded with every peer, then here, and ends it. *)
RecordConflicts(s) ==
    /\ session[s].at = "conflict"
    /\ LET r == session[s]
           own == [r.st EXCEPT !.stamp = BumpAfter(@, r.now)]
           peer(p) == [state[p] EXCEPT !.stamp = BumpAfter(@, r.now)]
       IN  state' = [p \in Change |->
                        CASE p = r.c /\ Accepted(p, own) -> own
                          [] p \in Conflicts(r.c) -> peer(p)
                          [] OTHER -> state[p]]
    /\ End(s)
    /\ UNCHANGED <<clock, pages, backup, proposal, killed, unrestored>>

Backup(s) ==
    /\ session[s].at = "backup"
    /\ backup' = [d \in DOMAIN backup \cup session[s].todo |->
                     IF d \in session[s].todo THEN pages[d] ELSE backup[d]]
    /\ Goto(s, "commit")
    /\ UNCHANGED <<clock, pages, proposal, state, killed, unrestored>>

(* composeNewPageInput *)
Compose(page, op, c) ==
    LET ids == DOMAIN page.reqs
        next == IF ids = {} THEN 1 ELSE Max(ids) + 1
    IN  [ reqs |-> CASE op.kind = "add" -> [i \in ids \cup {next} |-> IF i = next THEN c ELSE page.reqs[i]]
                     [] op.kind = "modify" -> [page.reqs EXCEPT ![op.id] = c]
                     [] op.kind = "remove" -> Restrict(page.reqs, ids \ {op.id}),
          changes |-> Append(page.changes, c) ]

Commit(s) ==
    /\ session[s].at = "commit"
    /\ LET r == session[s]
           d == Min(r.todo)
       IN  /\ pages' = [pages EXCEPT ![d] = Compose(r.seen[d], r.deltas[d], r.c)]
           /\ Put(s, [r EXCEPT !.todo = @ \ {d},
                               !.at = IF r.todo = {d} THEN "proposal" ELSE "commit"])
    /\ UNCHANGED <<clock, backup, proposal, state, killed, unrestored>>

(* copyFileSync of the backups over the pages in `ds`. *)
Restored(ds) == [d \in Domain |-> IF d \in ds THEN backup[d] ELSE pages[d]]

(* Mutant: only what was not committed is restored. *)
CommitFailsHalf(s) ==
    /\ session[s].at = "commit"
    /\ pages' = Restored(session[s].todo \cap DOMAIN backup)
    /\ End(s)
    /\ UNCHANGED <<clock, backup, proposal, state, killed, unrestored>>

(* Mutant: the catch block does not return. *)
CommitFailsOnwards(s) ==
    /\ session[s].at = "commit"
    /\ pages' = Restored(DOMAIN session[s].deltas \cap DOMAIN backup)
    /\ Goto(s, "proposal")
    /\ UNCHANGED <<clock, backup, proposal, state, killed, unrestored>>

(* writeContractPage throws: the pages are restored from their backups,    *)
(* those that still exist, each copy in a try of its own whose failure     *)
(* goes by in silence.                                                     *)
CommitFails(s) ==
    /\ session[s].at = "commit"
    /\ LET r == session[s]
       IN  \E copied \in SUBSET (DOMAIN r.deltas \cap DOMAIN backup) :
              /\ pages' = Restored(copied)
              /\ unrestored' = IF DOMAIN r.deltas \ r.todo \subseteq copied
                               THEN unrestored ELSE unrestored \cup {r.c}
    /\ End(s)
    /\ UNCHANGED <<clock, backup, proposal, state, killed>>

(* runSupersessionScan: in-flight peers that target what was removed. *)
Removed(deltas) ==
    {<<d, deltas[d].id>> : d \in {e \in DOMAIN deltas : deltas[e].kind = "remove"}}

Scan(s) ==
    /\ session[s].at = "scan"
    /\ LET r == session[s]
           hit == {p \in Peers(r.c) :
                     Touched(proposal[p].deltas) \cap Removed(r.deltas) # {}}
       IN  Put(s, [r EXCEPT !.peers = [p \in hit |-> state[p]], !.at = "peers"])
    /\ UNCHANGED <<clock, pages, backup, proposal, state, killed, unrestored>>

(* A peer whose state has moved on is left alone. *)
Supersede(s, p) ==
    /\ session[s].at = "peers"
    /\ p \in DOMAIN session[s].peers
    /\ LET r == session[s]
           st == Moved(r.peers[p], "superseded", r.now)
       IN  IF Accepted(p, st)
           THEN /\ state' = [state EXCEPT ![p] = st]
                /\ Put(s, [r EXCEPT !.at = "peer-proposal", !.peer = p])
           ELSE /\ UNCHANGED state
                /\ Put(s, [r EXCEPT !.peers = Restrict(@, DOMAIN @ \ {p})])
    /\ UNCHANGED <<clock, pages, backup, proposal, killed, unrestored>>

SupersedeProposal(s) ==
    /\ session[s].at = "peer-proposal"
    /\ LET r == session[s]
           p == r.peer
       IN  /\ proposal' = [proposal EXCEPT ![p] = [@ EXCEPT !.status = "superseded"]]
           /\ Put(s, [r EXCEPT !.at = "peers", !.peer = Absent,
                               !.peers = Restrict(@, DOMAIN @ \ {p})])
    /\ UNCHANGED <<clock, pages, backup, state, killed, unrestored>>

RemoveBackups(s) ==
    /\ session[s].at = "peers"
    /\ session[s].peers = NoDeltas
    /\ backup' = Restrict(backup, DOMAIN backup \ DOMAIN session[s].deltas)
    /\ End(s)
    /\ UNCHANGED <<clock, pages, proposal, state, killed, unrestored>>

-----------------------------------------------------------------------------
(* The author and the environment.                                         *)

(* The author fills in ## Deltas of a proposal that is not reviewed yet. *)
Edit(c, f) ==
    /\ proposal[c] # Absent
    /\ proposal[c].status = "proposed"
    /\ Draftable(f)
    /\ proposal' = [proposal EXCEPT ![c] = [@ EXCEPT !.deltas = Drafted(f)]]
    /\ UNCHANGED <<clock, pages, backup, state, session, killed, unrestored>>

(* A command is killed between two file operations. *)
Crash(s) ==
    /\ session[s] # Idle
    /\ killed' = IF session[s].to = "archived" /\ session[s].at \in {"commit", "proposal", "state"}
                 THEN killed \cup {session[s].c} ELSE killed
    /\ End(s)
    /\ UNCHANGED <<clock, pages, backup, proposal, state, unrestored>>

Command(s) ==
    \/ \E c \in Change :
          \/ BeginInit(s, c)
          \/ BeginReview(s, c) \/ BeginApprove(s, c) \/ BeginRun(s, c)
          \/ BeginReject(s, c)
          \/ \E f \in Drafts : BeginQuick(s, c, f)
          \/ BeginArchive(s, c)
    \/ WriteProposal(s) \/ WriteState(s)
    \/ ContinueQuick(s) \/ RecordConflicts(s)
    \/ Backup(s) \/ Commit(s) \/ CommitFails(s)
    \/ Scan(s) \/ (\E p \in Change : Supersede(s, p)) \/ SupersedeProposal(s)
    \/ RemoveBackups(s)

Next ==
    \/ \E s \in Session : Command(s) \/ Crash(s)
    \/ \E c \in Change, f \in Drafts : Edit(c, f)

Spec == Init /\ [][Next]_vars

-----------------------------------------------------------------------------
Texts == Change \cup {Absent}      \* Absent: older than these changes

Operation == [kind : Kind, id : Nat, before : Texts]
ProposalOf(ds) == [status : Status \cup {"none"}, deltas : [ds -> Operation]]
ChangeState == [status : Status, log : Seq(Status), stamp : Nat]

ASSUME AbsenceAssumption ==
    /\ Absent \notin ChangeState \cup Change
    /\ \A ds \in SUBSET Domain : Absent \notin ProposalOf(ds)

PageOK(page) ==
    /\ DOMAIN page.reqs \subseteq Nat
    /\ Range(page.reqs) \subseteq Texts
    /\ page.changes \in Seq(Change)

(* Files and memory are of their types, and a ChangeState's status is the  *)
(* last entry of its transitions log.                                      *)
TypeOK ==
    /\ \A d \in Domain : PageOK(pages[d])
    /\ DOMAIN backup \subseteq Domain /\ \A d \in DOMAIN backup : PageOK(backup[d])
    /\ \A c \in Change :
          /\ proposal[c] # Absent => \E ds \in SUBSET Domain : proposal[c] \in ProposalOf(ds)
          /\ state[c] \in ChangeState \cup {Absent}
          /\ state[c] # Absent => state[c].status = Last(state[c].log)
    /\ killed \subseteq Change /\ unrestored \subseteq Change

Landed(c) == {d \in Domain : c \in Range(pages[d].changes)}
Committing(c) == \E s \in Session : session[s].at = "commit" /\ session[s].c = c

CommittedWhole(c) == ~Committing(c) /\ Landed(c) # {} => DOMAIN proposal[c].deltas \subseteq Landed(c)

(* A failing archive undoes what it committed: outside the commit itself a *)
(* change is on every page of its deltas or on none, whatever write fails, *)
(* unless its archive was killed or could not restore a page it committed. *)
AllOrNone == \A c \in Change \ (killed \cup unrestored) : CommittedWhole(c)

(* "The operation MUST be atomic: either all pages update successfully, or *)
(* none commit" (change-proposal.schema.md), of archives that nobody kills.*)
AtomicCommit == \A c \in Change \ killed : CommittedWhole(c)

(* A change that its ChangeState or its proposal.md records as archived is *)
(* on its pages, also when a kill left only the latter: no later archive,  *)
(* failed archive, restore or crash takes it off again.                    *)
ArchivedIsOnPages ==
    \A c \in Change :
        (state[c] # Absent /\ state[c].status = "archived")
        \/ (proposal[c] # Absent /\ proposal[c].status = "archived")
            => DOMAIN proposal[c].deltas \subseteq Landed(c)

(* A requirement is replaced only if it reads as it did when the           *)
(* modification was drafted, reviewed and approved.                        *)
ReplacesWhatWasReviewed ==
    [][\A d \in Domain :
          Len(pages'[d].changes) > Len(pages[d].changes) =>
              LET op == proposal[Last(pages'[d].changes)].deltas[d]
              IN  op.kind = "modify" => pages[d].reqs[op.id] = op.before]_vars

(* The transitions log is append-only: no command forgets what another one *)
(* recorded, a revival included.                                           *)
LogIsKept ==
    [][\A c \in Change :
          state[c] # Absent => IsPrefix(state[c].log, state'[c].log)]_vars

(* Every change keeps to the status graph of the code's commands, which is *)
(* not the documented one (see ChangeLifecycle).                           *)
Lifecycle == INSTANCE ChangeLifecycle WITH
                 status <- [c \in Change |-> IF state[c] = Absent THEN "none"
                                                                 ELSE state[c].status]
ImplementsLifecycle == Lifecycle!Spec

(* "When proposal and ChangeState disagree, the proposal wins"             *)
(* (change-state.ts): a command that sets the status of proposal.md moves  *)
(* it on from the status proposal.md has.                                  *)
ProposalWins ==
    [][\A c \in Change :
          (proposal[c] # Absent /\ proposal'[c].status # proposal[c].status) =>
              <<proposal[c].status, proposal'[c].status>> \in Lifecycle!Edge]_vars

(* "Each from -> to transition MUST be in the legal set"                   *)
(* (change-state.schema.md), of every transition in every log.             *)
TransitionsAreLegal ==
    \A c \in Change : state[c] # Absent =>
        \A i \in DOMAIN state[c].log :
            <<IF i = 1 THEN "none" ELSE state[c].log[i - 1], state[c].log[i]>> \in Lifecycle!Documented

(* "archived -> superseded: another change archives and removes targeted   *)
(* requirements" (change-proposal.schema.md): it is an archived change     *)
(* that is superseded.                                                     *)
SupersededWasArchived ==
    \A c \in Change : (state[c] # Absent /\ state[c].status = "superseded") =>
        \E i \in DOMAIN state[c].log : state[c].log[i] = "archived"
=============================================================================
