--------------------------- MODULE RoadmapConverge ---------------------------
(***************************************************************************)
(* The loop of /loom-roadmap converge: passes of the driver over           *)
(* state.toon and ROADMAP.md, the user who edits the roadmap and answers   *)
(* questions between them, and /loom-roadmap sign-off                      *)
(* (scripts/roadmap-converge/{driver,integrator,stall-detector,sign-off,   *)
(* state-io,content-hash}.ts).                                             *)
(*                                                                         *)
(* Simplifications.                                                        *)
(*  - At most one pass runs: what PassMutex promises and ConvergeLock      *)
(*    implements.  sign-off.ts takes no lock.                              *)
(*  - A file write (tmp + rename) is one step; a pass that dies between    *)
(*    two steps leaves both files as the last step left them.              *)
(*  - A reviewer raises at most one question per dimension and pass, so a  *)
(*    question is named by its dimension and round; the five-finding cap,  *)
(*    evidence, rubric texts and suppressed findings are left out.         *)
(*  - The roadmap is its user revision and how often each resolution block *)
(*    is in it; a sha256 of it is taken to be the content.                 *)
(*  - dimensionSnapshot is left out of the state: each pass overwrites it  *)
(*    with the prior dimensions before it is used.                         *)
(***************************************************************************)
EXTENDS Integers, FiniteSets

CONSTANTS
    Dims,           \* roadmap dimensions
    DimensionLists, \* the values of opts.dimensions
    Headings,       \* the dimensions that ROADMAP.md has a heading for
    Verdicts,       \* the statuses reviewers give
    PassLimits,     \* the values of passLimit, after the clamp to 1..5
    NoState,        \* state.toon does not exist
    NoPrompt,       \* no sign-off is waiting for its y/N
    Quiet,          \* environment: users act only while nothing is running?
    MaxRound,       \* bound: passes published
    MaxEdits        \* bound: user revisions of the roadmap

ASSUME ConvergeAssumption ==
    /\ DimensionLists \subseteq SUBSET Dims
    /\ {} \notin DimensionLists
    /\ Headings \subseteq Dims
    /\ Verdicts \subseteq {"green", "yellow", "red"}
    /\ PassLimits \subseteq 1..5
    /\ Quiet \in BOOLEAN
    /\ MaxRound \in Nat /\ MaxEdits \in Nat

VARIABLES
    disk,       \* state.toon
    roadmap,    \* ROADMAP.md
    pass,       \* the pass that runs: where it is, and what it has in memory
    prompt,     \* the sign-off that waits for its user: what it has read
    exit        \* history: how the last pass ended

vars == <<disk, roadmap, pass, prompt, exit>>

-----------------------------------------------------------------------------
(* Questions, dimensions, the state record.                                *)

Status == {"green", "yellow", "red"}
Resolution == {"open", "answered", "archived"}
QuestionId == Dims \X (1..MaxRound)
Question == [id : QuestionId, res : Resolution]

DimOf(q) == q.id[1]
Open(st) == {q \in st.questions : q.res = "open"}
Answered(st) == {q \in st.questions : q.res = "answered"}

NoRoadmap == [rev |-> 0, notes |-> [id \in QuestionId |-> 0]]
NoDims == [d \in {} |-> "green"]

Fresh == [ round |-> 0, limit |-> 1, dims |-> NoDims, questions |-> {},
           retired |-> {}, hash |-> NoRoadmap,
           signoff |-> "not-eligible", signedHash |-> NoRoadmap ]

(* converged: all dimensions green and no unresolved question. *)
NonGreen(st) == {d \in DOMAIN st.dims : st.dims[d] # "green"}
Converged(st) == NonGreen(st) = {} /\ Open(st) = {}

Idle == [at |-> "idle", st |-> Fresh, prior |-> NoDims, list |-> {}]
PassIdle == pass.at = "idle"
Still == Quiet => PassIdle /\ prompt = NoPrompt

Init ==
    /\ disk = NoState
    /\ roadmap = NoRoadmap
    /\ pass = Idle
    /\ prompt = NoPrompt
    /\ exit = "none"

-----------------------------------------------------------------------------
(* A pass of runConvergePass.                                              *)

(* readState: no file is a cold start; a file was written whole by this    *)
(* version, so that nothing is migrated or discarded.                      *)
ReadState == IF disk = NoState THEN Fresh ELSE disk

(* Read the state (or start fresh), hash the roadmap, remember the prior   *)
(* dimensions, and send the reviewers off.                                 *)
Begin(list, limit) ==
    /\ PassIdle
    /\ Quiet => prompt = NoPrompt
    /\ LET prior == ReadState
       IN  /\ prior.round < MaxRound
           /\ pass' = [ at |-> "review", list |-> list, prior |-> prior.dims,
                                st |-> [prior EXCEPT !.limit = limit, !.hash = roadmap] ]
    /\ UNCHANGED <<disk, roadmap, prompt, exit>>

(* What the reviewers return: an envelope with a status and perhaps a      *)
(* finding, or nothing usable (they threw, or ok is false).                *)
Outcome == [ok : {TRUE}, status : Verdicts, asks : BOOLEAN]
               \cup {[ok |-> FALSE, status |-> "yellow", asks |-> FALSE]}

Carried(prior, d) == IF d \in DOMAIN prior THEN prior[d] ELSE "yellow"

NextDims(prior, out) ==
    [d \in DOMAIN out |-> IF out[d].ok THEN out[d].status ELSE Carried(prior, d)]

(* Resolved questions stay, and those of dimensions not evaluated now; the *)
(* open ones of an evaluated dimension are replaced by its new findings.   *)
Preserved(st, list) ==
    {q \in st.questions : q.res # "open" \/ DimOf(q) \notin list}

Raised(out, round) ==
    {[id |-> <<d, round>>, res |-> "open"] : d \in {e \in DOMAIN out : out[e].asks}}

(* Mutant: "already resolved - don't touch" is lost. *)
AutoResolveAll(questions, retired) ==
    {IF DimOf(q) \in retired THEN [q EXCEPT !.res = "archived"] ELSE q : q \in questions}

(* autoResolveArchivedDimensions *)
AutoResolve(questions, retired) ==
    {IF q.res = "open" /\ DimOf(q) \in retired THEN [q EXCEPT !.res = "archived"]
                                               ELSE q : q \in questions}

(* Mutant: findings are numbered with the round before the increment. *)
MergeLate(st, prior, out) ==
    LET asked == Preserved(st, DOMAIN out) \cup Raised(out, IF st.round = 0 THEN 1 ELSE st.round)
    IN  [st EXCEPT !.round = @ + 1,
                   !.dims = NextDims(prior, out),
                   !.questions = AutoResolve(asked, st.retired)]

Merge(st, prior, out) ==
    LET round == st.round + 1
        asked == Preserved(st, DOMAIN out) \cup Raised(out, round)
    IN  [st EXCEPT !.round = round,
                   !.dims = NextDims(prior, out),
                   !.questions = AutoResolve(asked, st.retired)]

(* All reviewers are back: merge, and write state.toon.  The integrator    *)
(* runs when any question is resolved.                                     *)
Publish(out) ==
    /\ pass.at = "review"
    /\ LET st == Merge(pass.st, pass.prior, out)
       IN  /\ disk' = st
           /\ pass' = [pass EXCEPT !.st = st,
                          !.at = IF st.questions = Open(st) THEN "judge" ELSE "apply"]
    /\ UNCHANGED <<roadmap, prompt, exit>>

(* Mutant: archivedNames is not consulted. *)
ApplicableRetired(st) == {q.id : q \in {a \in Answered(st) : DimOf(a) \in Headings}}

(* Mutant: the integrator is given all questions, not the resolved ones. *)
ApplicableOpen(st) == {q.id : q \in {a \in st.questions : DimOf(a) \in Headings \ st.retired}}

(* The resolution blocks the integrator inserts: every answered question   *)
(* of a dimension that is not retired and has a heading.                   *)
Applicable(st) ==
    {q.id : q \in {a \in Answered(st) : DimOf(a) \in Headings \ st.retired}}

(* defaultIntegratorInvoker: one atomic write of ROADMAP.md. *)
Integrate ==
    /\ pass.at = "apply"
    /\ roadmap' = [roadmap EXCEPT !.notes =
                      [id \in QuestionId |-> IF id \in Applicable(pass.st) THEN @[id] + 1 ELSE @[id]]]
    /\ pass' = [pass EXCEPT !.at = "rehash"]
    /\ UNCHANGED <<disk, prompt, exit>>

(* Mutant: the state is saved with the hash taken when the pass began. *)
RehashNot ==
    /\ pass.at = "rehash"
    /\ disk' = pass.st
    /\ pass' = [pass EXCEPT !.at = "judge"]
    /\ UNCHANGED <<roadmap, prompt, exit>>

(* newContentHash is taken from the file and saved. *)
Rehash ==
    /\ pass.at = "rehash"
    /\ LET st == [pass.st EXCEPT !.hash = roadmap]
       IN  /\ disk' = st
           /\ pass' = [pass EXCEPT !.st = st, !.at = "judge"]
    /\ UNCHANGED <<roadmap, prompt, exit>>

(* Mutant: no finally, so only a completed pass lets go of the lock. *)
ReturnHolding(result) ==
    /\ pass' = IF result \in {"ok", "crashed"} THEN Idle ELSE pass
    /\ exit' = result

Return(result) == pass' = Idle /\ exit' = result

(* INTEGRATOR_NO_ENVELOPE: it threw, or reported failure, before or after  *)
(* its write.  The driver returns without touching the state again.        *)
IntegratorFails ==
    /\ pass.at \in {"apply", "rehash"}
    /\ Return("no-envelope")
    /\ UNCHANGED <<disk, roadmap, prompt>>

(* checkStall, given that the pass did not converge. *)
Stalled ==
    /\ ~Converged(pass.st)
    /\ pass.st.round >= 2
    /\ Answered(pass.st) = {}
    /\ pass.prior # NoDims
    /\ pass.st.dims = pass.prior

HaltStalled ==
    /\ pass.at = "judge"
    /\ Stalled
    /\ disk' = pass.st
    /\ Return("stalled")
    /\ UNCHANGED <<roadmap, prompt>>

(* checkPassCap *)
AtCap == pass.st.round >= pass.st.limit /\ NonGreen(pass.st) # {}

HaltAtCap ==
    /\ pass.at = "judge"
    /\ ~Stalled
    /\ AtCap
    /\ disk' = pass.st
    /\ Return("pass-cap")
    /\ UNCHANGED <<roadmap, prompt>>

(* Mutant: eligibility is never revoked. *)
EligibilityStays(st) ==
    IF st.signoff # "signed-off" /\ Converged(st) THEN "eligible" ELSE st.signoff

(* Mutant: a signed-off roadmap that converges again is eligible again. *)
EligibilityAgain(st) == IF Converged(st) THEN "eligible" ELSE "not-eligible"

(* The sign-off eligibility transition. *)
Eligibility(st) ==
    CASE st.signoff = "signed-off" -> "signed-off"
      [] st.signoff # "signed-off" /\ Converged(st) -> "eligible"
      [] OTHER -> "not-eligible"

Complete ==
    /\ pass.at = "judge"
    /\ ~Stalled
    /\ ~AtCap
    /\ disk' = [pass.st EXCEPT !.signoff = Eligibility(pass.st)]
    /\ Return("ok")
    /\ UNCHANGED <<roadmap, prompt>>

(* The driver is killed between two steps. *)
Crash ==
    /\ ~PassIdle
    /\ Return("crashed")
    /\ UNCHANGED <<disk, roadmap, prompt>>

Proceed ==
    \/ \E out \in [pass.list -> Outcome] : Publish(out)
    \/ Integrate \/ Rehash \/ IntegratorFails
    \/ HaltStalled \/ HaltAtCap \/ Complete

-----------------------------------------------------------------------------
(* The user, with an editor or an agent: not under src/ as a program.      *)

EditRoadmap ==
    /\ Still
    /\ roadmap.rev < MaxEdits
    /\ roadmap' = [roadmap EXCEPT !.rev = @ + 1]
    /\ UNCHANGED <<disk, pass, prompt, exit>>

(* resolved_at and resolution are filled in for an open question. *)
Answer ==
    /\ Still
    /\ disk # NoState
    /\ \E q \in Open(disk) :
          disk' = [disk EXCEPT !.questions =
                      (@ \ {q}) \cup {[q EXCEPT !.res = "answered"]}]
    /\ UNCHANGED <<roadmap, pass, prompt, exit>>

(* A dimension is added to archivedDimensions. *)
Retire ==
    /\ Still
    /\ disk # NoState
    /\ \E d \in Dims \ disk.retired : disk' = [disk EXCEPT !.retired = @ \cup {d}]
    /\ UNCHANGED <<roadmap, pass, prompt, exit>>

-----------------------------------------------------------------------------
(* runSignOff: read the state, show the diff, ask, and write what was read *)
(* with the consent and the hash of the roadmap by then.                   *)

Ask ==
    /\ Quiet => PassIdle
    /\ prompt = NoPrompt
    /\ disk # NoState
    /\ disk.signoff = "eligible"
    /\ prompt' = [st |-> disk]
    /\ UNCHANGED <<disk, roadmap, pass, exit>>

Consent ==
    /\ prompt # NoPrompt
    /\ disk' = [prompt.st EXCEPT !.signoff = "signed-off", !.signedHash = roadmap]
    /\ prompt' = NoPrompt
    /\ UNCHANGED <<roadmap, pass, exit>>

(* USER_REJECTED, or the process dies at its prompt. *)
Decline ==
    /\ prompt # NoPrompt
    /\ prompt' = NoPrompt
    /\ UNCHANGED <<disk, roadmap, pass, exit>>

Next ==
    \/ \E list \in DimensionLists, limit \in PassLimits : Begin(list, limit)
    \/ Proceed
    \/ Crash
    \/ EditRoadmap \/ Answer \/ Retire
    \/ Ask \/ Consent \/ Decline

(* A pass that runs takes its next step (reviewers that never answer count *)
(* as a crash); nothing obliges the user to do anything.                   *)
Spec == Init /\ [][Next]_vars
FairSpec == Spec /\ WF_vars(Proceed)

-----------------------------------------------------------------------------
(* Properties that hold.                                                   *)

Listings == UNION {[ds -> Status] : ds \in SUBSET Dims}
Roadmap == [rev : 0..MaxEdits, notes : [QuestionId -> Nat]]

ConvergeState ==
    [ round : 0..MaxRound, limit : 1..5, dims : Listings, questions : SUBSET Question,
      retired : SUBSET Dims, hash : Roadmap,
      signoff : {"not-eligible", "eligible", "signed-off"}, signedHash : Roadmap ]

ASSUME AbsenceAssumption == NoState \notin ConvergeState /\ NoPrompt \notin [st : ConvergeState]

(* A question is listed once, never both open and resolved, by a pass that    *)
(* is over or runs.                                                           *)
Numbered(st) ==
    /\ \A q, r \in st.questions : q.id = r.id => q = r
    /\ \A q \in st.questions : q.id[2] <= st.round

(* Every record has its fields in range and numbers its questions, on disk,   *)
(* in the memory of a pass, and while a sign-off waits for its user.          *)
TypeOK ==
    /\ disk \in ConvergeState \cup {NoState}
    /\ disk # NoState => Numbered(disk)
    /\ roadmap \in Roadmap
    /\ pass \in [at : {"idle", "review", "apply", "rehash", "judge"}, st : ConvergeState,
                 prior : Listings, list : SUBSET Dims]
    /\ Numbered(pass.st)
    /\ prompt \in [st : ConvergeState] \cup {NoPrompt}
    /\ prompt # NoPrompt => Numbered(prompt.st)
    /\ exit \in {"none", "ok", "stalled", "pass-cap", "no-envelope", "crashed"}

(* After a pass that ran to completion, "eligible" is the truth: all its   *)
(* dimensions are green and no question is open, whatever the user         *)
(* answered or retired since.                                              *)
EligibleMeansConverged ==
    (PassIdle /\ exit = "ok" /\ disk.signoff = "eligible") => Converged(disk)

(* A resolution block in ROADMAP.md has its answer recorded in state.toon, *)
(* also when the pass died between the two writes.                         *)
NotesAreAnswered ==
    \A id \in QuestionId : roadmap.notes[id] > 0 => [id |-> id, res |-> "answered"] \in disk.questions

(* The integrator's own edits do not invalidate the next pass: a pass that *)
(* was judged leaves the hash of the blocks it inserted.                   *)
OwnEditsDontInvalidate ==
    (PassIdle /\ exit \in {"ok", "stalled", "pass-cap"}) =>
        disk.hash.notes = roadmap.notes

(* An answer, once given, is never lost or reopened by a later pass.       *)
AnswersAreKept ==
    [][disk # NoState => Answered(disk) \subseteq disk'.questions]_vars

(* Nothing is inserted into the roadmap for a retired dimension.           *)
RetiredIsNotApplied ==
    [][\A id \in QuestionId :
          roadmap'.notes[id] > roadmap.notes[id] => id[1] \notin disk.retired]_vars

(* Every pass ends, releasing the lock, unless it is killed.               *)
PassEnds == ~PassIdle ~> PassIdle

(* The sign-off state seen by a reader of state.toon follows the protocol. *)
Protocol == INSTANCE SignOffProtocol WITH
               status <- IF disk = NoState THEN "not-eligible" ELSE disk.signoff
ImplementsProtocol == Protocol!Spec

-----------------------------------------------------------------------------
(* Properties that docs, comments or tests state and the code breaks.      *)

SignsOff == prompt # NoPrompt /\ disk' # disk /\ disk'.signoff = "signed-off"

(* Sign-off is refused while a dimension is not green or a question open.  *)
SignedOnlyConverged ==
    [][(SignsOff /\ disk.signoff # "signed-off") => Converged(disk')]_vars

(* A signed-off state is not overwritten.                                  *)
SignedOffIsFinal ==
    [][(disk # NoState /\ disk.signoff = "signed-off")
          => disk'.signoff = "signed-off"]_vars

(* Answers are consumed: each is applied to the roadmap once.              *)
(* (Passes that fail half-way are excused.)                                *)
AppliedOnce ==
    exit \notin {"no-envelope", "crashed"} =>
        \A id \in QuestionId : roadmap.notes[id] <= 1
=============================================================================
