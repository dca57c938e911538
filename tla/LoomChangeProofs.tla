--------------------------- MODULE LoomChangeProofs ---------------------------
(***************************************************************************)
(* Theorems about /loom-change, for any changes, domains and drafts.       *)
(***************************************************************************)
EXTENDS LoomChange, WellFoundedInduction, TLAPS

USE ChangeAssumption

-----------------------------------------------------------------------------
(* Least and greatest numbers.  Induction is by minimal counterexamples.   *)

LEMMA LeastIsIn ==
  ASSUME NEW S \in SUBSET Nat, S # {}
  PROVE  Min(S) \in S /\ \A x \in S : Min(S) <= x
  <1> DEFINE Below == {ss \in Nat \X Nat : ss[1] < ss[2]}
  <1>1. IsWellFoundedOn(Below, Nat)
    BY NatLessThanWellFounded DEF OpToRel
  <1>2. \E x \in S : \A y \in S : ~(<<y, x>> \in Below)
    <2> HIDE DEF Below
    <2> QED
      BY <1>1, WFMin
  <1>3. \A x, y \in Nat : <<y, x>> \in Below <=> y < x
    <2> TAKE x, y \in Nat
    <2>1. \A p : p \in Below <=> p \in Nat \X Nat /\ p[1] < p[2]
      OBVIOUS
    <2>2. <<y, x>> \in Below <=> <<y, x>> \in Nat \X Nat /\ <<y, x>>[1] < <<y, x>>[2]
      BY <2>1, Zenon
    <2> HIDE DEF Below
    <2> QED
      BY <2>2
  <1>4. \E x \in S : \A y \in S : x <= y
    <2>1. PICK x \in S : \A y \in S : ~(<<y, x>> \in Below)
      BY <1>2, Zenon
    <2> HIDE DEF Below
    <2>2. \A y \in S : ~(y < x)
      BY <1>3, <2>1, Zenon
    <2> QED
      BY <2>2
  <1> QED
    BY <1>4 DEF Min

Bounded(S) == \E b \in Nat : \A i \in S : i <= b

LEMMA GreatestIsIn ==
  ASSUME NEW S \in SUBSET Nat, S # {}, Bounded(S)
  PROVE  Max(S) \in S /\ \A x \in S : x <= Max(S)
  <1> DEFINE B == {b \in Nat : \A i \in S : i <= b}
             m == Min(B)
  <1>1. B \in SUBSET Nat /\ B # {}
    BY DEF Bounded
  <1>2. m \in B /\ \A b \in B : m <= b
    <2> HIDE DEF B
    <2> QED
      BY <1>1, LeastIsIn
  <1> HIDE DEF m
  <1>3. m \in S
    <2> SUFFICES ASSUME m \notin S
                 PROVE  FALSE
      OBVIOUS
    <2>1. \A i \in S : i <= m - 1 /\ m - 1 \in Nat
      BY <1>2
    <2>2. m - 1 \in B
      BY <2>1
    <2> QED
      BY <1>2, <2>2
  <1>4. \E x \in S : \A y \in S : x >= y
    BY <1>2, <1>3
  <1> QED
    BY <1>4 DEF Max

-----------------------------------------------------------------------------
(* Functions on part of a set, logs and pages.                             *)

Partial(D, X) == UNION {[ds -> X] : ds \in SUBSET D}

LEMMA PartialIntro ==
  ASSUME NEW D, NEW X, NEW ds \in SUBSET D, NEW f \in [ds -> X]
  PROVE  f \in Partial(D, X)
  BY DEF Partial

LEMMA PartialElim ==
  ASSUME NEW D, NEW X, NEW f \in Partial(D, X)
  PROVE  DOMAIN f \subseteq D /\ f \in [DOMAIN f -> X]
  BY DEF Partial

LEMMA RestrictType ==
  ASSUME NEW D, NEW X, NEW f \in Partial(D, X), NEW ds \in SUBSET DOMAIN f
  PROVE  /\ Restrict(f, ds) \in Partial(D, X)
         /\ DOMAIN Restrict(f, ds) = ds
         /\ \A d \in ds : Restrict(f, ds)[d] = f[d]
  <1>1. ds \subseteq D /\ f \in [DOMAIN f -> X]
    BY PartialElim
  <1>2. Restrict(f, ds) \in [ds -> X]
    BY <1>1 DEF Restrict
  <1> QED
    BY <1>1, <1>2, PartialIntro DEF Restrict

LEMMA NoDeltasType == \A D, X : NoDeltas \in Partial(D, X) /\ DOMAIN NoDeltas = {}
  <1>1. \A X : NoDeltas \in [{} -> X] /\ DOMAIN NoDeltas = {}
    BY DEF NoDeltas
  <1> QED
    BY <1>1, PartialIntro

LEMMA OnlyNoDeltas ==
  ASSUME NEW D, NEW X, NEW f \in Partial(D, X), DOMAIN f = {}
  PROVE  f = NoDeltas
  BY PartialElim DEF NoDeltas

LEMMA LogGrows ==
  ASSUME NEW S, NEW log \in Seq(S), NEW e \in S
  PROVE  /\ Append(log, e) \in Seq(S) /\ Len(Append(log, e)) = Len(log) + 1
         /\ Last(Append(log, e)) = e
         /\ IsPrefix(log, Append(log, e))
         /\ IsPrefix(log, log)
         /\ Range(Append(log, e)) = Range(log) \cup {e}
  <1>1. /\ Append(log, e) \in Seq(S) /\ Len(Append(log, e)) = Len(log) + 1
        /\ Append(log, e)[Len(log) + 1] = e
        /\ \A i \in 1..Len(log) : Append(log, e)[i] = log[i]
    OBVIOUS
  <1>2. Last(Append(log, e)) = e
    BY <1>1 DEF Last
  <1>3. SubSeq(log, 1, Len(log)) = SubSeq(Append(log, e), 1, Len(log))
    OBVIOUS
  <1>4. IsPrefix(log, Append(log, e)) /\ IsPrefix(log, log)
    BY <1>1, <1>3 DEF IsPrefix
  <1>5. Range(Append(log, e)) = Range(log) \cup {e}
    <2>1. DOMAIN log = 1..Len(log) /\ DOMAIN Append(log, e) = 1..(Len(log) + 1)
      BY <1>1
    <2>2. 1..(Len(log) + 1) = (1..Len(log)) \cup {Len(log) + 1}
      OBVIOUS
    <2> QED
      BY <1>1, <2>1, <2>2 DEF Range
  <1> QED
    BY <1>1, <1>2, <1>4, <1>5

-----------------------------------------------------------------------------
(* Types of files and of memory.                                           *)

Requirements == {f \in Partial(Nat, Texts) : Bounded(DOMAIN f)}
Page == [reqs : Requirements, changes : Seq(Change)]
Pages == Partial(Domain, Page)
Deltas == Partial(Domain, Operation)
Proposals == [status : Status \cup {"none"}, deltas : Deltas]
Logged == {st \in ChangeState : st.status = Last(st.log)}
Commands == [ at : {"proposal", "state", "archive", "conflict", "backup", "commit", "scan", "peers", "peer-proposal"},
              c : Change, to : Status, now : Nat, st : Logged \cup {Absent}, deltas : Deltas,
              seen : Pages, todo : SUBSET Domain, peers : Partial(Change, Logged), peer : Change \cup {Absent} ]

TypeInv ==
    /\ clock \in Nat
    /\ pages \in [Domain -> Page]
    /\ backup \in Pages
    /\ proposal \in [Change -> Proposals \cup {Absent}]
    /\ state \in [Change -> Logged \cup {Absent}]
    /\ session \in [Session -> Commands \cup {Idle}]
    /\ killed \subseteq Change /\ unrestored \subseteq Change

LEMMA Present ==
  /\ \A p \in Proposals : p # Absent
  /\ \A st \in Logged : st # Absent
  /\ \A c \in Change : c # Absent
  /\ \A r \in Commands : r # Idle /\ r.at # "idle"
  /\ Idle.at = "idle"
  <1>1. ASSUME NEW p \in Proposals
        PROVE  p # Absent
    <2>1. DOMAIN p.deltas \in SUBSET Domain /\ p.deltas \in [DOMAIN p.deltas -> Operation]
      BY PartialElim DEF Proposals, Deltas
    <2>2. p \in ProposalOf(DOMAIN p.deltas)
      BY <2>1 DEF Proposals, ProposalOf
    <2> QED
      BY <2>1, <2>2, AbsenceAssumption
  <1>2. \A st \in Logged : st # Absent
    BY AbsenceAssumption DEF Logged
  <1>3. \A r \in Commands : r.at # "idle"
    BY DEF Commands
  <1>4. Idle.at = "idle"
    BY DEF Idle
  <1> QED
    BY <1>1, <1>2, <1>3, <1>4, AbsenceAssumption

LEMMA MovedType ==
  ASSUME NEW st \in Logged \cup {Absent}, NEW to \in Status, NEW now \in Nat
  PROVE  /\ Moved(st, to, now) \in Logged
         /\ Moved(st, to, now).status = to
         /\ st # Absent => IsPrefix(st.log, Moved(st, to, now).log) /\ Moved(st, to, now).stamp > st.stamp
  <1>1. CASE st = Absent
    <2>1. <<to>> \in Seq(Status) /\ Last(<<to>>) = to
      BY DEF Last
    <2> QED
      BY <1>1, <2>1 DEF Moved, Logged, ChangeState
  <1>2. CASE st # Absent
    <2>1. st \in ChangeState /\ st.log \in Seq(Status) /\ st.stamp \in Nat
      BY <1>2 DEF Logged, ChangeState
    <2>2. BumpAfter(st.stamp, now) \in Nat /\ BumpAfter(st.stamp, now) > st.stamp
      BY <2>1 DEF BumpAfter
    <2>3. Append(st.log, to) \in Seq(Status) /\ Last(Append(st.log, to)) = to /\ IsPrefix(st.log, Append(st.log, to))
      BY <2>1, LogGrows
    <2> DEFINE log == Append(st.log, to)
               stamp == BumpAfter(st.stamp, now)
    <2>4. Moved(st, to, now) = [status |-> to, log |-> log, stamp |-> stamp]
      BY <1>2 DEF Moved
    <2>5. stamp \in Nat /\ stamp > st.stamp /\ log \in Seq(Status) /\ Last(log) = to /\ IsPrefix(st.log, log)
      BY <2>2, <2>3
    <2> HIDE DEF log, stamp
    <2> QED
      BY <1>2, <2>4, <2>5 DEF Logged, ChangeState
  <1> QED
    BY <1>1, <1>2

LEMMA QuickType ==
  ASSUME NEW now \in Nat
  PROVE  QuickState(now) \in Logged /\ QuickState(now).status = "in-progress"
  <1> DEFINE log == <<"proposed", "reviewed", "approved", "in-progress">>
  <1>1. log \in Seq(Status)
    BY DEF Status, InFlight
  <1>2. Last(log) = "in-progress"
    BY DEF Last
  <1> HIDE DEF log
  <1>3. QuickState(now) = [status |-> "in-progress", stamp |-> now, log |-> log]
    BY DEF QuickState, log
  <1> QED
    BY <1>1, <1>2, <1>3 DEF Logged, ChangeState, Status, InFlight

(* A committed page keeps its requirements in order and names the change.   *)
LEMMA ComposeType ==
  ASSUME NEW page \in Page, NEW op \in Operation, NEW c \in Change
  PROVE  /\ Compose(page, op, c) \in Page
         /\ Compose(page, op, c).changes = Append(page.changes, c)
  <1> DEFINE ids == DOMAIN page.reqs
             next == IF ids = {} THEN 1 ELSE Max(ids) + 1
             added == [i \in ids \cup {next} |-> IF i = next THEN c ELSE page.reqs[i]]
             reqs == CASE op.kind = "add" -> added
                       [] op.kind = "modify" -> [page.reqs EXCEPT ![op.id] = c]
                       [] op.kind = "remove" -> Restrict(page.reqs, ids \ {op.id})
  <1>1. page.reqs \in Partial(Nat, Texts) /\ Bounded(ids) /\ page.changes \in Seq(Change)
    BY DEF Page, Requirements
  <1>2. ids \in SUBSET Nat /\ page.reqs \in [ids -> Texts]
    BY <1>1, PartialElim
  <1>3. next \in Nat /\ \A i \in ids : i <= next
    <2>1. CASE ids = {}
      BY <2>1
    <2>2. CASE ids # {}
      <3> HIDE DEF ids
      <3>1. Max(ids) \in ids /\ \A i \in ids : i <= Max(ids)
        BY <1>1, <1>2, <2>2, GreatestIsIn
      <3>2. Max(ids) \in Nat /\ \A i \in ids : i \in Nat
        BY <1>2, <3>1
      <3>3. next = Max(ids) + 1
        BY <2>2
      <3> QED
        BY <3>1, <3>2, <3>3
    <2> QED
      BY <2>1, <2>2
  <1> HIDE DEF next
  <1>4. added \in Requirements
    <2>1. ids \cup {next} \in SUBSET Nat /\ Bounded(ids \cup {next})
      BY <1>2, <1>3 DEF Bounded
    <2>2. added \in [ids \cup {next} -> Texts]
      BY <1>2 DEF Texts
    <2> QED
      BY <2>1, <2>2, PartialIntro DEF Requirements
  <1>5. [page.reqs EXCEPT ![op.id] = c] \in Requirements
    <2>1. [page.reqs EXCEPT ![op.id] = c] \in [ids -> Texts]
      BY <1>2 DEF Texts
    <2> QED
      BY <1>1, <1>2, <2>1, PartialIntro DEF Requirements
  <1>6. Restrict(page.reqs, ids \ {op.id}) \in Requirements
    BY <1>1, <1>2, RestrictType DEF Requirements, Bounded
  <1>7. reqs \in Requirements
    BY <1>4, <1>5, <1>6 DEF Operation, Kind
  <1>8. Compose(page, op, c) = [reqs |-> reqs, changes |-> Append(page.changes, c)]
    BY Zenon DEF Compose, next
  <1> HIDE DEF reqs
  <1> QED
    BY <1>1, <1>7, <1>8, LogGrows DEF Page

LEMMA DraftedType ==
  ASSUME NEW f \in Drafts, Draftable(f), pages \in [Domain -> Page]
  PROVE  Drafted(f) \in Deltas
  <1>1. PICK ds \in SUBSET Domain : f \in [ds -> [kind : Kind, id : Nat]]
    BY ChangeAssumption
  <1>2. ASSUME NEW d \in ds
        PROVE  (IF f[d].kind = "modify" THEN pages[d].reqs[f[d].id] ELSE Absent) \in Texts
    <2>1. pages[d].reqs \in Partial(Nat, Texts)
      BY DEF Page, Requirements
    <2>2. pages[d].reqs \in [DOMAIN pages[d].reqs -> Texts]
      BY <2>1, PartialElim
    <2>3. f[d].kind = "modify" => f[d].id \in DOMAIN pages[d].reqs
      BY <1>1 DEF Draftable
    <2> QED
      BY <2>2, <2>3 DEF Texts
  <1>3. Drafted(f) \in [ds -> Operation]
    BY <1>1, <1>2 DEF Drafted, Operation
  <1> QED
    BY <1>3, PartialIntro DEF Deltas

-----------------------------------------------------------------------------
(* What holds of the memory of a command, and of the files it needs,       *)
(* whatever other commands do.                                             *)

Memory(r) ==
    /\ proposal[r.c] # Absent
    /\ \A p \in DOMAIN r.peers : proposal[p] # Absent
    /\ r.todo \subseteq DOMAIN r.seen
    /\ r.at \in {"conflict", "backup", "commit", "scan", "peers", "peer-proposal"} => r.to = "archived"
    /\ r.at = "archive" => r.to = "in-progress" /\ state[r.c] # Absent
    /\ r.to = "archived" => r.st # Absent
    /\ r.at \in {"proposal", "state"} /\ r.st = Absent => r.to \in {"proposed", "in-progress"}
    /\ r.at \in {"backup", "commit"} => DOMAIN r.seen = DOMAIN r.deltas /\ r.todo # {}
    /\ r.at = "backup" => r.todo = DOMAIN r.deltas
    /\ r.at = "peer-proposal" => r.peer \in DOMAIN r.peers

MemoryInv ==
    /\ \A c \in Change : state[c] # Absent => proposal[c] # Absent
    /\ \A s \in Session : session[s] # Idle => Memory(session[s])

TMInv == TypeInv /\ MemoryInv

LEMMA TypeInit == Init => TMInv
  <1> SUFFICES ASSUME Init
               PROVE  TMInv
    OBVIOUS
  <1>1. [i \in {1} |-> Absent] \in Requirements
    <2>1. [i \in {1} |-> Absent] \in [{1} -> Texts] /\ {1} \in SUBSET Nat /\ Bounded({1})
      BY DEF Texts, Bounded
    <2> QED
      BY <2>1, PartialIntro DEF Requirements
  <1>2. pages \in [Domain -> Page]
    BY <1>1 DEF Init, Page
  <1>3. backup \in Pages
    BY NoDeltasType DEF Init, Pages
  <1> QED
    BY <1>2, <1>3 DEF Init, TMInv, TypeInv, MemoryInv

LEMMA PutType ==
  ASSUME session \in [Session -> Commands \cup {Idle}], NEW s \in Session, NEW r \in Commands \cup {Idle}, Put(s, r)
  PROVE  /\ session' \in [Session -> Commands \cup {Idle}]
         /\ session'[s] = r
         /\ \A t \in Session \ {s} : session'[t] = session[t]
  BY DEF Put

LEMMA GotoType ==
  ASSUME NEW r \in Commands, NEW at \in {"proposal", "state", "archive", "conflict", "backup", "commit", "scan", "peers", "peer-proposal"}
  PROVE  /\ [r EXCEPT !.at = at] \in Commands
         /\ [r EXCEPT !.at = at] = [ at |-> at, c |-> r.c, to |-> r.to, now |-> r.now, st |-> r.st, deltas |-> r.deltas,
                                      seen |-> r.seen, todo |-> r.todo, peers |-> r.peers, peer |-> r.peer ]
  BY DEF Commands

(* Files are not deleted, so a command that has what it needs keeps it.     *)
LEMMA MemoryStep ==
  ASSUME TMInv, TypeInv', NEW s \in Session,
         \A c \in Change : /\ proposal[c] # Absent => proposal'[c] # Absent
                           /\ state[c] # Absent => state'[c] # Absent
                           /\ state'[c] # Absent => state[c] # Absent \/ proposal'[c] # Absent,
         \A t \in Session \ {s} : session'[t] = session[t],
         session'[s] # Idle => Memory(session[s])'
  PROVE  TMInv'
  <1>1. ASSUME NEW t \in Session \ {s}, session'[t] # Idle
        PROVE  Memory(session[t])'
    <2>1. session[t] \in Commands /\ Memory(session[t])
      BY <1>1 DEF TMInv, TypeInv, MemoryInv
    <2>2. session[t].c \in Change /\ DOMAIN session[t].peers \subseteq Change
      BY <2>1, PartialElim DEF Commands
    <2> QED
      BY <1>1, <2>1, <2>2 DEF Memory
  <1> QED
    BY <1>1 DEF TMInv, MemoryInv

LEMMA BeginType ==
  ASSUME TMInv, NEW s \in Session, NEW r \in Commands, Begin(s, r),
         proposal' \in [Change -> Proposals \cup {Absent}],
         \A c \in Change : proposal[c] # Absent => proposal'[c] # Absent,
         UNCHANGED <<pages, backup, state, killed, unrestored>>,
         Memory(r)'
  PROVE  TMInv'
  <1>1. /\ session' \in [Session -> Commands \cup {Idle}]
        /\ session'[s] = r
        /\ \A t \in Session \ {s} : session'[t] = session[t]
    BY PutType DEF Begin, TMInv, TypeInv
  <1>2. TypeInv'
    BY <1>1 DEF TMInv, TypeInv, Begin
  <1>3. Memory(session[s])'
    BY <1>1
  <1> QED
    BY <1>1, <1>2, <1>3, MemoryStep DEF TMInv, MemoryInv

LEMMA WritingType ==
  ASSUME TMInv, NEW s \in Session, NEW c \in Change, NEW to \in Status, NEW st \in Logged \cup {Absent},
         NEW deltas \in Deltas, Begin(s, Writing(c, to, st, deltas)),
         proposal' \in [Change -> Proposals \cup {Absent}],
         \A d \in Change : proposal[d] # Absent => proposal'[d] # Absent,
         UNCHANGED <<pages, backup, state, killed, unrestored>>,
         proposal'[c] # Absent, to # "archived", st = Absent => to \in {"proposed", "in-progress"}
  PROVE  TMInv'
  <1>0. PICK r : r = Writing(c, to, st, deltas)
    OBVIOUS
  <1>1. NoDeltas \in Pages /\ NoDeltas \in Partial(Change, Logged) /\ DOMAIN NoDeltas = {}
    BY NoDeltasType DEF Pages
  <1>2. clock + 1 \in Nat
    BY DEF TMInv, TypeInv
  <1>3. /\ r \in Commands
        /\ r = [ at |-> "proposal", c |-> c, to |-> to, now |-> clock + 1, st |-> st, deltas |-> deltas,
                 seen |-> NoDeltas, todo |-> {}, peers |-> NoDeltas, peer |-> Absent ]
    BY <1>0, <1>1, <1>2 DEF Writing, Commands
  <1>4. Memory(r)'
    BY <1>1, <1>3 DEF Memory
  <1>5. Begin(s, r)
    BY <1>0
  <1> QED
    BY <1>3, <1>4, <1>5, BeginType

LEMMA CommandType ==
  ASSUME TMInv, NEW s \in Session, session[s].at # "idle"
  PROVE  /\ session[s] \in Commands /\ Memory(session[s])
         /\ session[s].c \in Change /\ session[s].to \in Status /\ session[s].now \in Nat
         /\ session[s].st \in Logged \cup {Absent} /\ session[s].deltas \in Deltas
         /\ session[s].seen \in Pages /\ session[s].todo \in SUBSET Domain
         /\ session[s].peers \in Partial(Change, Logged) /\ session[s].peer \in Change \cup {Absent}
         /\ proposal[session[s].c] \in Proposals
  <1>1. session[s] # Idle
    BY Present
  <1>2. session[s] \in Commands /\ Memory(session[s])
    BY <1>1 DEF TMInv, TypeInv, MemoryInv
  <1> QED
    BY <1>2 DEF Commands, Memory, TMInv, TypeInv

LEMMA EndType ==
  ASSUME TMInv, NEW s \in Session, End(s), UNCHANGED <<clock, proposal>>,
         pages' \in [Domain -> Page], backup' \in Pages,
         state' \in [Change -> Logged \cup {Absent}], killed' \subseteq Change, unrestored' \subseteq Change,
         \A c \in Change : /\ state[c] # Absent => state'[c] # Absent
                           /\ state'[c] # Absent => state[c] # Absent \/ proposal[c] # Absent
  PROVE  TMInv'
  <1>1. /\ session' \in [Session -> Commands \cup {Idle}]
        /\ session'[s] = Idle
        /\ \A t \in Session \ {s} : session'[t] = session[t]
    BY PutType DEF End, TMInv, TypeInv
  <1>2. TypeInv'
    BY <1>1 DEF TMInv, TypeInv
  <1> QED
    BY <1>1, <1>2, MemoryStep DEF TMInv, MemoryInv

LEMMA PutStep ==
  ASSUME TMInv, NEW s \in Session, NEW r \in Commands, Put(s, r), UNCHANGED <<clock, killed, unrestored>>,
         pages' \in [Domain -> Page], backup' \in Pages,
         proposal' \in [Change -> Proposals \cup {Absent}],
         state' \in [Change -> Logged \cup {Absent}],
         \A c \in Change : /\ proposal[c] # Absent => proposal'[c] # Absent
                           /\ state[c] # Absent => state'[c] # Absent
                           /\ state'[c] # Absent => state[c] # Absent \/ proposal'[c] # Absent,
         Memory(r)'
  PROVE  TMInv'
  <1>1. /\ session' \in [Session -> Commands \cup {Idle}]
        /\ session'[s] = r
        /\ \A t \in Session \ {s} : session'[t] = session[t]
    BY PutType DEF TMInv, TypeInv
  <1>2. TypeInv'
    BY <1>1 DEF TMInv, TypeInv
  <1>3. Memory(session[s])'
    BY <1>1
  <1> QED
    BY <1>1, <1>2, <1>3, MemoryStep

LEMMA BeginsType ==
  ASSUME TMInv, NEW s \in Session, NEW c \in Change
  PROVE  /\ BeginInit(s, c) => TMInv'
         /\ \A to \in {"reviewed", "approved", "in-progress", "rejected"} : BeginMove(s, c, to) => TMInv'
         /\ \A f \in Drafts : BeginQuick(s, c, f) => TMInv'
  <1>a. /\ proposal \in [Change -> Proposals \cup {Absent}] /\ state[c] \in Logged \cup {Absent}
        /\ pages \in [Domain -> Page] /\ NoDeltas \in Deltas
        /\ state[c] # Absent => proposal[c] # Absent
    BY NoDeltasType DEF TMInv, TypeInv, MemoryInv, Deltas
  <1>b. Directory \in Proposals
    BY <1>a DEF Directory, Proposals
  <1>1. ASSUME BeginInit(s, c)
        PROVE  TMInv'
    <2>1. /\ proposal' \in [Change -> Proposals \cup {Absent}]
          /\ \A d \in Change : proposal[d] # Absent => proposal'[d] # Absent
          /\ proposal'[c] # Absent
      BY <1>1, <1>a, <1>b, Present DEF BeginInit
    <2> QED
      BY <1>1, <1>a, <2>1, WritingType DEF BeginInit, Status, InFlight
  <1>2. ASSUME NEW to \in {"reviewed", "approved", "in-progress", "rejected"}, BeginMove(s, c, to)
        PROVE  TMInv'
    <2>1. to \in Status /\ to # "archived"
      BY DEF Status, InFlight
    <2> QED
      BY <1>2, <1>a, <2>1, WritingType DEF BeginMove
  <1>3. ASSUME NEW f \in Drafts, BeginQuick(s, c, f)
        PROVE  TMInv'
    <2>1. Drafted(f) \in Deltas
      BY <1>3, <1>a, DraftedType DEF BeginQuick
    <2>2. /\ proposal' \in [Change -> Proposals \cup {Absent}]
          /\ \A d \in Change : proposal[d] # Absent => proposal'[d] # Absent
          /\ proposal'[c] # Absent
      BY <1>3, <1>a, <1>b, Present DEF BeginQuick
    <2> QED
      BY <1>3, <1>a, <2>1, <2>2, WritingType DEF BeginQuick, Status, InFlight
  <1> QED
    BY <1>1, <1>2, <1>3

LEMMA WritesType ==
  ASSUME TMInv, NEW s \in Session
  PROVE  /\ WriteProposal(s) => TMInv'
         /\ WriteState(s) => TMInv'
  <1>1. ASSUME WriteProposal(s)
        PROVE  TMInv'
    <2>1. PICK r : r = session[s]
      OBVIOUS
    <2>2. /\ r \in Commands /\ Memory(r) /\ r.c \in Change /\ r.to \in Status /\ r.deltas \in Deltas
          /\ proposal[r.c] \in Proposals /\ r.at = "proposal"
      BY <1>1, <2>1, CommandType DEF WriteProposal
    <2> DEFINE deltas == IF r.to = "proposed" \/ r.st = Absent THEN r.deltas ELSE proposal[r.c].deltas
               new == [status |-> r.to, deltas |-> deltas]
               next == [r EXCEPT !.at = "state"]
    <2>3. proposal' = [proposal EXCEPT ![r.c] = new] /\ Put(s, next) /\ UNCHANGED <<clock, pages, backup, state, killed, unrestored>>
      BY <1>1, <2>1, Zenon DEF WriteProposal, Goto
    <2>4. deltas \in Deltas
      BY <2>2 DEF Proposals
    <2> HIDE DEF deltas
    <2>5. new \in Proposals /\ new # Absent
      BY <2>2, <2>4, Present DEF Proposals
    <2> HIDE DEF new
    <2>6. /\ proposal' \in [Change -> Proposals \cup {Absent}]
          /\ \A c \in Change : proposal[c] # Absent => proposal'[c] # Absent
      BY <2>2, <2>3, <2>5 DEF TMInv, TypeInv
    <2>7. DOMAIN r.peers \subseteq Change
      BY <2>2, PartialElim DEF Commands
    <2>8. PICK n : n = next
      OBVIOUS
    <2>9. n \in Commands /\ n = [ at |-> "state", c |-> r.c, to |-> r.to, now |-> r.now, st |-> r.st, deltas |-> r.deltas,
                                  seen |-> r.seen, todo |-> r.todo, peers |-> r.peers, peer |-> r.peer ]
      BY <2>2, <2>8, GotoType
    <2>10. Memory(n)'
      BY <2>2, <2>3, <2>6, <2>7, <2>9 DEF Memory
    <2> QED
      BY <2>3, <2>6, <2>8, <2>9, <2>10, PutStep DEF TMInv, TypeInv, MemoryInv
  <1>2. ASSUME WriteState(s)
        PROVE  TMInv'
    <2>1. PICK r : r = session[s]
      OBVIOUS
    <2>2. /\ r \in Commands /\ Memory(r) /\ r.c \in Change /\ r.to \in Status /\ r.now \in Nat
          /\ r.st \in Logged \cup {Absent} /\ state[r.c] \in Logged \cup {Absent} /\ r.at = "state"
          /\ proposal[r.c] # Absent
      BY <1>2, <2>1, CommandType, Present DEF WriteState, TMInv, TypeInv
    <2> DEFINE st == NewState(r)
    <2>3. st \in Logged
      BY <2>2, MovedType, QuickType DEF NewState
    <2>4. /\ \/ state' = [state EXCEPT ![r.c] = st] /\ (End(s) \/ (After(r) # "idle" /\ Goto(s, After(r))))
             \/ UNCHANGED state /\ End(s)
          /\ UNCHANGED <<clock, pages, backup, proposal, killed, unrestored>>
          /\ Goto(s, After(r)) /\ After(r) # "idle" => state' = [state EXCEPT ![r.c] = st] \/ End(s)
      BY <1>2, <2>1 DEF WriteState
    <2> HIDE DEF st
    <2>5. /\ state' \in [Change -> Logged \cup {Absent}]
          /\ \A c \in Change : state[c] # Absent => state'[c] # Absent
          /\ \A c \in Change : state'[c] # Absent => state[c] # Absent \/ proposal[c] # Absent
      BY <2>2, <2>3, <2>4, Present DEF TMInv, TypeInv
    <2>6. CASE End(s)
      BY <2>4, <2>5, <2>6, EndType DEF TMInv, TypeInv
    <2>7. CASE ~End(s)
      <3>1. After(r) # "idle" /\ Put(s, [r EXCEPT !.at = After(r)]) /\ state' = [state EXCEPT ![r.c] = st]
        BY <2>1, <2>4, <2>7 DEF Goto
      <3>2. PICK n : n = [r EXCEPT !.at = After(r)]
        OBVIOUS
      <3>3. /\ After(r) \in {"scan", "archive"}
            /\ After(r) = "scan" => r.to = "archived"
            /\ After(r) = "archive" => r.to = "in-progress"
        BY <3>1 DEF After, Quick
      <3>4. state'[r.c] # Absent
        BY <2>2, <2>3, <3>1, Present DEF TMInv, TypeInv
      <3>5. n \in Commands /\ n = [ at |-> After(r), c |-> r.c, to |-> r.to, now |-> r.now, st |-> r.st, deltas |-> r.deltas,
                                    seen |-> r.seen, todo |-> r.todo, peers |-> r.peers, peer |-> r.peer ]
        BY <2>2, <3>2, <3>3, GotoType
      <3>6. Memory(n)'
        BY <2>2, <2>4, <3>3, <3>4, <3>5 DEF Memory
      <3> QED
        BY <2>4, <2>5, <3>1, <3>2, <3>5, <3>6, PutStep DEF TMInv, TypeInv
    <2> QED
      BY <2>6, <2>7
  <1> QED
    BY <1>1, <1>2

LEMMA ArchivingType ==
  ASSUME TMInv, NEW c \in Change, NEW now \in Nat, state[c] # Absent, PreFlight(proposal[c].deltas)
  PROVE  Archiving(c, now) \in Commands /\ Memory(Archiving(c, now))
  <1> DEFINE deltas == proposal[c].deltas
             seen == [d \in DOMAIN deltas |-> pages[d]]
             at == IF Conflicts(c) = {} THEN "backup" ELSE "conflict"
  <1>1. proposal[c] # Absent /\ proposal[c] \in Proposals /\ deltas \in Deltas /\ pages \in [Domain -> Page]
        /\ state[c] \in Logged
    BY DEF TMInv, TypeInv, MemoryInv, Proposals
  <1>2. DOMAIN deltas \subseteq Domain /\ DOMAIN deltas # {}
    <2>1. deltas # NoDeltas
      BY DEF PreFlight
    <2>2. deltas \in Partial(Domain, Operation)
      BY <1>1 DEF Deltas
    <2> HIDE DEF deltas
    <2> QED
      BY <2>1, <2>2, PartialElim, OnlyNoDeltas
  <1>3. seen \in Pages /\ DOMAIN seen = DOMAIN deltas
    <2>1. seen \in [DOMAIN deltas -> Page]
      BY <1>1, <1>2
    <2> QED
      BY <1>2, <2>1, PartialIntro DEF Pages
  <1>4. NoDeltas \in Partial(Change, Logged) /\ DOMAIN NoDeltas = {}
    BY NoDeltasType
  <1>5. at \in {"backup", "conflict"}
    OBVIOUS
  <1>6. Archiving(c, now) = [ at |-> at, c |-> c, to |-> "archived", now |-> now, st |-> state[c], deltas |-> deltas,
                              seen |-> seen, todo |-> DOMAIN deltas, peers |-> NoDeltas, peer |-> Absent ]
    BY DEF Archiving
  <1>7. "archived" \in Status
    BY DEF Status
  <1> HIDE DEF deltas, seen, at
  <1>8. Archiving(c, now) \in Commands
    BY <1>1, <1>2, <1>3, <1>4, <1>5, <1>6, <1>7 DEF Commands
  <1>9. Memory(Archiving(c, now))
    BY <1>1, <1>2, <1>3, <1>4, <1>5, <1>6 DEF Memory
  <1> QED
    BY <1>8, <1>9

LEMMA ArchiveBeginsType ==
  ASSUME TMInv, NEW s \in Session, NEW c \in Change
  PROVE  /\ BeginArchive(s, c) => TMInv'
         /\ ContinueQuick(s) => TMInv'
  <1>1. ASSUME BeginArchive(s, c)
        PROVE  TMInv'
    <2>1. PICK r : r = Archiving(c, clock + 1)
      OBVIOUS
    <2>2. clock + 1 \in Nat
      BY DEF TMInv, TypeInv
    <2>3. r \in Commands /\ Memory(r)
      BY <1>1, <2>1, <2>2, ArchivingType DEF BeginArchive
    <2>4. Memory(r)'
      BY <1>1, <2>3 DEF BeginArchive, Memory
    <2> QED
      BY <1>1, <2>1, <2>3, <2>4, BeginType DEF BeginArchive, TMInv, TypeInv
  <1>2. ASSUME ContinueQuick(s)
        PROVE  TMInv'
    <2>1. /\ session[s].c \in Change /\ session[s].now \in Nat /\ state[session[s].c] # Absent
          /\ UNCHANGED <<clock, pages, backup, proposal, state, killed, unrestored>>
      BY <1>2, CommandType DEF ContinueQuick, Memory
    <2>2. CASE End(s)
      BY <2>1, <2>2, EndType DEF TMInv, TypeInv
    <2>3. CASE ~End(s)
      <3>1. PICK r : r = Archiving(session[s].c, session[s].now)
        OBVIOUS
      <3>2. Put(s, r) /\ PreFlight(proposal[session[s].c].deltas)
        BY <1>2, <2>3, <3>1 DEF ContinueQuick
      <3>3. r \in Commands /\ Memory(r)
        BY <2>1, <3>1, <3>2, ArchivingType
      <3>4. Memory(r)'
        BY <2>1, <3>3 DEF Memory
      <3> QED
        BY <2>1, <3>2, <3>3, <3>4, PutStep DEF TMInv, TypeInv
    <2> QED
      BY <2>2, <2>3
  <1> QED
    BY <1>1, <1>2

(* A record of a conflict moves no status and forgets no transition.        *)
LEMMA StampType ==
  ASSUME NEW st \in Logged, NEW now \in Nat
  PROVE  LET new == [st EXCEPT !.stamp = BumpAfter(st.stamp, now)]
         IN  new \in Logged /\ new.status = st.status /\ new.log = st.log
  <1>1. BumpAfter(st.stamp, now) \in Nat
    BY DEF Logged, ChangeState, BumpAfter
  <1> QED
    BY <1>1 DEF Logged, ChangeState

LEMMA ConflictType ==
  ASSUME TMInv, NEW s \in Session, RecordConflicts(s)
  PROVE  /\ TMInv'
         /\ \A c \in Change : state'[c] = state[c] \/
              \E st \in {state[c], session[s].st} :
                 /\ st # Absent /\ st \in Logged
                 /\ c # session[s].c => st = state[c]
                 /\ state'[c] \in Logged /\ state'[c].status = st.status /\ state'[c].log = st.log
  <1>1. PICK r : r = session[s]
    OBVIOUS
  <1>2. /\ r.c \in Change /\ r.now \in Nat /\ r.st # Absent /\ r.st \in Logged /\ proposal[r.c] # Absent
        /\ state \in [Change -> Logged \cup {Absent}]
    BY <1>1, CommandType, Present DEF RecordConflicts, Memory, TMInv, TypeInv
  <1> DEFINE own == [r.st EXCEPT !.stamp = BumpAfter(r.st.stamp, r.now)]
             peer(p) == [state[p] EXCEPT !.stamp = BumpAfter(state[p].stamp, r.now)]
  <1>3. state' = [p \in Change |-> CASE p = r.c /\ Accepted(p, own) -> own
                                     [] p \in Conflicts(r.c) -> peer(p)
                                     [] OTHER -> state[p]]
    BY <1>1 DEF RecordConflicts
  <1>4. own \in Logged /\ own.status = r.st.status /\ own.log = r.st.log
    BY <1>2, StampType
  <1>5. ASSUME NEW p \in Conflicts(r.c)
        PROVE  p \in Change /\ p # r.c /\ state[p] # Absent /\ state[p] \in Logged
               /\ peer(p) \in Logged /\ peer(p).status = state[p].status /\ peer(p).log = state[p].log
    BY <1>2, <1>5, StampType DEF Conflicts, Peers, Listed
  <1> HIDE DEF own, peer
  <1>6. ASSUME NEW c \in Change
        PROVE  state'[c] = state[c] \/
              \E st \in {state[c], session[s].st} :
                 /\ st # Absent /\ st \in Logged
                 /\ c # session[s].c => st = state[c]
                 /\ state'[c] \in Logged /\ state'[c].status = st.status /\ state'[c].log = st.log
    <2>1. CASE c = r.c /\ Accepted(c, own)
      <3>1. state'[c] = own
        BY <1>3, <1>5, <2>1
      <3> QED
        BY <1>1, <1>2, <1>4, <2>1, <3>1
    <2>2. CASE ~(c = r.c /\ Accepted(c, own)) /\ c \in Conflicts(r.c)
      BY <1>3, <1>5, <2>2
    <2>3. CASE ~(c = r.c /\ Accepted(c, own)) /\ c \notin Conflicts(r.c)
      BY <1>3, <2>3
    <2> QED
      BY <2>1, <2>2, <2>3
  <1>7. /\ state' \in [Change -> Logged \cup {Absent}]
        /\ \A c \in Change : /\ state[c] # Absent => state'[c] # Absent
                             /\ state'[c] # Absent => state[c] # Absent \/ proposal[c] # Absent
    BY <1>1, <1>2, <1>3, <1>4, <1>5, <1>6, Present
  <1>8. TMInv'
    BY <1>7, EndType DEF RecordConflicts, TMInv, TypeInv
  <1> QED
    BY <1>6, <1>8

LEMMA PagesType ==
  ASSUME TMInv, NEW s \in Session
  PROVE  /\ Backup(s) => TMInv'
         /\ Commit(s) => TMInv'
         /\ CommitFails(s) => TMInv'
         /\ RemoveBackups(s) => TMInv'
  <1>a. /\ backup \in [DOMAIN backup -> Page] /\ DOMAIN backup \subseteq Domain /\ backup \in Pages
        /\ pages \in [Domain -> Page]
    BY PartialElim DEF TMInv, TypeInv, Pages
  <1>b. PICK r : r = session[s]
    OBVIOUS
  <1>1. ASSUME Backup(s)
        PROVE  TMInv'
    <2>1. r \in Commands /\ Memory(r) /\ r.todo \subseteq Domain /\ r.at = "backup"
      BY <1>1, <1>b, CommandType DEF Backup
    <2> DEFINE saved == [d \in DOMAIN backup \cup r.todo |-> IF d \in r.todo THEN pages[d] ELSE backup[d]]
    <2>2. saved \in [DOMAIN backup \cup r.todo -> Page] /\ DOMAIN backup \cup r.todo \in SUBSET Domain
      BY <1>a, <2>1
    <2>3. backup' = saved /\ Put(s, [r EXCEPT !.at = "commit"]) /\ UNCHANGED <<clock, pages, proposal, state, killed, unrestored>>
      BY <1>1, <1>b DEF Backup, Goto
    <2> HIDE DEF saved
    <2>4. backup' \in Pages
      BY <2>2, <2>3, PartialIntro DEF Pages
    <2>5. PICK n : n = [r EXCEPT !.at = "commit"]
      OBVIOUS
    <2>6. n \in Commands /\ n = [ at |-> "commit", c |-> r.c, to |-> r.to, now |-> r.now, st |-> r.st, deltas |-> r.deltas,
                                  seen |-> r.seen, todo |-> r.todo, peers |-> r.peers, peer |-> r.peer ]
      BY <2>1, <2>5, GotoType
    <2>7. Memory(n)'
      BY <2>1, <2>3, <2>6 DEF Memory
    <2> QED
      BY <2>3, <2>4, <2>5, <2>6, <2>7, PutStep DEF TMInv, TypeInv
  <1>2. ASSUME Commit(s)
        PROVE  TMInv'
    <2>1. /\ r \in Commands /\ Memory(r) /\ r.todo \in SUBSET Domain /\ r.at = "commit" /\ r.todo # {} /\ r.c \in Change
          /\ r.todo \subseteq DOMAIN r.seen /\ DOMAIN r.seen = DOMAIN r.deltas
          /\ r.seen \in [DOMAIN r.seen -> Page] /\ r.deltas \in [DOMAIN r.deltas -> Operation]
      BY <1>2, <1>b, CommandType, PartialElim DEF Commit, Memory, Pages, Deltas
    <2> DEFINE d == Min(r.todo)
               left == r.todo \ {d}
               at == IF r.todo = {d} THEN "proposal" ELSE "commit"
               half == [r EXCEPT !.todo = left]
    <2>2. d \in r.todo /\ d \in Domain
      BY <2>1, LeastIsIn
    <2>3. /\ pages' = [pages EXCEPT ![d] = Compose(r.seen[d], r.deltas[d], r.c)]
          /\ Put(s, [half EXCEPT !.at = at])
          /\ UNCHANGED <<clock, backup, proposal, state, killed, unrestored>>
      BY <1>2, <1>b, Zenon DEF Commit
    <2>4. left \subseteq Domain /\ left \subseteq DOMAIN r.seen /\ at \in {"proposal", "commit"}
          /\ (at = "commit" => left # {})
      BY <2>1, <2>2
    <2> HIDE DEF d, left, at
    <2>5. pages' \in [Domain -> Page]
      BY <1>a, <2>1, <2>2, <2>3, ComposeType
    <2>6. half \in Commands /\ half = [ at |-> r.at, c |-> r.c, to |-> r.to, now |-> r.now, st |-> r.st, deltas |-> r.deltas,
                                        seen |-> r.seen, todo |-> left, peers |-> r.peers, peer |-> r.peer ]
      BY <2>1, <2>4 DEF Commands
    <2> HIDE DEF half
    <2>7. PICK n : n = [half EXCEPT !.at = at]
      OBVIOUS
    <2>8. n \in Commands /\ n = [ at |-> at, c |-> r.c, to |-> r.to, now |-> r.now, st |-> r.st, deltas |-> r.deltas,
                                  seen |-> r.seen, todo |-> left, peers |-> r.peers, peer |-> r.peer ]
      BY <2>4, <2>6, <2>7, GotoType
    <2>9. Memory(n)'
      BY <2>1, <2>3, <2>4, <2>8 DEF Memory
    <2> QED
      BY <2>3, <2>5, <2>7, <2>8, <2>9, PutStep DEF TMInv, TypeInv
  <1>3. ASSUME CommitFails(s)
        PROVE  TMInv'
    <2>1. /\ pages' \in [Domain -> Page]
          /\ r.c \in Change /\ unrestored' \subseteq unrestored \cup {r.c}
      BY <1>3, <1>a, <1>b, CommandType DEF CommitFails, Restored
    <2> QED
      BY <1>3, <2>1, EndType DEF CommitFails, TMInv, TypeInv
  <1>4. ASSUME RemoveBackups(s)
        PROVE  TMInv'
    <2>1. backup' \in Pages
      BY <1>4, <1>a, RestrictType DEF RemoveBackups, Pages
    <2> QED
      BY <1>4, <2>1, EndType DEF RemoveBackups, TMInv, TypeInv
  <1> QED
    BY <1>1, <1>2, <1>3, <1>4

LEMMA PeersType ==
  ASSUME TMInv, NEW s \in Session
  PROVE  /\ Scan(s) => TMInv'
         /\ \A p \in Change : Supersede(s, p) => TMInv'
         /\ SupersedeProposal(s) => TMInv'
  <1>a. state \in [Change -> Logged \cup {Absent}] /\ proposal \in [Change -> Proposals \cup {Absent}]
    BY DEF TMInv, TypeInv
  <1>b. PICK r : r = session[s]
    OBVIOUS
  <1>1. ASSUME Scan(s)
        PROVE  TMInv'
    <2>1. r \in Commands /\ Memory(r) /\ r.at = "scan" /\ r.to = "archived" /\ r.c \in Change
      BY <1>1, <1>b, CommandType DEF Scan, Memory
    <2> DEFINE hit == {p \in Peers(r.c) : Touched(proposal[p].deltas) \cap Removed(r.deltas) # {}}
               peers == [p \in hit |-> state[p]]
               half == [r EXCEPT !.peers = peers]
    <2>2. Put(s, [half EXCEPT !.at = "peers"]) /\ UNCHANGED <<clock, pages, backup, proposal, state, killed, unrestored>>
      BY <1>1, <1>b, Zenon DEF Scan
    <2>3. hit \in SUBSET Change /\ (\A p \in hit : state[p] \in Logged /\ proposal[p] # Absent)
      BY <1>a DEF Peers, Listed, TMInv, MemoryInv
    <2> HIDE DEF hit
    <2>4. peers \in [hit -> Logged]
      BY <2>3
    <2>5. peers \in Partial(Change, Logged) /\ DOMAIN peers = hit
      BY <2>3, <2>4, PartialIntro
    <2> HIDE DEF peers
    <2>6. half \in Commands /\ half = [ at |-> r.at, c |-> r.c, to |-> r.to, now |-> r.now, st |-> r.st, deltas |-> r.deltas,
                                        seen |-> r.seen, todo |-> r.todo, peers |-> peers, peer |-> r.peer ]
      BY <2>1, <2>5 DEF Commands
    <2> HIDE DEF half
    <2>7. PICK n : n = [half EXCEPT !.at = "peers"]
      OBVIOUS
    <2>8. n \in Commands /\ n = [ at |-> "peers", c |-> r.c, to |-> r.to, now |-> r.now, st |-> r.st, deltas |-> r.deltas,
                                  seen |-> r.seen, todo |-> r.todo, peers |-> peers, peer |-> r.peer ]
      BY <2>6, <2>7, GotoType
    <2>9. \A p \in DOMAIN n.peers : proposal'[p] # Absent
      BY <2>2, <2>3, <2>5, <2>8
    <2>10. Memory(n)'
      BY <2>1, <2>2, <2>8, <2>9 DEF Memory
    <2> QED
      BY <2>2, <2>7, <2>8, <2>10, PutStep DEF TMInv, TypeInv
  <1>2. ASSUME NEW p \in Change, Supersede(s, p)
        PROVE  TMInv'
    <2>1. /\ r \in Commands /\ Memory(r) /\ r.at = "peers" /\ r.to = "archived" /\ r.c \in Change /\ r.now \in Nat
          /\ r.peers \in Partial(Change, Logged) /\ p \in DOMAIN r.peers
      BY <1>2, <1>b, CommandType DEF Supersede, Memory
    <2>2. r.peers[p] \in Logged /\ "superseded" \in Status
      BY <2>1, PartialElim DEF Status
    <2> DEFINE st == Moved(r.peers[p], "superseded", r.now)
               rest == Restrict(r.peers, DOMAIN r.peers \ {p})
               half == [r EXCEPT !.at = "peer-proposal"]
    <2>3. st \in Logged /\ st # Absent
      BY <2>1, <2>2, MovedType, Present
    <2>4. UNCHANGED <<clock, pages, backup, proposal, killed, unrestored>>
      BY <1>2 DEF Supersede
    <2>5. CASE state' = [state EXCEPT ![p] = st] /\ Put(s, [half EXCEPT !.peer = p])
      <3> HIDE DEF st
      <3>1. half \in Commands /\ half = [ at |-> "peer-proposal", c |-> r.c, to |-> r.to, now |-> r.now, st |-> r.st,
                          deltas |-> r.deltas, seen |-> r.seen, todo |-> r.todo, peers |-> r.peers, peer |-> r.peer ]
        BY <2>1, GotoType
      <3> HIDE DEF half
      <3>2. PICK n : n = [half EXCEPT !.peer = p]
        OBVIOUS
      <3>3. n \in Commands /\ n = [ at |-> "peer-proposal", c |-> r.c, to |-> r.to, now |-> r.now, st |-> r.st,
                          deltas |-> r.deltas, seen |-> r.seen, todo |-> r.todo, peers |-> r.peers, peer |-> p ]
        BY <3>1, <3>2 DEF Commands
      <3>4. Memory(n)'
        BY <2>1, <2>4, <3>3 DEF Memory
      <3>5. /\ state' \in [Change -> Logged \cup {Absent}]
            /\ \A c \in Change : /\ state[c] # Absent => state'[c] # Absent
                                 /\ state'[c] # Absent => state[c] # Absent \/ proposal'[c] # Absent
        BY <1>a, <2>1, <2>3, <2>4, <2>5 DEF Memory
      <3> QED
        BY <2>4, <2>5, <3>2, <3>3, <3>4, <3>5, PutStep DEF TMInv, TypeInv
    <2>6. CASE UNCHANGED state /\ Put(s, [r EXCEPT !.peers = rest])
      <3>1. rest \in Partial(Change, Logged) /\ DOMAIN rest = DOMAIN r.peers \ {p}
        BY <2>1, RestrictType
      <3> HIDE DEF rest
      <3>2. PICK n : n = [r EXCEPT !.peers = rest]
        OBVIOUS
      <3>3. n \in Commands /\ n = [ at |-> r.at, c |-> r.c, to |-> r.to, now |-> r.now, st |-> r.st,
                          deltas |-> r.deltas, seen |-> r.seen, todo |-> r.todo, peers |-> rest, peer |-> r.peer ]
        BY <2>1, <3>1, <3>2 DEF Commands
      <3>4. Memory(n)'
        BY <2>1, <2>4, <2>6, <3>1, <3>3 DEF Memory
      <3> QED
        BY <2>4, <2>6, <3>2, <3>3, <3>4, PutStep DEF TMInv, TypeInv
    <2> QED
      BY <1>2, <1>b, <2>5, <2>6, Zenon DEF Supersede
  <1>3. ASSUME SupersedeProposal(s)
        PROVE  TMInv'
    <2>1. /\ r \in Commands /\ Memory(r) /\ r.at = "peer-proposal" /\ r.to = "archived" /\ r.c \in Change
          /\ r.peers \in Partial(Change, Logged) /\ r.peer \in DOMAIN r.peers /\ DOMAIN r.peers \subseteq Change
      BY <1>3, <1>b, CommandType, PartialElim DEF SupersedeProposal, Memory
    <2> DEFINE rest == Restrict(r.peers, DOMAIN r.peers \ {r.peer})
               new == [proposal[r.peer] EXCEPT !.status = "superseded"]
               moved == [r EXCEPT !.at = "peers"]
               half == [moved EXCEPT !.peer = Absent]
    <2>2. /\ proposal' = [proposal EXCEPT ![r.peer] = new]
          /\ Put(s, [half EXCEPT !.peers = rest])
          /\ UNCHANGED <<clock, pages, backup, state, killed, unrestored>>
      BY <1>3, <1>b, Zenon DEF SupersedeProposal
    <2>3. proposal[r.peer] \in Proposals
      BY <1>a, <2>1 DEF Memory
    <2>4. new \in Proposals /\ new # Absent
      BY <2>3, Present DEF Proposals, Status
    <2>5. rest \in Partial(Change, Logged) /\ DOMAIN rest = DOMAIN r.peers \ {r.peer}
      BY <2>1, RestrictType
    <2> HIDE DEF new, rest
    <2>6. moved \in Commands /\ moved = [ at |-> "peers", c |-> r.c, to |-> r.to, now |-> r.now, st |-> r.st,
                          deltas |-> r.deltas, seen |-> r.seen, todo |-> r.todo, peers |-> r.peers, peer |-> r.peer ]
      BY <2>1, GotoType
    <2> HIDE DEF moved
    <2>7. half \in Commands /\ half = [ at |-> "peers", c |-> r.c, to |-> r.to, now |-> r.now, st |-> r.st,
                          deltas |-> r.deltas, seen |-> r.seen, todo |-> r.todo, peers |-> r.peers, peer |-> Absent ]
      BY <2>6 DEF Commands
    <2> HIDE DEF half
    <2>8. PICK n : n = [half EXCEPT !.peers = rest]
      OBVIOUS
    <2>9. n \in Commands /\ n = [ at |-> "peers", c |-> r.c, to |-> r.to, now |-> r.now, st |-> r.st,
                          deltas |-> r.deltas, seen |-> r.seen, todo |-> r.todo, peers |-> rest, peer |-> Absent ]
      BY <2>5, <2>7, <2>8 DEF Commands
    <2>10. /\ proposal' \in [Change -> Proposals \cup {Absent}]
           /\ \A c \in Change : proposal[c] # Absent => proposal'[c] # Absent
      BY <1>a, <2>1, <2>2, <2>4
    <2>11. Memory(n)'
      BY <2>1, <2>2, <2>5, <2>9, <2>10 DEF Memory
    <2> QED
      BY <2>2, <2>8, <2>9, <2>10, <2>11, PutStep DEF TMInv, TypeInv, MemoryInv
  <1> QED
    BY <1>1, <1>2, <1>3

LEMMA EditType ==
  ASSUME TMInv, NEW c \in Change, NEW f \in Drafts, Edit(c, f)
  PROVE  TMInv'
  <1> DEFINE new == [proposal[c] EXCEPT !.deltas = Drafted(f)]
  <1>1. proposal[c] \in Proposals /\ Drafted(f) \in Deltas
    BY DraftedType DEF Edit, TMInv, TypeInv
  <1>2. new \in Proposals /\ new # Absent
    BY <1>1, Present DEF Proposals
  <1>3. proposal' = [proposal EXCEPT ![c] = new] /\ UNCHANGED <<clock, pages, backup, state, session, killed, unrestored>>
    BY DEF Edit
  <1> HIDE DEF new
  <1>4. proposal' \in [Change -> Proposals \cup {Absent}] /\ \A d \in Change : proposal[d] # Absent => proposal'[d] # Absent
    BY <1>2, <1>3 DEF TMInv, TypeInv
  <1>5. TypeInv'
    BY <1>3, <1>4 DEF TMInv, TypeInv
  <1>6. ASSUME NEW s \in Session, session'[s] # Idle
        PROVE  Memory(session[s])'
    <2>1. session[s] \in Commands /\ Memory(session[s])
      BY <1>3, <1>6 DEF TMInv, TypeInv, MemoryInv
    <2>2. session[s].c \in Change /\ DOMAIN session[s].peers \subseteq Change
      BY <2>1, PartialElim DEF Commands
    <2> QED
      BY <1>3, <1>4, <2>1, <2>2 DEF Memory
  <1> QED
    BY <1>3, <1>4, <1>5, <1>6 DEF TMInv, MemoryInv

LEMMA TypeStep == TMInv /\ [Next]_vars => TMInv'
  <1> SUFFICES ASSUME TMInv, [Next]_vars
               PROVE  TMInv'
    OBVIOUS
  <1>1. ASSUME NEW s \in Session, Command(s)
        PROVE  TMInv'
    <2>1. ASSUME NEW c \in Change,
                 \/ BeginInit(s, c) \/ BeginReview(s, c) \/ BeginApprove(s, c) \/ BeginRun(s, c) \/ BeginReject(s, c)
                 \/ \E f \in Drafts : BeginQuick(s, c, f)
          PROVE  TMInv'
      BY <2>1, BeginsType DEF BeginReview, BeginApprove, BeginRun, BeginReject
    <2>2. ASSUME NEW c \in Change, BeginArchive(s, c)
          PROVE  TMInv'
      BY <2>2, ArchiveBeginsType
    <2>3. CASE WriteProposal(s) \/ WriteState(s)
      BY <2>3, WritesType
    <2>4. CASE ContinueQuick(s)
      <3>1. session[s].c \in Change
        BY <2>4, CommandType DEF ContinueQuick
      <3> QED
        BY <2>4, <3>1, ArchiveBeginsType
    <2>5. CASE RecordConflicts(s)
      BY <2>5, ConflictType
    <2>6. CASE Backup(s) \/ Commit(s) \/ CommitFails(s) \/ RemoveBackups(s)
      BY <2>6, PagesType
    <2>7. CASE Scan(s) \/ (\E p \in Change : Supersede(s, p)) \/ SupersedeProposal(s)
      BY <2>7, PeersType
    <2> QED
      BY <1>1, <2>1, <2>2, <2>3, <2>4, <2>5, <2>6, <2>7 DEF Command
  <1>2. ASSUME NEW s \in Session, Crash(s)
        PROVE  TMInv'
    <2>1. session[s].at # "idle"
      BY <1>2, Present DEF Crash, TMInv, TypeInv
    <2>2. killed' \subseteq Change
      BY <1>2, <2>1, CommandType DEF Crash, TMInv, TypeInv
    <2> QED
      BY <1>2, <2>2, EndType DEF Crash, TMInv, TypeInv
  <1>3. CASE UNCHANGED vars
    BY <1>3 DEF vars, TMInv, TypeInv, MemoryInv, Memory
  <1> QED
    BY <1>1, <1>2, <1>3, EditType DEF Next

(* Pages, backups, proposals and ChangeStates are well typed, and the status  *)
(* of a ChangeState is the last entry of its log, for any number of commands  *)
(* that overlap.                                                              *)
THEOREM ChangeTypeCorrect == Spec => []TypeOK
  <1>1. \A page \in Page : PageOK(page)
    <2>1. ASSUME NEW page \in Page
          PROVE  PageOK(page)
      <3>1. page.reqs \in Partial(Nat, Texts) /\ page.changes \in Seq(Change)
        BY DEF Page, Requirements
      <3>2. DOMAIN page.reqs \subseteq Nat /\ page.reqs \in [DOMAIN page.reqs -> Texts]
        BY <3>1, PartialElim
      <3> QED
        BY <3>1, <3>2 DEF PageOK, Range
    <2> QED
      BY <2>1
  <1>2. \A p \in Proposals : \E ds \in SUBSET Domain : p \in ProposalOf(ds)
    <2>1. ASSUME NEW p \in Proposals
          PROVE  \E ds \in SUBSET Domain : p \in ProposalOf(ds)
      <3>1. DOMAIN p.deltas \in SUBSET Domain /\ p.deltas \in [DOMAIN p.deltas -> Operation]
        BY PartialElim DEF Proposals, Deltas
      <3> QED
        BY <3>1 DEF Proposals, ProposalOf
    <2> QED
      BY <2>1
  <1>3. TMInv => TypeOK
    <2> SUFFICES ASSUME TMInv
                 PROVE  TypeOK
      OBVIOUS
    <2>1. /\ \A d \in Domain : PageOK(pages[d])
          /\ DOMAIN backup \subseteq Domain /\ \A d \in DOMAIN backup : PageOK(backup[d])
      BY <1>1, PartialElim DEF TMInv, TypeInv, Pages
    <2>2. \A c \in Change : proposal[c] # Absent => \E ds \in SUBSET Domain : proposal[c] \in ProposalOf(ds)
      BY <1>2 DEF TMInv, TypeInv
    <2>3. \A c \in Change : /\ state[c] \in ChangeState \cup {Absent}
                            /\ state[c] # Absent => state[c].status = Last(state[c].log)
      BY DEF TMInv, TypeInv, Logged
    <2> QED
      BY <2>1, <2>2, <2>3 DEF TypeOK, TMInv, TypeInv
  <1> QED
    BY <1>3, TypeInit, TypeStep, PTL DEF Spec

(* While one command at a time runs, what a command has read is what is on *)
(* disk: the ChangeState it continues, the deltas it archives, the pages   *)
(* it has not committed, their backups, and the peers it supersedes.       *)
Alone == \A s, t \in Session : s = t

Steps == CliMoves \cup {<<"in-progress", "archived">>, <<"rejected", "proposed">>}
On(c, page) == c \in Range(page.changes)
Archives(r, points) == r.to = "archived" /\ r.at \in points

ContinuesState(r) ==
    /\ r.at \in {"proposal", "state"} =>
          /\ r.st = state[r.c]
          /\ r.st # Absent => <<r.st.status, r.to>> \in Steps
    /\ r.at = "state" => proposal[r.c].status = r.to
    /\ r.at = "conflict" => r.st = state[r.c]
    /\ Archives(r, {"backup", "commit", "proposal", "state"}) =>
          /\ r.st = state[r.c]
          /\ r.st.status = "in-progress"
          /\ r.deltas = proposal[r.c].deltas

ContinuesPages(r) ==
    /\ r.at \in {"backup", "commit"} =>
          /\ \A d \in r.todo : pages[d] = r.seen[d] /\ Applies(r.deltas[d], r.seen[d])
          /\ \A d \in DOMAIN r.deltas \ r.todo : pages[d].changes = Append(r.seen[d].changes, r.c)
    /\ r.at = "commit" =>
          /\ \A d \in DOMAIN r.deltas : d \in DOMAIN backup /\ backup[d] = r.seen[d]
          /\ proposal[r.c].status = "archived" => \A d \in DOMAIN r.deltas : On(r.c, r.seen[d])
          /\ r.c \notin killed \cup unrestored => \A d \in Domain : ~On(r.c, IF d \in DOMAIN r.deltas THEN r.seen[d] ELSE pages[d])
    /\ Archives(r, {"proposal", "state"}) => DOMAIN r.deltas \subseteq Landed(r.c)

ContinuesPeers(r) ==
    /\ Archives(r, {"backup", "commit", "proposal", "state", "scan"}) =>
          \A p \in Peers(r.c) : proposal[p].status # "proposed" =>
              Touched(proposal[p].deltas) \cap Touched(r.deltas) = {}
    /\ r.at \in {"peers", "peer-proposal"} =>
          \A p \in DOMAIN r.peers \ {r.peer} :
              state[p] = r.peers[p] /\ state[p] # Absent /\ state[p].status \in InFlight /\ proposal[p].status = "proposed"
    /\ r.at # "peer-proposal" => r.peer = Absent
    /\ r.at = "peer-proposal" => state[r.peer] # Absent /\ state[r.peer].status = "superseded"

(* A change that is on a page is archived, or being archived, or its       *)
(* archive was killed or could not restore what it had committed.          *)
LandedInv ==
    \A c \in Change \ (killed \cup unrestored) : Landed(c) # {} =>
        \/ state[c] # Absent /\ state[c].status = "archived"
        \/ \E s \in Session : session[s].c = c /\ Archives(session[s], {"commit", "proposal", "state"})

(* proposal.md is written first: it says what the ChangeState says or is   *)
(* one transition of the code ahead.                                       *)
ProposalLeads ==
    \A c \in Change :
        state[c] # Absent =>
            \/ proposal[c].status = state[c].status
            \/ <<state[c].status, proposal[c].status>> \in Steps
            \/ state[c].status = "superseded" /\ proposal[c].status \in InFlight

AloneInv ==
    /\ \A s \in Session : session[s] # Idle =>
          ContinuesState(session[s]) /\ ContinuesPages(session[s]) /\ ContinuesPeers(session[s])
    /\ LandedInv
    /\ ArchivedIsOnPages
    /\ ProposalLeads

LEMMA AloneInit == Init => AloneInv
  <1> SUFFICES ASSUME Init
               PROVE  AloneInv
    OBVIOUS
  <1>1. \A c \in Change : Landed(c) = {}
    BY DEF Init, Landed, Range
  <1> QED
    BY <1>1 DEF Init, AloneInv, LandedInv, ArchivedIsOnPages, ProposalLeads

LEMMA AloneCriterion ==
  ASSUME Alone, NEW s \in Session,
         session'[s] # Idle => (ContinuesState(session[s]) /\ ContinuesPages(session[s]) /\ ContinuesPeers(session[s]))',
         LandedInv', ArchivedIsOnPages', ProposalLeads'
  PROVE  AloneInv'
  BY DEF Alone, AloneInv

(* A change under archive, or archived, is not edited by its author.        *)
LEMMA SettledIsNotProposed ==
  ASSUME ProposalLeads, NEW c \in Change, state[c] # Absent, state[c].status \in {"in-progress", "archived"}
  PROVE  proposal[c].status # "proposed"
  BY DEF ProposalLeads, Steps, CliMoves

LEMMA AloneFrame ==
  ASSUME UNCHANGED <<pages, proposal, state>>, ArchivedIsOnPages, ProposalLeads
  PROVE  ArchivedIsOnPages' /\ ProposalLeads'
  BY DEF ArchivedIsOnPages, ProposalLeads, Landed

LEMMA AloneBegin ==
  ASSUME Alone, TMInv, AloneInv, NEW s \in Session, NEW r \in Commands, Begin(s, r),
         UNCHANGED <<pages, backup, state, killed, unrestored>>,
         \A c \in Change : proposal'[c] = proposal[c] \/ (state[c] = Absent /\ proposal'[c] = Directory),
         (ContinuesState(r) /\ ContinuesPages(r) /\ ContinuesPeers(r))'
  PROVE  AloneInv'
  <1>1. session'[s] = r /\ session[s] = Idle /\ \A t \in Session : t = s
    BY PutType DEF Begin, TMInv, TypeInv, Alone
  <1>2. (ContinuesState(session[s]) /\ ContinuesPages(session[s]) /\ ContinuesPeers(session[s]))'
    BY <1>1
  <1>3. \A c \in Change : Landed(c)' = Landed(c)
    BY DEF Landed
  <1>4. LandedInv'
    BY <1>1, <1>3, Present DEF AloneInv, LandedInv, Archives
  <1>5. ArchivedIsOnPages' /\ ProposalLeads'
    BY <1>3 DEF AloneInv, ArchivedIsOnPages, ProposalLeads, Directory
  <1> QED
    BY <1>2, <1>4, <1>5, AloneCriterion

LEMMA AloneWriting ==
  ASSUME Alone, TMInv, AloneInv, NEW s \in Session, NEW c \in Change, NEW to \in Status, NEW st \in Logged \cup {Absent},
         NEW deltas \in Deltas, Begin(s, Writing(c, to, st, deltas)),
         UNCHANGED <<pages, backup, state, killed, unrestored>>,
         \A d \in Change : proposal'[d] = proposal[d] \/ (state[d] = Absent /\ proposal'[d] = Directory),
         to # "archived", st = state[c], st # Absent => <<st.status, to>> \in Steps
  PROVE  AloneInv'
  <1>0. PICK r : r = Writing(c, to, st, deltas)
    OBVIOUS
  <1>1. NoDeltas \in Pages /\ NoDeltas \in Partial(Change, Logged) /\ DOMAIN NoDeltas = {}
    BY NoDeltasType DEF Pages
  <1>2. clock + 1 \in Nat
    BY DEF TMInv, TypeInv
  <1>3. /\ r \in Commands
        /\ r = [ at |-> "proposal", c |-> c, to |-> to, now |-> clock + 1, st |-> st, deltas |-> deltas,
                 seen |-> NoDeltas, todo |-> {}, peers |-> NoDeltas, peer |-> Absent ]
    BY <1>0, <1>1, <1>2 DEF Writing, Commands
  <1>4. ContinuesState(r)'
    BY <1>3 DEF ContinuesState, Archives
  <1>5. ContinuesPages(r)' /\ ContinuesPeers(r)'
    BY <1>3 DEF ContinuesPages, ContinuesPeers, Archives
  <1> QED
    BY <1>0, <1>3, <1>4, <1>5, AloneBegin

LEMMA AloneBegins ==
  ASSUME Alone, TMInv, AloneInv, NEW s \in Session, NEW c \in Change
  PROVE  /\ BeginInit(s, c) => AloneInv'
         /\ \A to \in {"reviewed", "approved", "in-progress", "rejected"} : BeginMove(s, c, to) => AloneInv'
         /\ \A f \in Drafts : BeginQuick(s, c, f) => AloneInv'
  <1>a. /\ proposal \in [Change -> Proposals \cup {Absent}] /\ state[c] \in Logged \cup {Absent}
        /\ pages \in [Domain -> Page] /\ NoDeltas \in Deltas
        /\ \A d \in Change : state[d] # Absent => proposal[d] # Absent
    BY NoDeltasType DEF TMInv, TypeInv, MemoryInv, Deltas
  <1>1. ASSUME BeginInit(s, c)
        PROVE  AloneInv'
    <2>1. \A d \in Change : proposal'[d] = proposal[d] \/ (state[d] = Absent /\ proposal'[d] = Directory)
      BY <1>1, <1>a DEF BeginInit
    <2>2. state[c] # Absent => <<state[c].status, "proposed">> \in Steps
      BY <1>1, <1>a DEF BeginInit, Steps
    <2> QED
      BY <1>1, <1>a, <2>1, <2>2, AloneWriting DEF BeginInit, Status, InFlight
  <1>2. ASSUME NEW to \in {"reviewed", "approved", "in-progress", "rejected"}, BeginMove(s, c, to)
        PROVE  AloneInv'
    <2>1. to \in Status /\ to # "archived" /\ <<state[c].status, to>> \in Steps
      BY <1>2 DEF Status, InFlight, BeginMove, Steps
    <2> QED
      BY <1>2, <1>a, <2>1, AloneWriting DEF BeginMove
  <1>3. ASSUME NEW f \in Drafts, BeginQuick(s, c, f)
        PROVE  AloneInv'
    <2>1. Drafted(f) \in Deltas
      BY <1>3, <1>a, DraftedType DEF BeginQuick
    <2>2. /\ \A d \in Change : proposal'[d] = proposal[d] \/ (state[d] = Absent /\ proposal'[d] = Directory)
          /\ state[c] = Absent
      BY <1>3, <1>a DEF BeginQuick
    <2> QED
      BY <1>3, <1>a, <2>1, <2>2, AloneWriting DEF BeginQuick, Status, InFlight
  <1> QED
    BY <1>1, <1>2, <1>3

(* What the session has, and that it is the only one.                       *)
LEMMA AloneSession ==
  ASSUME Alone, TMInv, AloneInv, NEW s \in Session, session[s].at # "idle"
  PROVE  /\ session[s] \in Commands /\ Memory(session[s])
         /\ ContinuesState(session[s]) /\ ContinuesPages(session[s]) /\ ContinuesPeers(session[s])
         /\ \A t \in Session : t = s
         /\ \A c \in Change \ (killed \cup unrestored) : Landed(c) # {} =>
                \/ state[c] # Absent /\ state[c].status = "archived"
                \/ c = session[s].c /\ Archives(session[s], {"commit", "proposal", "state"})
  BY CommandType, Present DEF AloneInv, Alone, LandedInv

(* What a step does to the ChangeStates and the pages.                      *)
StatusOf(c) == IF state[c] = Absent THEN "none" ELSE state[c].status

KeepsLogs == \A c \in Change : state[c] # Absent => state'[c] # Absent /\ IsPrefix(state[c].log, state'[c].log)
KeepsToEdges ==
    \/ \A c \in Change : StatusOf(c)' = StatusOf(c)
    \/ \E c \in Change : /\ <<StatusOf(c), StatusOf(c)'>> \in Lifecycle!Edge
                         /\ \A d \in Change \ {c} : StatusOf(d)' = StatusOf(d)
ReplacesReviewed ==
    \A d \in Domain :
        Len(pages'[d].changes) > Len(pages[d].changes) =>
            LET op == proposal[Last(pages'[d].changes)].deltas[d]
            IN  op.kind = "modify" => pages[d].reqs[op.id] = op.before

LEMMA KeepsFrame ==
  /\ TMInv /\ state' = state => KeepsLogs /\ KeepsToEdges
  /\ TMInv /\ pages' = pages => ReplacesReviewed
  <1>1. ASSUME TMInv, state' = state
        PROVE  KeepsLogs /\ KeepsToEdges
    <2>1. \A st \in Logged : IsPrefix(st.log, st.log)
      <3>1. ASSUME NEW st \in Logged
            PROVE  IsPrefix(st.log, st.log)
        <4>1. st.log \in Seq(Status) /\ "archived" \in Status
          BY DEF Logged, ChangeState, Status
        <4> QED
          BY <4>1, LogGrows
      <3> QED
        BY <3>1
    <2> QED
      BY <1>1, <2>1 DEF KeepsLogs, KeepsToEdges, StatusOf, TMInv, TypeInv
  <1>2. ASSUME TMInv, pages' = pages
        PROVE  ReplacesReviewed
    <2>1. \A d \in Domain : Len(pages[d].changes) \in Nat
      BY <1>2 DEF TMInv, TypeInv, Page
    <2> QED
      BY <1>2, <2>1 DEF ReplacesReviewed
  <1> QED
    BY <1>1, <1>2

LEMMA StepsAreEdges ==
  /\ Steps \subseteq Lifecycle!Edge
  /\ \A to \in {"proposed", "in-progress"} : <<"none", to>> \in Lifecycle!Edge
  /\ \A from \in InFlight : <<from, "superseded">> \in Lifecycle!Edge
  /\ \A from, to : <<from, to>> \in Steps => from \notin {"archived", "superseded"} /\ from # to
  BY DEF Steps, CliMoves, InFlight, Lifecycle!Edge, Lifecycle!InFlight, Lifecycle!InitEdge, Lifecycle!ReviewEdge,
         Lifecycle!ApproveEdge, Lifecycle!RunEdge, Lifecycle!RejectEdge, Lifecycle!ReviveEdge, Lifecycle!ArchiveEdge,
         Lifecycle!QuickEdge, Lifecycle!SupersedeEdge

LEMMA AloneWriteProposal ==
  ASSUME Alone, TMInv, AloneInv, NEW s \in Session, WriteProposal(s)
  PROVE  AloneInv'
  <1>1. PICK r : r = session[s]
    OBVIOUS
  <1>2. /\ r \in Commands /\ Memory(r) /\ r.at = "proposal" /\ r.c \in Change
        /\ ContinuesState(r) /\ ContinuesPages(r) /\ ContinuesPeers(r)
    BY <1>1, AloneSession, CommandType DEF WriteProposal
  <1> DEFINE deltas == IF r.to = "proposed" \/ r.st = Absent THEN r.deltas ELSE proposal[r.c].deltas
             new == [status |-> r.to, deltas |-> deltas]
  <1>3. proposal' = [proposal EXCEPT ![r.c] = new] /\ Put(s, [r EXCEPT !.at = "state"])
        /\ UNCHANGED <<clock, pages, backup, state, killed, unrestored>>
    BY <1>1, <1>2, Zenon DEF WriteProposal, Goto
  <1>4. PICK n : n = [r EXCEPT !.at = "state"]
    OBVIOUS
  <1>5. n \in Commands /\ n = [ at |-> "state", c |-> r.c, to |-> r.to, now |-> r.now, st |-> r.st, deltas |-> r.deltas,
                                seen |-> r.seen, todo |-> r.todo, peers |-> r.peers, peer |-> r.peer ]
    BY <1>2, <1>4, GotoType
  <1>6. session'[s] = n
    BY <1>3, <1>4, <1>5, PutType DEF TMInv, TypeInv
  <1>7. r.to = "archived" => r.st # Absent /\ deltas = proposal[r.c].deltas
    BY <1>2 DEF Memory
  <1>8. /\ proposal'[r.c].status = r.to /\ proposal'[r.c].deltas = deltas
        /\ \A c \in Change \ {r.c} : proposal'[c] = proposal[c]
    BY <1>2, <1>3 DEF TMInv, TypeInv
  <1> HIDE DEF deltas
  <1>9. ContinuesState(n)'
    BY <1>2, <1>3, <1>5, <1>7, <1>8 DEF ContinuesState, Archives
  <1>10. ContinuesPages(n)'
    BY <1>2, <1>3, <1>5 DEF ContinuesPages, Archives, Landed
  <1>11. ContinuesPeers(n)'
    BY <1>2, <1>3, <1>5, <1>8 DEF ContinuesPeers, Archives, Peers, Listed
  <1>12. \A c \in Change : Landed(c)' = Landed(c)
    BY <1>3 DEF Landed
  <1>13. LandedInv'
    BY <1>1, <1>2, <1>3, <1>5, <1>6, <1>12, AloneSession, Present DEF LandedInv, Archives
  <1>14. state[r.c] # Absent => state[r.c].status # "archived" /\ <<state[r.c].status, r.to>> \in Steps
    BY <1>2, StepsAreEdges DEF ContinuesState
  <1>15. ArchivedIsOnPages'
    <2>1. r.to = "archived" => DOMAIN deltas \subseteq Landed(r.c)
      BY <1>2, <1>7 DEF ContinuesState, ContinuesPages, Archives
    <2> QED
      BY <1>2, <1>3, <1>8, <1>12, <1>14, <2>1 DEF AloneInv, ArchivedIsOnPages
  <1>16. ProposalLeads'
    BY <1>2, <1>3, <1>8, <1>14 DEF AloneInv, ProposalLeads, Steps
  <1> QED
    BY <1>6, <1>9, <1>10, <1>11, <1>13, <1>15, <1>16, AloneCriterion

LEMMA AloneWriteState ==
  ASSUME Alone, TMInv, AloneInv, NEW s \in Session, WriteState(s)
  PROVE  AloneInv' /\ KeepsLogs /\ KeepsToEdges
  <1>1. PICK r : r = session[s]
    OBVIOUS
  <1>2. /\ r \in Commands /\ Memory(r) /\ r.at = "state" /\ r.c \in Change /\ r.to \in Status /\ r.now \in Nat
        /\ r.st \in Logged \cup {Absent}
        /\ ContinuesState(r) /\ ContinuesPages(r) /\ ContinuesPeers(r)
    BY <1>1, AloneSession, CommandType DEF WriteState
  <1> DEFINE st == NewState(r)
  <1>3. r.st = state[r.c]
    BY <1>2 DEF ContinuesState
  <1>4. /\ st \in Logged /\ st.status = r.to /\ st # Absent
        /\ r.st # Absent => IsPrefix(r.st.log, st.log) /\ st.stamp > r.st.stamp
    BY <1>2, <1>3, MovedType, QuickType, Present DEF NewState, Quick
  <1>5. /\ state' = [state EXCEPT ![r.c] = st]
        /\ IF After(r) = "idle" THEN End(s) ELSE Put(s, [r EXCEPT !.at = After(r)])
        /\ UNCHANGED <<clock, pages, backup, proposal, killed, unrestored>>
    <2>1. Accepted(r.c, st)
      BY <1>3, <1>4 DEF Accepted
    <2> QED
      BY <1>1, <2>1, Zenon DEF WriteState, Goto
  <1> HIDE DEF st
  <1>6. state'[r.c] = st /\ \A c \in Change \ {r.c} : state'[c] = state[c]
    BY <1>2, <1>5 DEF TMInv, TypeInv
  <1>7. \A p \in Change \ {r.c} : p \in Peers(r.c)' <=> p \in Peers(r.c)
    BY <1>6 DEF Peers, Listed
  <1>8. session'[s] # Idle => (ContinuesState(session[s]) /\ ContinuesPages(session[s]) /\ ContinuesPeers(session[s]))'
    <2>1. CASE End(s)
      BY <2>1 DEF End, Put, TMInv, TypeInv
    <2>2. CASE ~End(s)
      <3>1. PICK n : n = [r EXCEPT !.at = After(r)]
        OBVIOUS
      <3>2. After(r) \in {"scan", "archive"} /\ Put(s, n) /\ (After(r) = "archive" => r.to # "archived")
        BY <1>5, <2>2, <3>1 DEF After, Quick
      <3>3. n \in Commands /\ n = [ at |-> After(r), c |-> r.c, to |-> r.to, now |-> r.now, st |-> r.st, deltas |-> r.deltas,
                                    seen |-> r.seen, todo |-> r.todo, peers |-> r.peers, peer |-> r.peer ]
        BY <1>2, <3>1, <3>2, GotoType
      <3>4. session'[s] = n
        BY <3>2, <3>3, PutType DEF TMInv, TypeInv
      <3>5. ContinuesState(n)' /\ ContinuesPages(n)'
        BY <3>2, <3>3 DEF ContinuesState, ContinuesPages, Archives
      <3>6. ContinuesPeers(n)'
        <4>1. Archives(n, {"backup", "commit", "proposal", "state", "scan"}) =>
                 \A p \in Peers(r.c)' : proposal[p].status # "proposed" =>
                    Touched(proposal[p].deltas) \cap Touched(r.deltas) = {}
          <5>1. \A p \in Peers(r.c)' : p \in Peers(r.c)
            <6>1. \A p \in Peers(r.c)' : p \in Change \ {r.c}
              BY DEF Peers, Listed
            <6> QED
              BY <1>7, <6>1
          <5>2. n.to = "archived" => Archives(r, {"backup", "commit", "proposal", "state", "scan"})
            BY <1>2, <3>3 DEF Archives
          <5> QED
            BY <1>2, <5>1, <5>2 DEF ContinuesPeers, Archives
        <4>2. r.peer = Absent
          BY <1>2 DEF ContinuesPeers
        <4> QED
          BY <1>5, <3>2, <3>3, <4>1, <4>2 DEF ContinuesPeers, Archives
      <3> QED
        BY <3>4, <3>5, <3>6
    <2> QED
      BY <2>1, <2>2
  <1>9. \A c \in Change : Landed(c)' = Landed(c)
    BY <1>5 DEF Landed
  <1>10. state[r.c] # Absent => state[r.c].status # "archived" /\ <<state[r.c].status, r.to>> \in Steps
    BY <1>2, <1>3, StepsAreEdges DEF ContinuesState
  <1>11. LandedInv'
    BY <1>1, <1>2, <1>4, <1>5, <1>6, <1>9, <1>10, AloneSession, Present DEF LandedInv, Archives
  <1>12. r.to = "archived" => r.deltas = proposal[r.c].deltas /\ DOMAIN r.deltas \subseteq Landed(r.c)
    BY <1>2 DEF ContinuesState, ContinuesPages, Archives
  <1>13. ArchivedIsOnPages'
    BY <1>4, <1>5, <1>6, <1>9, <1>12 DEF AloneInv, ArchivedIsOnPages
  <1>14. proposal[r.c].status = r.to
    BY <1>2 DEF ContinuesState
  <1>15. ProposalLeads'
    BY <1>4, <1>5, <1>6, <1>14 DEF AloneInv, ProposalLeads
  <1>16. KeepsLogs
    <2>1. \A c \in Change \ {r.c} : state[c] # Absent => state'[c] # Absent /\ IsPrefix(state[c].log, state'[c].log)
      <3>1. state \in [Change -> Logged \cup {Absent}] /\ "archived" \in Status
        BY DEF TMInv, TypeInv, Status
      <3>2. \A c \in Change : state[c] # Absent => state[c].log \in Seq(Status)
        BY <3>1 DEF Logged, ChangeState
      <3> QED
        BY <1>6, <3>1, <3>2, LogGrows
    <2> QED
      BY <1>3, <1>4, <1>6, <2>1 DEF KeepsLogs
  <1>17. KeepsToEdges
    <2>1. <<StatusOf(r.c), r.to>> \in Lifecycle!Edge
      BY <1>2, <1>3, <1>10, StepsAreEdges DEF StatusOf, Memory
    <2>2. StatusOf(r.c)' = r.to /\ \A d \in Change \ {r.c} : StatusOf(d)' = StatusOf(d)
      BY <1>4, <1>6 DEF StatusOf
    <2> QED
      BY <1>2, <2>1, <2>2 DEF KeepsToEdges
  <1> QED
    BY <1>8, <1>11, <1>13, <1>15, <1>16, <1>17, AloneCriterion

LEMMA ArchivingAlone ==
  ASSUME TMInv, AloneInv, NEW c \in Change, NEW now \in Nat,
         state[c] # Absent, state[c].status = "in-progress", PreFlight(proposal[c].deltas)
  PROVE  LET r == Archiving(c, now)
         IN  ContinuesState(r) /\ ContinuesPages(r) /\ ContinuesPeers(r)
  <1>0. PICK r : r = Archiving(c, now)
    OBVIOUS
  <1> DEFINE deltas == proposal[c].deltas
  <1>1. DOMAIN deltas \subseteq Domain
    BY PartialElim DEF TMInv, TypeInv, MemoryInv, Proposals, Deltas
  <1>2. /\ r.at \in {"backup", "conflict"} /\ (r.at = "backup" => Conflicts(c) = {})
        /\ r.c = c /\ r.to = "archived" /\ r.st = state[c] /\ r.deltas = deltas
        /\ r.seen = [d \in DOMAIN deltas |-> pages[d]] /\ r.todo = DOMAIN deltas
        /\ r.peers = NoDeltas /\ r.peer = Absent
    BY <1>0 DEF Archiving
  <1>3. ContinuesState(r)
    BY <1>2 DEF ContinuesState, Archives
  <1>4. ContinuesPages(r)
    BY <1>1, <1>2 DEF ContinuesPages, Archives, PreFlight
  <1>5. Conflicts(c) = {} => \A p \in Peers(c) : Touched(proposal[p].deltas) \cap Touched(deltas) = {}
    BY DEF Conflicts
  <1>6. ContinuesPeers(r)
    BY <1>2, <1>5 DEF ContinuesPeers, Archives
  <1> QED
    BY <1>0, <1>3, <1>4, <1>6

LEMMA AloneArchiveBegins ==
  ASSUME Alone, TMInv, AloneInv, NEW s \in Session, NEW c \in Change
  PROVE  /\ BeginArchive(s, c) => AloneInv'
         /\ ContinueQuick(s) => AloneInv'
  <1>1. ASSUME BeginArchive(s, c)
        PROVE  AloneInv'
    <2>1. PICK r : r = Archiving(c, clock + 1)
      OBVIOUS
    <2>2. clock + 1 \in Nat
      BY DEF TMInv, TypeInv
    <2>3. r \in Commands /\ Memory(r) /\ ContinuesState(r) /\ ContinuesPages(r) /\ ContinuesPeers(r)
      BY <1>1, <2>1, <2>2, ArchivingType, ArchivingAlone DEF BeginArchive
    <2>4. UNCHANGED <<pages, backup, proposal, state, killed, unrestored>> /\ Begin(s, r)
      BY <1>1, <2>1 DEF BeginArchive
    <2>5. (ContinuesState(r) /\ ContinuesPages(r) /\ ContinuesPeers(r))'
      BY <2>3, <2>4 DEF ContinuesState, ContinuesPages, ContinuesPeers, Archives, Landed, Peers, Listed
    <2> QED
      BY <2>3, <2>4, <2>5, AloneBegin
  <1>2. ASSUME ContinueQuick(s)
        PROVE  AloneInv'
    <2>1. /\ session[s].c \in Change /\ session[s].now \in Nat /\ state[session[s].c] # Absent
          /\ session[s].at = "archive"
          /\ UNCHANGED <<clock, pages, backup, proposal, state, killed, unrestored>>
      BY <1>2, CommandType DEF ContinueQuick, Memory
    <2>2. ArchivedIsOnPages' /\ ProposalLeads'
      BY <2>1, AloneFrame DEF AloneInv
    <2>3. LandedInv'
      BY <2>1, AloneSession DEF LandedInv, Landed, Archives
    <2>4. CASE End(s)
      <3>1. session'[s] = Idle
        BY <2>4 DEF End, Put, TMInv, TypeInv
      <3> QED
        BY <2>2, <2>3, <3>1, AloneCriterion
    <2>5. CASE ~End(s)
      <3>1. PICK r : r = Archiving(session[s].c, session[s].now)
        OBVIOUS
      <3>2. Put(s, r) /\ PreFlight(proposal[session[s].c].deltas) /\ state[session[s].c].status = "in-progress"
        BY <1>2, <2>5, <3>1 DEF ContinueQuick
      <3>3. r \in Commands /\ ContinuesState(r) /\ ContinuesPages(r) /\ ContinuesPeers(r)
        BY <2>1, <3>1, <3>2, ArchivingType, ArchivingAlone
      <3>4. (ContinuesState(r) /\ ContinuesPages(r) /\ ContinuesPeers(r))'
        BY <2>1, <3>3 DEF ContinuesState, ContinuesPages, ContinuesPeers, Archives, Landed, Peers, Listed
      <3>5. session'[s] = r
        BY <3>2, <3>3, PutType DEF TMInv, TypeInv
      <3> QED
        BY <2>2, <2>3, <3>4, <3>5, AloneCriterion
    <2> QED
      BY <2>4, <2>5
  <1> QED
    BY <1>1, <1>2

LEMMA AloneConflicts ==
  ASSUME Alone, TMInv, AloneInv, NEW s \in Session, RecordConflicts(s)
  PROVE  AloneInv' /\ KeepsLogs /\ KeepsToEdges
  <1>1. /\ session[s].at = "conflict" /\ session[s].st = state[session[s].c] /\ session[s].c \in Change
        /\ UNCHANGED <<clock, pages, backup, proposal, killed, unrestored>> /\ End(s)
    BY AloneSession, CommandType DEF RecordConflicts, ContinuesState
  <1>2. session'[s] = Idle
    BY <1>1 DEF End, Put, TMInv, TypeInv
  <1>3. ASSUME NEW c \in Change
        PROVE  \/ state'[c] = state[c]
               \/ /\ state[c] # Absent /\ state[c] \in Logged /\ state'[c] \in Logged
                  /\ state'[c].status = state[c].status /\ state'[c].log = state[c].log
    <2>1. CASE state'[c] # state[c]
      <3>1. PICK st \in {state[c], session[s].st} :
                 /\ st # Absent /\ st \in Logged
                 /\ c # session[s].c => st = state[c]
                 /\ state'[c] \in Logged /\ state'[c].status = st.status /\ state'[c].log = st.log
        BY <2>1, ConflictType
      <3>2. st = state[c]
        BY <1>1, <3>1
      <3> QED
        BY <3>1, <3>2
    <2> QED
      BY <2>1
  <1>4. \A c \in Change : /\ state'[c] # Absent <=> state[c] # Absent
                          /\ state[c] # Absent => state'[c].status = state[c].status /\ state'[c].log = state[c].log
    BY <1>3, Present
  <1>5. \A c \in Change : Landed(c)' = Landed(c)
    BY <1>1 DEF Landed
  <1>6. LandedInv'
    BY <1>1, <1>4, <1>5, AloneSession DEF LandedInv, Archives
  <1>7. ArchivedIsOnPages' /\ ProposalLeads'
    BY <1>1, <1>4, <1>5 DEF AloneInv, ArchivedIsOnPages, ProposalLeads
  <1>8. KeepsToEdges
    BY <1>4 DEF KeepsToEdges, StatusOf
  <1>9. KeepsLogs
    <2>1. \A c \in Change : state[c] # Absent => IsPrefix(state[c].log, state[c].log)
      BY KeepsFrame DEF KeepsLogs, TMInv, TypeInv, Logged, ChangeState, IsPrefix
    <2> QED
      BY <1>4, <2>1 DEF KeepsLogs
  <1> QED
    BY <1>2, <1>6, <1>7, <1>8, <1>9, AloneCriterion

LEMMA AloneBackup ==
  ASSUME Alone, TMInv, AloneInv, NEW s \in Session, Backup(s)
  PROVE  AloneInv'
  <1>1. PICK r : r = session[s]
    OBVIOUS
  <1>2. /\ r \in Commands /\ Memory(r) /\ r.at = "backup" /\ r.to = "archived" /\ r.c \in Change /\ r.todo \subseteq Domain
        /\ ContinuesState(r) /\ ContinuesPages(r) /\ ContinuesPeers(r)
    BY <1>1, AloneSession, CommandType DEF Backup, Memory
  <1>3. /\ backup' = [d \in DOMAIN backup \cup r.todo |-> IF d \in r.todo THEN pages[d] ELSE backup[d]]
        /\ Put(s, [r EXCEPT !.at = "commit"])
        /\ UNCHANGED <<clock, pages, proposal, state, killed, unrestored>>
    BY <1>1 DEF Backup, Goto
  <1>4. PICK n : n = [r EXCEPT !.at = "commit"]
    OBVIOUS
  <1>5. n \in Commands /\ n = [ at |-> "commit", c |-> r.c, to |-> r.to, now |-> r.now, st |-> r.st, deltas |-> r.deltas,
                                seen |-> r.seen, todo |-> r.todo, peers |-> r.peers, peer |-> r.peer ]
    BY <1>2, <1>4, GotoType
  <1>6. session'[s] = n
    BY <1>3, <1>4, <1>5, PutType DEF TMInv, TypeInv
  <1>7. /\ r.todo = DOMAIN r.deltas /\ \A d \in r.todo : pages[d] = r.seen[d] /\ Applies(r.deltas[d], r.seen[d])
        /\ r.st = state[r.c] /\ r.st # Absent /\ r.st.status = "in-progress" /\ r.deltas = proposal[r.c].deltas
    BY <1>2 DEF Memory, ContinuesPages, ContinuesState, Archives
  <1>8. r.c \notin killed \cup unrestored => Landed(r.c) = {}
    BY <1>1, <1>2, <1>7, AloneSession DEF Archives
  <1>9. ContinuesState(n)'
    BY <1>3, <1>5, <1>7 DEF ContinuesState, Archives
  <1>10. ContinuesPages(n)'
    <2>1. \A d \in DOMAIN r.deltas : d \in DOMAIN backup' /\ backup'[d] = r.seen[d]
      BY <1>3, <1>7
    <2>2. r.c \notin killed \cup unrestored => \A d \in Domain : ~On(r.c, pages[d])
      BY <1>8 DEF Landed, On
    <2>3. r.c \notin killed \cup unrestored => \A d \in Domain : ~On(r.c, IF d \in DOMAIN r.deltas THEN r.seen[d] ELSE pages[d])
      BY <1>7, <2>2
    <2>4. proposal[r.c].status = "archived" => \A d \in DOMAIN r.deltas : On(r.c, r.seen[d])
      BY <1>2, <1>7, Present, CommandType, <1>1 DEF AloneInv, ArchivedIsOnPages, Landed, On
    <2> QED
      BY <1>3, <1>5, <1>7, <2>1, <2>3, <2>4 DEF ContinuesPages, Archives, On
  <1>11. ContinuesPeers(n)'
    BY <1>2, <1>3, <1>5 DEF ContinuesPeers, Archives, Peers, Listed
  <1>12. LandedInv'
    BY <1>1, <1>2, <1>3, AloneSession DEF LandedInv, Landed, Archives
  <1>13. ArchivedIsOnPages' /\ ProposalLeads'
    BY <1>3, AloneFrame DEF AloneInv
  <1> QED
    BY <1>6, <1>9, <1>10, <1>11, <1>12, <1>13, AloneCriterion

LEMMA AloneCommit ==
  ASSUME Alone, TMInv, AloneInv, NEW s \in Session, Commit(s)
  PROVE  AloneInv' /\ ReplacesReviewed
  <1>1. PICK r : r = session[s]
    OBVIOUS
  <1>2. /\ r \in Commands /\ Memory(r) /\ r.at = "commit" /\ r.to = "archived" /\ r.c \in Change
        /\ r.todo \in SUBSET Domain /\ r.todo # {} /\ r.todo \subseteq DOMAIN r.deltas
        /\ DOMAIN r.deltas = DOMAIN r.seen /\ DOMAIN r.deltas \subseteq Domain
        /\ r.seen \in [DOMAIN r.seen -> Page] /\ r.deltas \in [DOMAIN r.deltas -> Operation]
        /\ ContinuesState(r) /\ ContinuesPages(r) /\ ContinuesPeers(r)
    BY <1>1, AloneSession, CommandType, PartialElim DEF Commit, Memory, Pages, Deltas
  <1> DEFINE d == Min(r.todo)
             left == r.todo \ {d}
             at == IF r.todo = {d} THEN "proposal" ELSE "commit"
             half == [r EXCEPT !.todo = left]
  <1>3. d \in r.todo /\ d \in Domain /\ d \in DOMAIN r.deltas
    BY <1>2, LeastIsIn
  <1>4. /\ pages' = [pages EXCEPT ![d] = Compose(r.seen[d], r.deltas[d], r.c)]
        /\ Put(s, [half EXCEPT !.at = at])
        /\ UNCHANGED <<clock, backup, proposal, state, killed, unrestored>>
    BY <1>1, Zenon DEF Commit
  <1>5. left = r.todo \ {d} /\ left \subseteq Domain /\ at \in {"proposal", "commit"} /\ (at = "proposal" => left = {})
    BY <1>2, <1>3
  <1> HIDE DEF d, left, at
  <1>6. half \in Commands /\ half = [ at |-> r.at, c |-> r.c, to |-> r.to, now |-> r.now, st |-> r.st, deltas |-> r.deltas,
                                      seen |-> r.seen, todo |-> left, peers |-> r.peers, peer |-> r.peer ]
    <2>1. r \in Commands /\ left \in SUBSET Domain
      BY <1>2, <1>5
    <2> QED
      BY <2>1 DEF Commands
  <1> HIDE DEF half
  <1>7. PICK n : n = [half EXCEPT !.at = at]
    OBVIOUS
  <1>8. n \in Commands /\ n = [ at |-> at, c |-> r.c, to |-> r.to, now |-> r.now, st |-> r.st, deltas |-> r.deltas,
                                seen |-> r.seen, todo |-> left, peers |-> r.peers, peer |-> r.peer ]
    BY <1>5, <1>6, <1>7, GotoType
  <1>9. session'[s] = n
    BY <1>4, <1>7, <1>8, PutType DEF TMInv, TypeInv
  <1>10. /\ pages[d] = r.seen[d] /\ Applies(r.deltas[d], r.seen[d]) /\ r.seen[d] \in Page /\ r.seen[d].changes \in Seq(Change)
         /\ r.st = state[r.c] /\ r.st # Absent /\ r.st.status = "in-progress" /\ r.deltas = proposal[r.c].deltas
    BY <1>2, <1>3 DEF Memory, ContinuesPages, ContinuesState, Archives, Page
  <1>11. /\ pages'[d].changes = Append(r.seen[d].changes, r.c)
         /\ \A e \in Domain \ {d} : pages'[e] = pages[e]
    BY <1>2, <1>3, <1>4, <1>10, ComposeType DEF TMInv, TypeInv
  <1>12. /\ Range(pages'[d].changes) = Range(pages[d].changes) \cup {r.c}
         /\ Last(pages'[d].changes) = r.c
    BY <1>2, <1>10, <1>11, LogGrows
  <1>13. /\ \A c \in Change \ {r.c} : Landed(c)' = Landed(c)
         /\ \A c \in Change : Landed(c) \subseteq Landed(c)'
    BY <1>3, <1>11, <1>12 DEF Landed
  <1>14. ContinuesState(n)'
    BY <1>4, <1>5, <1>8, <1>10, <1>2 DEF ContinuesState, Archives, Steps
  <1>15. ContinuesPages(n)'
    <2>1. \A e \in left : pages'[e] = r.seen[e] /\ Applies(r.deltas[e], r.seen[e])
      BY <1>2, <1>5, <1>11 DEF ContinuesPages
    <2>2. \A e \in DOMAIN r.deltas \ left : pages'[e].changes = Append(r.seen[e].changes, r.c)
      BY <1>2, <1>5, <1>11 DEF ContinuesPages
    <2>3. at = "commit" =>
             /\ \A e \in DOMAIN r.deltas : e \in DOMAIN backup' /\ backup'[e] = r.seen[e]
             /\ proposal'[r.c].status = "archived" => \A e \in DOMAIN r.deltas : On(r.c, r.seen[e])
             /\ r.c \notin (killed \cup unrestored)' => \A e \in Domain : ~On(r.c, IF e \in DOMAIN r.deltas THEN r.seen[e] ELSE pages'[e])
      BY <1>2, <1>3, <1>4, <1>11 DEF ContinuesPages
    <2>4. at = "proposal" => DOMAIN r.deltas \subseteq Landed(r.c)'
      <3> SUFFICES ASSUME at = "proposal", NEW e \in DOMAIN r.deltas
                   PROVE  e \in Domain /\ r.c \in Range(pages'[e].changes)
        BY DEF Landed
      <3>1. pages'[e].changes = Append(r.seen[e].changes, r.c) /\ r.seen[e].changes \in Seq(Change)
        BY <1>2, <1>5, <2>2 DEF Page
      <3> QED
        BY <1>2, <3>1, LogGrows
    <2> QED
      BY <1>2, <1>5, <1>8, <2>1, <2>2, <2>3, <2>4 DEF ContinuesPages, Archives
  <1>16. ContinuesPeers(n)'
    BY <1>2, <1>4, <1>5, <1>8 DEF ContinuesPeers, Archives, Peers, Listed
  <1>17. LandedInv'
    <2>1. ASSUME NEW c \in Change \ (killed \cup unrestored), Landed(c)' # {}
          PROVE  \/ state'[c] # Absent /\ state'[c].status = "archived"
                 \/ \E t \in Session : session'[t].c = c /\ Archives(session'[t], {"commit", "proposal", "state"})
      <3>1. CASE c = r.c
        BY <1>2, <1>5, <1>8, <1>9, <3>1 DEF Archives
      <3>2. CASE c # r.c
        BY <1>1, <1>4, <1>13, <2>1, <3>2, AloneSession DEF Commit
      <3> QED
        BY <3>1, <3>2
    <2> QED
      BY <1>4, <2>1 DEF LandedInv, Archives
  <1>18. ArchivedIsOnPages' /\ ProposalLeads'
    BY <1>4, <1>13 DEF AloneInv, ArchivedIsOnPages, ProposalLeads
  <1>19. ReplacesReviewed
    <2> SUFFICES ASSUME NEW e \in Domain, Len(pages'[e].changes) > Len(pages[e].changes)
                 PROVE  LET op == proposal[Last(pages'[e].changes)].deltas[e]
                        IN  op.kind = "modify" => pages[e].reqs[op.id] = op.before
      BY DEF ReplacesReviewed
    <2>1. e = d
      <3> SUFFICES ASSUME e # d
                   PROVE  FALSE
        OBVIOUS
      <3>1. pages'[e] = pages[e] /\ Len(pages[e].changes) \in Nat
        BY <1>11 DEF TMInv, TypeInv, Page
      <3> QED
        BY <3>1
    <2> QED
      BY <1>10, <1>12, <2>1 DEF Applies
  <1> QED
    BY <1>9, <1>14, <1>15, <1>16, <1>17, <1>18, <1>19, AloneCriterion

(* Every page that is restored reads as before; if all that were committed  *)
(* are, the change is on none of its pages.                                 *)
LEMMA AloneCommitFails ==
  ASSUME Alone, TMInv, AloneInv, NEW s \in Session, CommitFails(s)
  PROVE  AloneInv' /\ ReplacesReviewed
  <1>1. PICK r : r = session[s]
    OBVIOUS
  <1>2. /\ r \in Commands /\ Memory(r) /\ r.at = "commit" /\ r.to = "archived" /\ r.c \in Change
        /\ DOMAIN r.deltas = DOMAIN r.seen /\ DOMAIN r.deltas \subseteq Domain
        /\ r.seen \in [DOMAIN r.seen -> Page]
        /\ ContinuesState(r) /\ ContinuesPages(r)
    BY <1>1, AloneSession, CommandType, PartialElim DEF CommitFails, Memory, Pages, Deltas
  <1>3. \A d \in DOMAIN r.deltas : d \in DOMAIN backup /\ backup[d] = r.seen[d]
    BY <1>2 DEF ContinuesPages
  <1>a. PICK copied \in SUBSET DOMAIN r.deltas :
            /\ \A d \in Domain : pages'[d] = IF d \in copied THEN r.seen[d] ELSE pages[d]
            /\ unrestored' = IF DOMAIN r.deltas \ r.todo \subseteq copied THEN unrestored ELSE unrestored \cup {r.c}
    BY <1>1, <1>3 DEF CommitFails, Restored
  <1>4. UNCHANGED <<clock, backup, proposal, state, killed>> /\ End(s)
    BY <1>1 DEF CommitFails
  <1>b. \A d \in r.todo : pages[d] = r.seen[d]
    BY <1>2 DEF ContinuesPages
  <1>c. r.c \notin unrestored' => \A d \in Domain : pages'[d] = IF d \in DOMAIN r.deltas THEN r.seen[d] ELSE pages[d]
    BY <1>2, <1>a, <1>b
  <1>5. session'[s] = Idle
    BY <1>4 DEF End, Put, TMInv, TypeInv
  <1>6. ASSUME NEW d \in DOMAIN r.deltas
        PROVE  /\ r.seen[d].changes \in Seq(Change)
               /\ \/ pages[d] = r.seen[d]
                  \/ pages[d].changes = Append(r.seen[d].changes, r.c)
    BY <1>2 DEF ContinuesPages, Page
  <1>7. ASSUME NEW d \in Domain
        PROVE  /\ Len(pages'[d].changes) <= Len(pages[d].changes)
               /\ \A c \in Change \ {r.c} : c \in Range(pages'[d].changes) <=> c \in Range(pages[d].changes)
    <2>1. CASE d \in copied
      <3>1. pages'[d] = r.seen[d]
        BY <1>a, <2>1
      <3>2. Len(r.seen[d].changes) \in Nat
        BY <1>6, <2>1
      <3>3. CASE pages[d] = r.seen[d]
        BY <3>1, <3>2, <3>3
      <3>4. CASE pages[d].changes = Append(r.seen[d].changes, r.c)
        <4>1. /\ Len(pages[d].changes) = Len(r.seen[d].changes) + 1
              /\ Range(pages[d].changes) = Range(r.seen[d].changes) \cup {r.c}
          BY <1>2, <1>6, <2>1, <3>4, LogGrows
        <4> QED
          BY <3>1, <3>2, <4>1
      <3> QED
        BY <1>6, <2>1, <3>3, <3>4
    <2>2. CASE d \notin copied
      <3>1. pages'[d] = pages[d] /\ Len(pages[d].changes) \in Nat
        BY <1>a, <2>2 DEF TMInv, TypeInv, Page
      <3> QED
        BY <3>1
    <2> QED
      BY <2>1, <2>2
  <1>8. /\ \A c \in Change \ {r.c} : Landed(c)' = Landed(c)
        /\ r.c \notin (killed \cup unrestored)' => Landed(r.c)' = {}
    <2>1. \A c \in Change \ {r.c} : Landed(c)' = Landed(c)
      BY <1>7 DEF Landed
    <2>2. r.c \notin killed \cup unrestored => \A d \in Domain : ~On(r.c, IF d \in DOMAIN r.deltas THEN r.seen[d] ELSE pages[d])
      BY <1>2 DEF ContinuesPages
    <2>3. r.c \notin (killed \cup unrestored)' => \A d \in Domain : ~On(r.c, pages'[d])
      BY <1>4, <1>a, <1>c, <2>2
    <2> QED
      BY <2>1, <2>3 DEF Landed, On
  <1>9. LandedInv'
    <2>1. ASSUME NEW c \in Change \ (killed \cup unrestored)', Landed(c)' # {}
          PROVE  state'[c] # Absent /\ state'[c].status = "archived"
      <3>1. c # r.c /\ c \notin killed \cup unrestored
        BY <1>4, <1>a, <1>8, <2>1
      <3> QED
        BY <1>1, <1>2, <1>4, <1>8, <2>1, <3>1, AloneSession DEF CommitFails
    <2> QED
      BY <1>4, <2>1 DEF LandedInv
  <1>10. state[r.c].status = "in-progress"
    BY <1>2 DEF ContinuesState, Archives
  <1>11. ArchivedIsOnPages' /\ ProposalLeads'
    <2>1. proposal[r.c].status = "archived" => \A d \in DOMAIN r.deltas : On(r.c, pages'[d])
      <3> SUFFICES ASSUME proposal[r.c].status = "archived", NEW d \in DOMAIN r.deltas, d \notin copied
                   PROVE  On(r.c, pages'[d])
        BY <1>2, <1>a DEF ContinuesPages
      <3>1. pages'[d] = pages[d] /\ On(r.c, r.seen[d])
        BY <1>2, <1>a DEF ContinuesPages
      <3>2. /\ r.seen[d].changes \in Seq(Change)
            /\ pages[d] = r.seen[d] \/ pages[d].changes = Append(r.seen[d].changes, r.c)
        BY <1>6
      <3>3. Range(Append(r.seen[d].changes, r.c)) = Range(r.seen[d].changes) \cup {r.c}
        BY <1>2, <3>2, LogGrows
      <3> QED
        BY <3>1, <3>2, <3>3 DEF On
    <2>2. r.deltas = proposal[r.c].deltas
      BY <1>2 DEF ContinuesState, Archives
    <2> QED
      BY <1>2, <1>4, <1>8, <1>10, <2>1, <2>2 DEF AloneInv, ArchivedIsOnPages, ProposalLeads, Landed, On
  <1>12. ReplacesReviewed
    <2>1. \A d \in Domain : Len(pages'[d].changes) \in Nat /\ Len(pages[d].changes) \in Nat
      <3>1. pages' \in [Domain -> Page] /\ pages \in [Domain -> Page]
        BY PagesType DEF TMInv, TypeInv
      <3> QED
        BY <3>1 DEF Page
    <2>2. \A d \in Domain : ~(Len(pages'[d].changes) > Len(pages[d].changes))
      BY <1>7, <2>1
    <2> QED
      BY <2>2, Zenon DEF ReplacesReviewed
  <1> QED
    BY <1>5, <1>9, <1>11, <1>12, AloneCriterion

(* What the archive removed is targeted only by proposals that were not yet *)
(* reviewed when it looked for conflicts.                                   *)
LEMMA AloneScan ==
  ASSUME Alone, TMInv, AloneInv, NEW s \in Session, Scan(s)
  PROVE  AloneInv'
  <1>1. PICK r : r = session[s]
    OBVIOUS
  <1>2. /\ r \in Commands /\ Memory(r) /\ r.at = "scan" /\ r.to = "archived" /\ r.c \in Change
        /\ ContinuesState(r) /\ ContinuesPages(r) /\ ContinuesPeers(r)
    BY <1>1, AloneSession, CommandType DEF Scan, Memory
  <1> DEFINE hit == {p \in Peers(r.c) : Touched(proposal[p].deltas) \cap Removed(r.deltas) # {}}
             peers == [p \in hit |-> state[p]]
             half == [r EXCEPT !.peers = peers]
  <1>3. Put(s, [half EXCEPT !.at = "peers"]) /\ UNCHANGED <<clock, pages, backup, proposal, state, killed, unrestored>>
    BY <1>1, Zenon DEF Scan
  <1>4. hit \in SUBSET Change /\ (\A p \in hit : state[p] \in Logged)
    BY DEF Peers, Listed, TMInv, TypeInv
  <1>5. \A p \in hit : state[p] # Absent /\ state[p].status \in InFlight /\ proposal[p].status = "proposed"
    <2>1. Removed(r.deltas) \subseteq Touched(r.deltas)
      BY DEF Removed, Touched
    <2>2. \A p \in Peers(r.c) : proposal[p].status # "proposed" => Touched(proposal[p].deltas) \cap Touched(r.deltas) = {}
      BY <1>2 DEF ContinuesPeers, Archives
    <2> QED
      BY <2>1, <2>2 DEF Peers, Listed
  <1> HIDE DEF hit
  <1>6. peers \in Partial(Change, Logged) /\ DOMAIN peers = hit /\ \A p \in hit : peers[p] = state[p]
    <2>1. peers \in [hit -> Logged]
      BY <1>4
    <2> QED
      BY <1>4, <2>1, PartialIntro
  <1> HIDE DEF peers
  <1>7. half \in Commands /\ half = [ at |-> r.at, c |-> r.c, to |-> r.to, now |-> r.now, st |-> r.st, deltas |-> r.deltas,
                                      seen |-> r.seen, todo |-> r.todo, peers |-> peers, peer |-> r.peer ]
    <2>1. r \in Commands /\ peers \in Partial(Change, Logged)
      BY <1>2, <1>6
    <2> QED
      BY <2>1 DEF Commands
  <1> HIDE DEF half
  <1>8. PICK n : n = [half EXCEPT !.at = "peers"]
    OBVIOUS
  <1>9. n \in Commands /\ n = [ at |-> "peers", c |-> r.c, to |-> r.to, now |-> r.now, st |-> r.st, deltas |-> r.deltas,
                                seen |-> r.seen, todo |-> r.todo, peers |-> peers, peer |-> r.peer ]
    BY <1>7, <1>8, GotoType
  <1>10. session'[s] = n
    BY <1>3, <1>8, <1>9, PutType DEF TMInv, TypeInv
  <1>11. ContinuesState(n)' /\ ContinuesPages(n)'
    BY <1>9 DEF ContinuesState, ContinuesPages, Archives
  <1>12. ContinuesPeers(n)'
    BY <1>2, <1>3, <1>5, <1>6, <1>9 DEF ContinuesPeers, Archives
  <1>13. LandedInv'
    BY <1>1, <1>2, <1>3, AloneSession DEF LandedInv, Landed, Archives
  <1>14. ArchivedIsOnPages' /\ ProposalLeads'
    BY <1>3, AloneFrame DEF AloneInv
  <1> QED
    BY <1>10, <1>11, <1>12, <1>13, <1>14, AloneCriterion

LEMMA AloneSupersede ==
  ASSUME Alone, TMInv, AloneInv, NEW s \in Session, NEW p \in Change, Supersede(s, p)
  PROVE  AloneInv' /\ KeepsLogs /\ KeepsToEdges
  <1>1. PICK r : r = session[s]
    OBVIOUS
  <1>2. /\ r \in Commands /\ Memory(r) /\ r.at = "peers" /\ r.to = "archived" /\ r.now \in Nat
        /\ r.peers \in Partial(Change, Logged) /\ p \in DOMAIN r.peers
        /\ ContinuesState(r) /\ ContinuesPages(r) /\ ContinuesPeers(r)
    BY <1>1, AloneSession, CommandType DEF Supersede, Memory
  <1>3. /\ \A q \in DOMAIN r.peers : /\ state[q] = r.peers[q] /\ state[q] # Absent
                                     /\ state[q].status \in InFlight /\ proposal[q].status = "proposed"
        /\ r.peer = Absent /\ DOMAIN r.peers \subseteq Change /\ r.peers[p] \in Logged
    <2>1. DOMAIN r.peers \subseteq Change /\ r.peers[p] \in Logged
      BY <1>2, PartialElim
    <2> QED
      BY <1>2, <2>1, Present DEF ContinuesPeers
  <1> DEFINE st == Moved(r.peers[p], "superseded", r.now)
             half == [r EXCEPT !.at = "peer-proposal"]
  <1>4. /\ st \in Logged /\ st.status = "superseded" /\ st # Absent
        /\ IsPrefix(state[p].log, st.log) /\ st.stamp > state[p].stamp
    <2>1. r.peers[p] \in Logged \cup {Absent} /\ r.now \in Nat /\ "superseded" \in Status /\ r.peers[p] # Absent
          /\ state[p] = r.peers[p]
      BY <1>2, <1>3, Present DEF Status
    <2>2. /\ st \in Logged /\ st.status = "superseded"
          /\ IsPrefix(r.peers[p].log, st.log) /\ st.stamp > r.peers[p].stamp
      BY <2>1, MovedType
    <2> QED
      BY <2>1, <2>2, Present
  <1>5. /\ state' = [state EXCEPT ![p] = st]
        /\ Put(s, [half EXCEPT !.peer = p])
        /\ UNCHANGED <<clock, pages, backup, proposal, killed, unrestored>>
    <2>1. Accepted(p, st)
      BY <1>4 DEF Accepted
    <2> QED
      BY <1>1, <2>1, Zenon DEF Supersede
  <1> HIDE DEF st
  <1>6. half \in Commands /\ half = [ at |-> "peer-proposal", c |-> r.c, to |-> r.to, now |-> r.now, st |-> r.st,
                      deltas |-> r.deltas, seen |-> r.seen, todo |-> r.todo, peers |-> r.peers, peer |-> r.peer ]
    BY <1>2, GotoType
  <1> HIDE DEF half
  <1>7. PICK n : n = [half EXCEPT !.peer = p]
    OBVIOUS
  <1>8. n \in Commands /\ n = [ at |-> "peer-proposal", c |-> r.c, to |-> r.to, now |-> r.now, st |-> r.st,
                      deltas |-> r.deltas, seen |-> r.seen, todo |-> r.todo, peers |-> r.peers, peer |-> p ]
    BY <1>6, <1>7 DEF Commands
  <1>9. session'[s] = n
    BY <1>5, <1>7, <1>8, PutType DEF TMInv, TypeInv
  <1>10. state'[p] = st /\ \A c \in Change \ {p} : state'[c] = state[c]
    BY <1>5 DEF TMInv, TypeInv
  <1>11. state[p] # Absent /\ state[p].status \in InFlight /\ proposal[p].status = "proposed"
    BY <1>2, <1>3
  <1>12. ContinuesState(n)' /\ ContinuesPages(n)'
    BY <1>8 DEF ContinuesState, ContinuesPages, Archives
  <1>13. ContinuesPeers(n)'
    BY <1>3, <1>4, <1>5, <1>8, <1>10 DEF ContinuesPeers, Archives
  <1>14. \A c \in Change : Landed(c)' = Landed(c)
    BY <1>5 DEF Landed
  <1>15. state[p].status # "archived" /\ state'[p].status = "superseded"
    BY <1>4, <1>10, <1>11 DEF InFlight
  <1>16. LandedInv'
    <2>1. ASSUME NEW c \in Change \ (killed \cup unrestored), Landed(c) # {}
          PROVE  state'[c] # Absent /\ state'[c].status = "archived"
      <3>1. state[c] # Absent /\ state[c].status = "archived"
        BY <1>1, <1>2, <2>1, AloneSession DEF Archives
      <3> QED
        BY <1>10, <1>15, <3>1
    <2> QED
      BY <1>5, <1>14, <2>1 DEF LandedInv
  <1>17. ArchivedIsOnPages'
    BY <1>5, <1>10, <1>14, <1>15 DEF AloneInv, ArchivedIsOnPages
  <1>18. ProposalLeads'
    <2>1. "proposed" \in InFlight
      BY DEF InFlight
    <2> QED
      BY <1>5, <1>10, <1>11, <1>15, <2>1 DEF AloneInv, ProposalLeads
  <1>19. KeepsLogs
    <2>1. \A c \in Change : state[c] # Absent => IsPrefix(state[c].log, state[c].log)
      <3>1. \A c \in Change : state[c] # Absent => state[c].log \in Seq(Status)
        BY DEF TMInv, TypeInv, Logged, ChangeState
      <3>2. "archived" \in Status
        BY DEF Status
      <3> QED
        BY <3>1, <3>2, LogGrows
    <2> QED
      BY <1>4, <1>10, <2>1 DEF KeepsLogs
  <1>20. KeepsToEdges
    <2>1. <<StatusOf(p), "superseded">> \in Lifecycle!Edge
      BY <1>11, StepsAreEdges DEF StatusOf
    <2>2. StatusOf(p)' = "superseded" /\ \A d \in Change \ {p} : StatusOf(d)' = StatusOf(d)
      BY <1>4, <1>10 DEF StatusOf
    <2> QED
      BY <2>1, <2>2 DEF KeepsToEdges
  <1> QED
    BY <1>9, <1>12, <1>13, <1>16, <1>17, <1>18, <1>19, <1>20, AloneCriterion

LEMMA AloneSupersedeProposal ==
  ASSUME Alone, TMInv, AloneInv, NEW s \in Session, SupersedeProposal(s)
  PROVE  AloneInv'
  <1>1. PICK r : r = session[s]
    OBVIOUS
  <1>2. /\ r \in Commands /\ Memory(r) /\ r.at = "peer-proposal" /\ r.to = "archived"
        /\ r.peers \in Partial(Change, Logged) /\ r.peer \in DOMAIN r.peers /\ DOMAIN r.peers \subseteq Change
        /\ ContinuesState(r) /\ ContinuesPages(r) /\ ContinuesPeers(r)
    BY <1>1, AloneSession, CommandType, PartialElim DEF SupersedeProposal, Memory
  <1> DEFINE rest == Restrict(r.peers, DOMAIN r.peers \ {r.peer})
             new == [proposal[r.peer] EXCEPT !.status = "superseded"]
             moved == [r EXCEPT !.at = "peers"]
             half == [moved EXCEPT !.peer = Absent]
  <1>3. /\ proposal' = [proposal EXCEPT ![r.peer] = new]
        /\ Put(s, [half EXCEPT !.peers = rest])
        /\ UNCHANGED <<clock, pages, backup, state, killed, unrestored>>
    BY <1>1, Zenon DEF SupersedeProposal
  <1>4. proposal[r.peer] \in Proposals
    BY <1>2 DEF Memory, TMInv, TypeInv
  <1>5. new.status = "superseded" /\ new.deltas = proposal[r.peer].deltas
    BY <1>4 DEF Proposals
  <1>6. /\ rest \in Partial(Change, Logged) /\ DOMAIN rest = DOMAIN r.peers \ {r.peer}
        /\ \A p \in DOMAIN rest : rest[p] = r.peers[p]
    BY <1>2, RestrictType DEF Restrict
  <1> HIDE DEF new, rest
  <1>7. moved \in Commands /\ moved = [ at |-> "peers", c |-> r.c, to |-> r.to, now |-> r.now, st |-> r.st,
                        deltas |-> r.deltas, seen |-> r.seen, todo |-> r.todo, peers |-> r.peers, peer |-> r.peer ]
    BY <1>2, GotoType
  <1> HIDE DEF moved
  <1>8. half \in Commands /\ half = [ at |-> "peers", c |-> r.c, to |-> r.to, now |-> r.now, st |-> r.st,
                        deltas |-> r.deltas, seen |-> r.seen, todo |-> r.todo, peers |-> r.peers, peer |-> Absent ]
    BY <1>7 DEF Commands
  <1> HIDE DEF half
  <1>9. PICK n : n = [half EXCEPT !.peers = rest]
    OBVIOUS
  <1>10. n \in Commands /\ n = [ at |-> "peers", c |-> r.c, to |-> r.to, now |-> r.now, st |-> r.st,
                        deltas |-> r.deltas, seen |-> r.seen, todo |-> r.todo, peers |-> rest, peer |-> Absent ]
    BY <1>6, <1>8, <1>9 DEF Commands
  <1>11. session'[s] = n
    BY <1>3, <1>9, <1>10, PutType DEF TMInv, TypeInv
  <1>12. /\ proposal'[r.peer] = new
         /\ \A c \in Change \ {r.peer} : proposal'[c] = proposal[c]
    BY <1>2, <1>3 DEF TMInv, TypeInv
  <1>13. ContinuesState(n)' /\ ContinuesPages(n)'
    BY <1>10 DEF ContinuesState, ContinuesPages, Archives
  <1>14. ContinuesPeers(n)'
    <2>1. \A p \in DOMAIN r.peers \ {r.peer} :
              state[p] = r.peers[p] /\ state[p] # Absent /\ state[p].status \in InFlight /\ proposal[p].status = "proposed"
      BY <1>2 DEF ContinuesPeers
    <2> QED
      BY <1>2, <1>3, <1>6, <1>10, <1>12, <2>1 DEF ContinuesPeers, Archives
  <1>15. \A c \in Change : Landed(c)' = Landed(c)
    BY <1>3 DEF Landed
  <1>16. LandedInv'
    BY <1>1, <1>2, <1>3, <1>15, AloneSession DEF LandedInv, Archives
  <1>17. state[r.peer] # Absent /\ state[r.peer].status = "superseded"
    BY <1>2 DEF ContinuesPeers
  <1>18. ArchivedIsOnPages'
    BY <1>3, <1>5, <1>12, <1>15, <1>17 DEF AloneInv, ArchivedIsOnPages
  <1>19. ProposalLeads'
    BY <1>3, <1>5, <1>12, <1>17 DEF AloneInv, ProposalLeads
  <1> QED
    BY <1>11, <1>13, <1>14, <1>16, <1>18, <1>19, AloneCriterion

LEMMA AloneRemoveBackups ==
  ASSUME Alone, TMInv, AloneInv, NEW s \in Session, RemoveBackups(s)
  PROVE  AloneInv'
  <1>1. session[s].at = "peers" /\ UNCHANGED <<clock, pages, proposal, state, killed, unrestored>> /\ End(s)
    BY DEF RemoveBackups
  <1>2. session'[s] = Idle
    BY <1>1 DEF End, Put, TMInv, TypeInv
  <1>3. LandedInv'
    BY <1>1, AloneSession DEF LandedInv, Landed, Archives
  <1>4. ArchivedIsOnPages' /\ ProposalLeads'
    BY <1>1, AloneFrame DEF AloneInv
  <1> QED
    BY <1>2, <1>3, <1>4, AloneCriterion

(* Only a proposal that is not reviewed is edited, and none that a command  *)
(* archives is one.                                                         *)
LEMMA AloneEdit ==
  ASSUME Alone, TMInv, AloneInv, NEW c \in Change, NEW f \in Drafts, Edit(c, f)
  PROVE  AloneInv'
  <1> DEFINE new == [proposal[c] EXCEPT !.deltas = Drafted(f)]
  <1>1. proposal[c] \in Proposals /\ proposal[c].status = "proposed"
    BY DEF Edit, TMInv, TypeInv
  <1>2. new.status = "proposed"
    BY <1>1 DEF Proposals
  <1>3. proposal' = [proposal EXCEPT ![c] = new] /\ UNCHANGED <<clock, pages, backup, state, session, killed, unrestored>>
    BY DEF Edit
  <1> HIDE DEF new
  <1>4. /\ proposal'[c] = new
        /\ \A d \in Change \ {c} : proposal'[d] = proposal[d]
        /\ \A d \in Change : proposal'[d].status = proposal[d].status
    BY <1>1, <1>2, <1>3 DEF TMInv, TypeInv
  <1>5. \A d \in Change : Landed(d)' = Landed(d)
    BY <1>3 DEF Landed
  <1>6. \A d \in Change : state[d] # Absent /\ state[d].status \in {"in-progress", "archived"} => proposal'[d] = proposal[d]
    BY <1>1, <1>4, SettledIsNotProposed DEF AloneInv
  <1>7. ASSUME NEW s \in Session, session'[s] # Idle
        PROVE  (ContinuesState(session[s]) /\ ContinuesPages(session[s]) /\ ContinuesPeers(session[s]))'
    <2>1. PICK r : r = session[s]
      OBVIOUS
    <2>2. /\ r \in Commands /\ Memory(r) /\ r.c \in Change /\ r.peers \in Partial(Change, Logged)
          /\ ContinuesState(r) /\ ContinuesPages(r) /\ ContinuesPeers(r)
      BY <1>3, <1>7, <2>1 DEF TMInv, TypeInv, MemoryInv, AloneInv, Commands
    <2>3. DOMAIN r.peers \subseteq Change
      BY <2>2, PartialElim
    <2>4. Archives(r, {"backup", "commit", "proposal", "state"}) => proposal'[r.c] = proposal[r.c]
      BY <1>6, <2>2 DEF ContinuesState, Archives, Memory
    <2>5. ContinuesState(r)'
      BY <1>3, <1>4, <2>2, <2>4 DEF ContinuesState, Archives
    <2>6. ContinuesPages(r)'
      BY <1>3, <1>4, <2>2 DEF ContinuesPages, Archives, Landed
    <2>7. ContinuesPeers(r)'
      <3>1. Peers(r.c)' = Peers(r.c) /\ Peers(r.c) \subseteq Change
        BY <1>3 DEF Peers, Listed
      <3>2. \A p \in Change : proposal'[p].status # "proposed" => proposal[p].status # "proposed" /\ proposal'[p] = proposal[p]
        BY <1>1, <1>4
      <3>3. Archives(r, {"backup", "commit", "proposal", "state", "scan"}) =>
                \A p \in Peers(r.c)' : proposal'[p].status # "proposed" =>
                    Touched(proposal'[p].deltas) \cap Touched(r.deltas) = {}
        BY <2>2, <3>1, <3>2 DEF ContinuesPeers
      <3>4. r.at \in {"peers", "peer-proposal"} =>
                \A p \in DOMAIN r.peers \ {r.peer} :
                    /\ state'[p] = r.peers[p] /\ state'[p] # Absent /\ state'[p].status \in InFlight
                    /\ proposal'[p].status = "proposed"
        BY <1>3, <1>4, <2>2, <2>3 DEF ContinuesPeers
      <3> QED
        BY <1>3, <2>2, <3>3, <3>4 DEF ContinuesPeers, Archives
    <2> QED
      BY <1>3, <2>1, <2>5, <2>6, <2>7
  <1>8. LandedInv'
    BY <1>3, <1>5 DEF AloneInv, LandedInv, Archives
  <1>9. ArchivedIsOnPages'
    BY <1>1, <1>3, <1>4, <1>5, <1>6 DEF AloneInv, ArchivedIsOnPages
  <1>10. ProposalLeads'
    BY <1>3, <1>4 DEF AloneInv, ProposalLeads
  <1> QED
    BY <1>7, <1>8, <1>9, <1>10 DEF AloneInv

LEMMA AloneCrash ==
  ASSUME Alone, TMInv, AloneInv, NEW s \in Session, Crash(s)
  PROVE  AloneInv'
  <1>1. UNCHANGED <<clock, pages, backup, proposal, state, unrestored>> /\ End(s) /\ session[s].at # "idle"
    BY Present DEF Crash, TMInv, TypeInv
  <1>2. session'[s] = Idle
    BY <1>1 DEF End, Put, TMInv, TypeInv
  <1>3. \A c \in Change : Landed(c)' = Landed(c)
    BY <1>1 DEF Landed
  <1>4. /\ killed \subseteq killed'
        /\ Archives(session[s], {"commit", "proposal", "state"}) => session[s].c \in killed'
    BY DEF Crash, Archives
  <1>5. LandedInv'
    BY <1>1, <1>3, <1>4, AloneSession DEF LandedInv
  <1>6. ArchivedIsOnPages' /\ ProposalLeads'
    BY <1>1, AloneFrame DEF AloneInv
  <1> QED
    BY <1>2, <1>5, <1>6, AloneCriterion

LEMMA AloneStep ==
  ASSUME Alone, TMInv, AloneInv, [Next]_vars
  PROVE  AloneInv' /\ KeepsLogs /\ KeepsToEdges /\ ReplacesReviewed
  <1>1. ASSUME NEW s \in Session, Command(s)
        PROVE  AloneInv' /\ KeepsLogs /\ KeepsToEdges /\ ReplacesReviewed
    <2>1. ASSUME NEW c \in Change, BeginInit(s, c)
          PROVE  AloneInv' /\ state' = state /\ pages' = pages
      BY <2>1, AloneBegins DEF BeginInit
    <2>2. ASSUME NEW c \in Change, BeginReview(s, c) \/ BeginApprove(s, c) \/ BeginRun(s, c) \/ BeginReject(s, c)
          PROVE  AloneInv' /\ state' = state /\ pages' = pages
      <3>1. state' = state /\ pages' = pages
        BY <2>2 DEF BeginReview, BeginApprove, BeginRun, BeginReject, BeginMove
      <3> QED
        BY <2>2, <3>1, AloneBegins DEF BeginReview, BeginApprove, BeginRun, BeginReject
    <2>3. ASSUME NEW c \in Change, NEW f \in Drafts, BeginQuick(s, c, f)
          PROVE  AloneInv' /\ state' = state /\ pages' = pages
      BY <2>3, AloneBegins DEF BeginQuick
    <2>4. ASSUME NEW c \in Change, BeginArchive(s, c)
          PROVE  AloneInv' /\ state' = state /\ pages' = pages
      BY <2>4, AloneArchiveBegins DEF BeginArchive
    <2>5. ASSUME ContinueQuick(s)
          PROVE  AloneInv' /\ state' = state /\ pages' = pages
      <3>1. session[s].c \in Change
        BY <2>5, CommandType DEF ContinueQuick
      <3> QED
        BY <2>5, <3>1, AloneArchiveBegins DEF ContinueQuick
    <2>6. ASSUME WriteProposal(s) \/ Backup(s) \/ Scan(s) \/ SupersedeProposal(s) \/ RemoveBackups(s)
          PROVE  AloneInv' /\ state' = state /\ pages' = pages
      <3>1. state' = state /\ pages' = pages
        BY <2>6 DEF WriteProposal, Backup, Scan, SupersedeProposal, RemoveBackups
      <3> QED
        BY <2>6, <3>1, AloneWriteProposal, AloneBackup, AloneScan, AloneSupersedeProposal, AloneRemoveBackups
    <2>7. ASSUME WriteState(s) \/ RecordConflicts(s) \/ \E p \in Change : Supersede(s, p)
          PROVE  AloneInv' /\ KeepsLogs /\ KeepsToEdges /\ pages' = pages
      <3>1. pages' = pages
        BY <2>7 DEF WriteState, RecordConflicts, Supersede
      <3> QED
        BY <2>7, <3>1, AloneWriteState, AloneConflicts, AloneSupersede
    <2>8. ASSUME Commit(s) \/ CommitFails(s)
          PROVE  AloneInv' /\ ReplacesReviewed /\ state' = state
      <3>1. state' = state
        BY <2>8 DEF Commit, CommitFails
      <3> QED
        BY <2>8, <3>1, AloneCommit, AloneCommitFails
    <2> QED
      BY <1>1, <2>1, <2>2, <2>3, <2>4, <2>5, <2>6, <2>7, <2>8, KeepsFrame DEF Command
  <1>2. ASSUME NEW s \in Session, Crash(s)
        PROVE  AloneInv' /\ state' = state /\ pages' = pages
    BY <1>2, AloneCrash DEF Crash
  <1>3. ASSUME NEW c \in Change, NEW f \in Drafts, Edit(c, f)
        PROVE  AloneInv' /\ state' = state /\ pages' = pages
    BY <1>3, AloneEdit DEF Edit
  <1>4. ASSUME UNCHANGED vars
        PROVE  AloneInv' /\ state' = state /\ pages' = pages
    <2>1. UNCHANGED <<pages, backup, proposal, state, session, killed, unrestored>>
      BY <1>4 DEF vars
    <2>2. ArchivedIsOnPages' /\ ProposalLeads'
      BY <2>1, AloneFrame DEF AloneInv
    <2>3. LandedInv'
      BY <2>1 DEF AloneInv, LandedInv, Landed, Archives
    <2>4. ASSUME NEW s \in Session, session'[s] # Idle
          PROVE  (ContinuesState(session[s]) /\ ContinuesPages(session[s]) /\ ContinuesPeers(session[s]))'
      <3>1. PICK r : r = session[s]
        OBVIOUS
      <3>2. ContinuesState(r) /\ ContinuesPages(r) /\ ContinuesPeers(r)
        BY <2>1, <2>4, <3>1 DEF AloneInv
      <3>3. ContinuesState(r)'
        BY <2>1, <3>2 DEF ContinuesState, Archives
      <3>4. ContinuesPages(r)'
        BY <2>1, <3>2 DEF ContinuesPages, Archives, Landed
      <3>5. ContinuesPeers(r)'
        BY <2>1, <3>2 DEF ContinuesPeers, Archives, Peers, Listed
      <3> QED
        BY <2>1, <3>1, <3>3, <3>4, <3>5
    <2> QED
      BY <2>1, <2>2, <2>3, <2>4 DEF AloneInv
  <1> QED
    BY <1>1, <1>2, <1>3, <1>4, KeepsFrame DEF Next

LEMMA AloneInvariant ==
  ASSUME Alone
  PROVE  Spec => [](TMInv /\ AloneInv)
  <1>1. TMInv /\ AloneInv /\ [Next]_vars => (TMInv /\ AloneInv)'
    BY TypeStep, AloneStep
  <1> QED
    BY <1>1, TypeInit, AloneInit, PTL DEF Spec

-----------------------------------------------------------------------------
(* The theorems, for one command at a time, killed wherever it may be.     *)

(* A change that its ChangeState or its proposal.md records as archived is  *)
(* on its pages, whatever archive fails, is killed or restores later.       *)
THEOREM ArchivedStaysOnPages ==
  ASSUME Alone
  PROVE  Spec => []ArchivedIsOnPages
  <1>1. AloneInv => ArchivedIsOnPages
    BY DEF AloneInv
  <1> QED
    BY <1>1, AloneInvariant, PTL

(* An archive that is neither killed nor fails to restore a page from its   *)
(* backup commits every page of the change or none.                         *)
THEOREM CommitsAllOrNone ==
  ASSUME Alone
  PROVE  Spec => []AllOrNone
  <1>1. TMInv /\ AloneInv => AllOrNone
    <2> SUFFICES ASSUME TMInv, AloneInv, NEW c \in Change \ (killed \cup unrestored), ~Committing(c), Landed(c) # {}
                 PROVE  DOMAIN proposal[c].deltas \subseteq Landed(c)
      BY DEF AllOrNone, CommittedWhole
    <2>1. CASE state[c] # Absent /\ state[c].status = "archived"
      BY <2>1 DEF AloneInv, ArchivedIsOnPages
    <2>2. CASE \E s \in Session : session[s].c = c /\ Archives(session[s], {"commit", "proposal", "state"})
      <3>1. PICK s \in Session : session[s].c = c /\ Archives(session[s], {"commit", "proposal", "state"})
        BY <2>2
      <3>2. session[s] # Idle /\ Archives(session[s], {"proposal", "state"})
        BY <3>1, Present DEF Committing, Archives
      <3>3. session[s].deltas = proposal[c].deltas /\ DOMAIN session[s].deltas \subseteq Landed(c)
        BY <3>1, <3>2 DEF AloneInv, ContinuesState, ContinuesPages, Archives
      <3> QED
        BY <3>3
    <2> QED
      BY <2>1, <2>2 DEF AloneInv, LandedInv
  <1> QED
    BY <1>1, AloneInvariant, PTL

(* A transition that was recorded stays recorded, a revival included.       *)
THEOREM TransitionsAreKept ==
  ASSUME Alone
  PROVE  Spec => LogIsKept
  <1>1. TMInv /\ AloneInv /\ [Next]_vars =>
            [\A c \in Change : state[c] # Absent => IsPrefix(state[c].log, state'[c].log)]_vars
    BY AloneStep DEF KeepsLogs
  <1> QED
    BY <1>1, AloneInvariant, PTL DEF Spec, LogIsKept

(* A modification replaces the text that its author copied, and no other.   *)
THEOREM ReplacesOnlyReviewed ==
  ASSUME Alone
  PROVE  Spec => ReplacesWhatWasReviewed
  <1>1. TMInv /\ AloneInv /\ [Next]_vars =>
            [\A d \in Domain :
                Len(pages'[d].changes) > Len(pages[d].changes) =>
                    LET op == proposal[Last(pages'[d].changes)].deltas[d]
                    IN  op.kind = "modify" => pages[d].reqs[op.id] = op.before]_vars
    BY AloneStep DEF ReplacesReviewed
  <1> QED
    BY <1>1, AloneInvariant, PTL DEF Spec, ReplacesWhatWasReviewed

(* Every status follows the lifecycle graph, a step at a time.              *)
THEOREM ChangeKeepsToLifecycle ==
  ASSUME Alone
  PROVE  Spec => ImplementsLifecycle
  <1> DEFINE status == [c \in Change |-> IF state[c] = Absent THEN "none" ELSE state[c].status]
  <1>1. Init => Lifecycle!Init
    BY DEF Init, Lifecycle!Init
  <1>2. TMInv /\ AloneInv /\ [Next]_vars => [Lifecycle!Next]_status
    <2> SUFFICES ASSUME TMInv, AloneInv, [Next]_vars, status' # status
                 PROVE  Lifecycle!Next
      OBVIOUS
    <2>1. PICK c \in Change : /\ <<StatusOf(c), StatusOf(c)'>> \in Lifecycle!Edge
                              /\ \A d \in Change \ {c} : StatusOf(d)' = StatusOf(d)
      BY AloneStep DEF KeepsToEdges, StatusOf
    <2>2. status' = [status EXCEPT ![c] = StatusOf(c)']
      BY <2>1 DEF StatusOf
    <2>3. status[c] = StatusOf(c) /\ StatusOf(c)' \in {e[2] : e \in Lifecycle!Edge}
      BY <2>1 DEF StatusOf
    <2> QED
      BY <2>1, <2>2, <2>3 DEF Lifecycle!Next, Lifecycle!Move
  <1> QED
    BY <1>1, <1>2, AloneInvariant, PTL DEF Spec, ImplementsLifecycle, Lifecycle!Spec

(* Where that graph and the documented table (change-proposal.schema.md,    *)
(* "Status Lifecycle") differ, completely: the commands also revive what    *)
(* was rejected, enter a quick change at in-progress, and supersede changes *)
(* that are open, never an archived one.                                    *)
THEOREM EdgesAgainstTable ==
  /\ Lifecycle!Edge \ Lifecycle!Documented =
         Lifecycle!ReviveEdge \cup Lifecycle!QuickEdge \cup Lifecycle!SupersedeEdge
  /\ Lifecycle!Documented \ Lifecycle!Edge = {<<"archived", "superseded">>}
  <1>1. \A e \in Lifecycle!Edge : e[1] # "archived"
    BY DEF Lifecycle!Edge, Lifecycle!InFlight, Lifecycle!InitEdge, Lifecycle!ReviewEdge, Lifecycle!ApproveEdge,
           Lifecycle!RunEdge, Lifecycle!RejectEdge, Lifecycle!ReviveEdge, Lifecycle!ArchiveEdge,
           Lifecycle!QuickEdge, Lifecycle!SupersedeEdge
  <1>2. Lifecycle!Documented \ {<<"archived", "superseded">>} =
            Lifecycle!InitEdge \cup Lifecycle!ReviewEdge \cup Lifecycle!ApproveEdge
            \cup Lifecycle!RunEdge \cup Lifecycle!RejectEdge \cup Lifecycle!ArchiveEdge
    BY DEF Lifecycle!Documented, Lifecycle!InitEdge, Lifecycle!ReviewEdge, Lifecycle!ApproveEdge,
           Lifecycle!RunEdge, Lifecycle!RejectEdge, Lifecycle!ArchiveEdge
  <1>3. \A e \in Lifecycle!ReviveEdge \cup Lifecycle!QuickEdge \cup Lifecycle!SupersedeEdge :
            e \notin Lifecycle!Documented
    BY DEF Lifecycle!Documented, Lifecycle!InFlight, Lifecycle!ReviveEdge, Lifecycle!QuickEdge, Lifecycle!SupersedeEdge
  <1>4. <<"archived", "superseded">> \in Lifecycle!Documented
    BY DEF Lifecycle!Documented
  <1>5. <<"archived", "superseded">> \notin Lifecycle!Edge
    BY <1>1
  <1> QED
    BY <1>2, <1>3, <1>4, <1>5 DEF Lifecycle!Edge
=============================================================================
