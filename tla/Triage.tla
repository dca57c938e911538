-------------------------------- MODULE Triage --------------------------------
(***************************************************************************)
(* Inbox entries: the transitions of scripts/triage/state-machine.ts, as   *)
(* /loom-note makes them, and the sweep of scripts/triage/30day-sweep.ts,  *)
(* which times out entries that wait for information.  The sweep takes its *)
(* time once, reads an entry and then replaces its file.  What it reads of *)
(* a reason ends at the first comma.                                       *)
(*                                                                         *)
(* External: who calls /loom-note; one of its transitions is one step.  Who *)
(* acted is left out.                                                      *)
(***************************************************************************)
EXTENDS Naturals, Sequences

CONSTANTS
    Entry,      \* inbox entries
    Thirty,     \* days until a timeout
    LastDay,    \* bound on time
    MaxMoves    \* bound on transitions by people and agents

ASSUME TriageAssumption == Thirty \in Nat \ {0} /\ LastDay \in Nat /\ MaxMoves \in Nat

VARIABLES
    inbox,      \* created, state, updated and transitions of each entry
    date,
    sweep,      \* the sweep: its time, entries to go, and the one it has read
    moves,
    made,       \* history: transitions accepted for each entry
    sweepRaced  \* history: the sweep replaced an entry that was no longer what it read

triageVars == <<inbox, date, sweep, moves, made, sweepRaced>>

TriageState == {"needs-triage", "needs-info", "ready-for-agent", "ready-for-human", "wontfix"}
Reason == {"none", "plain", "with, comma", "with"}
LogRow == [from : TriageState, to : TriageState, at : 0..LastDay, reason : Reason \cup {"timeout-30d"}]
NoSweep == [on |-> FALSE, now |-> 0, left |-> {}, read |-> <<>>]

TriageTypeOK ==
    /\ \A e \in Entry :
          /\ inbox[e].state \in TriageState
          /\ inbox[e].created \in 0..LastDay /\ inbox[e].updated \in 0..LastDay
          /\ \A i \in DOMAIN inbox[e].log : inbox[e].log[i] \in LogRow
    /\ date \in 0..LastDay /\ moves \in 0..MaxMoves
    /\ sweep.on \in BOOLEAN /\ sweep.now \in 0..LastDay /\ sweep.left \subseteq Entry /\ Len(sweep.read) \in 0..1
    /\ made \in [Entry -> 0..(MaxMoves + LastDay)]
    /\ sweepRaced \in BOOLEAN

TriageInit ==
    /\ inbox = [e \in Entry |-> [created |-> 0, state |-> "needs-triage", updated |-> 0, log |-> <<>>]]
    /\ date = 0 /\ moves = 0 /\ sweep = NoSweep
    /\ made = [e \in Entry |-> 0] /\ sweepRaced = FALSE

-----------------------------------------------------------------------------
ValidTransitions ==
    ({"needs-triage"} \X {"needs-info", "ready-for-agent", "ready-for-human", "wontfix"})
    \cup ({"needs-info"} \X {"needs-triage", "wontfix"})
    \cup {<<"ready-for-agent", "ready-for-human">>, <<"ready-for-human", "ready-for-agent">>, <<"wontfix", "needs-triage">>}

ReasonRequired == {<<"needs-triage", "wontfix">>, <<"needs-info", "wontfix">>, <<"wontfix", "needs-triage">>}

(* The three refusals of transition(). *)
Accepted(from, to, reason, reopen) ==
    /\ from = "wontfix" => reopen
    /\ <<from, to>> \in ValidTransitions
    /\ <<from, to>> \in ReasonRequired => reason # "none"

Moved(entry, to, at, reason) ==
    [created |-> entry.created, state |-> to, updated |-> at,
     log |-> Append(entry.log, [from |-> entry.state, to |-> to, at |-> at, reason |-> reason])]

Move(e) ==
    /\ moves < MaxMoves /\ moves' = moves + 1
    /\ \E to \in TriageState, reason \in Reason \ {"with"}, reopen \in BOOLEAN :
          /\ Accepted(inbox[e].state, to, reason, reopen)
          /\ inbox' = [inbox EXCEPT ![e] = Moved(inbox[e], to, date, reason)]
    /\ made' = [made EXCEPT ![e] = @ + 1]
    /\ UNCHANGED <<date, sweep, sweepRaced>>

SweepBegins ==
    /\ ~sweep.on
    /\ sweep' = [on |-> TRUE, now |-> date, left |-> Entry, read |-> <<>>]
    /\ UNCHANGED <<inbox, date, moves, made, sweepRaced>>

(* Mutant: the age of an entry is counted from its creation. *)
DueSinceCreation(entry, now) == entry.state = "needs-info" /\ entry.created + Thirty <= now

Due(entry, now) == entry.state = "needs-info" /\ entry.updated + Thirty <= now

(* An entry is read; it waits for its write if it is due. *)
SweepReads ==
    /\ sweep.on /\ sweep.read = <<>>
    /\ \E e \in sweep.left :
          sweep' = [on |-> TRUE, now |-> sweep.now, left |-> sweep.left \ {e},
                    read |-> IF Due(inbox[e], sweep.now) THEN <<[of |-> e, entry |-> inbox[e]]>> ELSE <<>>]
    /\ UNCHANGED <<inbox, date, moves, made, sweepRaced>>

(* parseTransitions splits at every comma. *)
Reparsed(log) == [i \in DOMAIN log |-> IF log[i].reason = "with, comma" THEN [log[i] EXCEPT !.reason = "with"] ELSE log[i]]

SweepWrites ==
    LET e == sweep.read[1].of
        was == sweep.read[1].entry
    IN  /\ sweep.read # <<>>
        /\ Accepted(was.state, "wontfix", "timeout-30d", FALSE)
        /\ inbox' = [inbox EXCEPT ![e] = Moved([was EXCEPT !.log = Reparsed(was.log)], "wontfix", sweep.now, "timeout-30d")]
        /\ made' = [made EXCEPT ![e] = @ + 1]
        /\ sweepRaced' = (sweepRaced \/ inbox[e] # was)
        /\ sweep' = [sweep EXCEPT !.read = <<>>]
        /\ UNCHANGED <<date, moves>>

(* The sweep is through, or is killed. *)
SweepEnds ==
    /\ sweep.on
    /\ sweep' = NoSweep
    /\ UNCHANGED <<inbox, date, moves, made, sweepRaced>>

Tomorrow ==
    /\ date < LastDay /\ date' = date + 1
    /\ UNCHANGED <<inbox, sweep, moves, made, sweepRaced>>

TriageNext ==
    \/ \E e \in Entry : Move(e)
    \/ SweepBegins \/ SweepReads \/ SweepWrites \/ SweepEnds
    \/ Tomorrow

TriageSpec == TriageInit /\ [][TriageNext]_triageVars

-----------------------------------------------------------------------------
(* The transitions of an entry are its history, also when a sweep overwrites  *)
(* it: every one of them is in the table of valid transitions, they lead from *)
(* needs-triage to its state, in the order of time, the last of them at the   *)
(* date it carries, and into and out of wontfix only with a reason; an entry  *)
(* the sweep timed out had been left alone in needs-info for thirty days by   *)
(* then.  And none is lost, unless someone moved an entry between a sweep's   *)
(* read and write.  (commands/loom-note.md:118-130)                           *)
TransitionsAreHistory ==
    \A e \in Entry :
        LET log == inbox[e].log
            n == Len(log)
        IN  /\ inbox[e].state = IF n = 0 THEN "needs-triage" ELSE log[n].to
            /\ n > 0 => log[n].at = inbox[e].updated
            /\ \A i \in 1..n :
                  /\ <<log[i].from, log[i].to>> \in ValidTransitions
                  /\ log[i].from = IF i = 1 THEN "needs-triage" ELSE log[i - 1].to
                  /\ i > 1 => log[i - 1].at <= log[i].at
                  /\ "wontfix" \in {log[i].from, log[i].to} => log[i].reason # "none"
                  /\ log[i].reason = "timeout-30d" =>
                        i > 1 /\ log[i - 1].to = "needs-info" /\ log[i].at - log[i - 1].at >= Thirty
            /\ ~sweepRaced => n = made[e]
=============================================================================
