------------------------------ MODULE WikiLedger ------------------------------
(***************************************************************************)
(* The freshness ledger of the wiki (hooks/wiki-commit-ledger.ts): after a *)
(* Bash call that commits, the hook looks up which pages reference the     *)
(* files of HEAD and appends one row, "debt" or "n/a".  The lookup goes    *)
(* through a cache keyed by the modification time of index.toon.           *)
(*                                                                         *)
(* The hook reads HEAD, then HEAD's files, then the index's time, then the *)
(* cache or the pages, and last the ledger, which it replaces; nothing is  *)
(* locked, and a session commits while the hook of another one runs.  What *)
(* cannot be read is passed over: a page is left out of the map, which is  *)
(* cached all the same, and the ledger is taken to end, or to be empty,    *)
(* where it cannot be read.                                                *)
(*                                                                         *)
(* External: git, and the wiki agents, which write pages and then the      *)
(* index, and mark rows fresh.  Commits are numbered; the files of one are *)
(* some of File's.  A row keeps its commit, its pages and its status.      *)
(***************************************************************************)
EXTENDS Integers, Sequences, FiniteSets

CONSTANTS
    Coder,           \* sessions that commit
    WikiPage, Source, \* pages, and files they may reference
    LedgerCap,       \* rows the ledger keeps, 500 in the code
    MaxCommits,      \* bound on commits
    MaxWikiWrites    \* bound on what is written to the wiki

ASSUME LedgerAssumption ==
    /\ LedgerCap \in Nat \ {0} /\ MaxCommits \in Nat /\ MaxWikiWrites \in Nat

VARIABLES
    refs,        \* the sources each page references
    standing,    \* history: what each page references since the index was last written
    indexTime,   \* modification time of index.toon
    pageCache,   \* the cache file: its key and its map
    missed,      \* history: the pages that could not be read when it was built
    commitLog,   \* the sources of each commit; HEAD is the last
    ledger,
    hook,        \* the hook that runs for each session
    wikiWrites,
    owed,        \* history: commits whose hook wrote a row, or found one, but
                 \* for those of rows that a hook did not read and replaced
    hooksRaced   \* history: a hook ran while another session committed, ran, or reconciled

wikiVars == <<refs, standing, indexTime, pageCache, missed, commitLog, ledger, hook, wikiWrites, owed, hooksRaced>>

NoCache == [time |-> -1, map |-> [p \in WikiPage |-> {}]]
HookAt(pc, commit, sources, time, pages, read, steady) ==
    [pc |-> pc, commit |-> commit, sources |-> sources, time |-> time, pages |-> pages, read |-> read, steady |-> steady]
NoHook == HookAt("idle", 0, {}, 0, {}, <<>>, {})
Row(c, pages, status) == [commit |-> c, pages |-> pages, status |-> status]
Rows == [commit : 1..MaxCommits, pages : SUBSET WikiPage, status : {"n/a", "debt", "fresh"}]
Referencing(map, sources) == {p \in WikiPage : map[p] \cap sources # {}}

WikiTypeOK ==
    /\ refs \in [WikiPage -> SUBSET Source] /\ standing \in [WikiPage -> SUBSET Source]
    /\ indexTime \in 0..MaxWikiWrites /\ wikiWrites \in 0..MaxWikiWrites
    /\ pageCache \in [time : -1..MaxWikiWrites, map : [WikiPage -> SUBSET Source]] /\ missed \subseteq WikiPage
    /\ Len(commitLog) <= MaxCommits /\ \A i \in DOMAIN commitLog : commitLog[i] \subseteq Source
    /\ Len(ledger) <= LedgerCap /\ \A i \in DOMAIN ledger : ledger[i] \in Rows
    /\ \A s \in Coder :
          /\ hook[s].pc \in {"idle", "head", "files", "stat", "map", "read", "write"}
          /\ hook[s].commit \in 0..MaxCommits /\ hook[s].sources \subseteq Source
          /\ hook[s].time \in 0..MaxWikiWrites /\ hook[s].pages \subseteq WikiPage
          /\ hook[s].steady \subseteq WikiPage
          /\ Len(hook[s].read) <= LedgerCap /\ \A i \in DOMAIN hook[s].read : hook[s].read[i] \in Rows
    /\ owed \subseteq 1..MaxCommits /\ hooksRaced \in BOOLEAN

WikiInit ==
    /\ refs \in [WikiPage -> SUBSET Source]
    /\ standing = refs /\ indexTime = 0
    /\ pageCache = NoCache /\ missed = {}
    /\ commitLog = <<>> /\ ledger = <<>>
    /\ hook = [s \in Coder |-> NoHook]
    /\ wikiWrites = 0 /\ owed = {}
    /\ hooksRaced = FALSE

Running(s) == \E t \in Coder \ {s} : hook[t].pc # "idle"

-----------------------------------------------------------------------------
(* A Bash call that makes one commit, or two; the hook follows. *)
CommitMade(s) ==
    /\ hook[s].pc = "idle"
    /\ \E n \in 1..2, sources \in SUBSET Source :
          /\ Len(commitLog) + n <= MaxCommits
          /\ commitLog' = commitLog \o [i \in 1..n |-> sources]
    /\ hook' = [hook EXCEPT ![s] = HookAt("head", 0, {}, 0, {}, <<>>, {})]
    /\ hooksRaced' = (hooksRaced \/ Running(s))
    /\ UNCHANGED <<refs, standing, indexTime, pageCache, missed, ledger, wikiWrites, owed>>

(* git rev-parse HEAD *)
HookHead(s) ==
    /\ hook[s].pc = "head"
    /\ hook' = [hook EXCEPT ![s] = HookAt("files", Len(commitLog), {}, 0, {}, <<>>, {})]
    /\ UNCHANGED <<refs, standing, indexTime, pageCache, missed, commitLog, ledger, wikiWrites, owed, hooksRaced>>

(* git diff-tree HEAD, which may be another one by now *)
HookFiles(s) ==
    /\ hook[s].pc = "files"
    /\ hook' = [hook EXCEPT ![s] = HookAt("stat", @.commit, commitLog[Len(commitLog)], 0, {}, <<>>, {})]
    /\ UNCHANGED <<refs, standing, indexTime, pageCache, missed, commitLog, ledger, wikiWrites, owed, hooksRaced>>

HookStat(s) ==
    /\ hook[s].pc = "stat"
    /\ hook' = [hook EXCEPT ![s] =
                   HookAt("map", @.commit, @.sources, indexTime, {}, <<>>, Referencing(standing, @.sources))]
    /\ UNCHANGED <<refs, standing, indexTime, pageCache, missed, commitLog, ledger, wikiWrites, owed, hooksRaced>>

(* buildFileToPagesMap: the pages that can be read. *)
Built(unread) == [p \in WikiPage |-> IF p \in unread THEN {} ELSE refs[p]]

(* Mutant: the cache is used whatever its key. *)
HookMapAnyCache(s) ==
    /\ hook[s].pc = "map"
    /\ \E unread \in SUBSET WikiPage :
          LET hit == pageCache # NoCache
              map == IF hit THEN pageCache.map ELSE Built(unread)
          IN  /\ pageCache' = IF hit THEN pageCache ELSE [time |-> hook[s].time, map |-> map]
              /\ missed' = IF hit THEN missed ELSE unread
              /\ hook' = [hook EXCEPT ![s] = HookAt("read", @.commit, {}, 0, Referencing(map, @.sources), <<>>,
                                                   @.steady \ (IF hit THEN missed ELSE unread))]
    /\ UNCHANGED <<refs, standing, indexTime, commitLog, ledger, wikiWrites, owed, hooksRaced>>

(* The cache, if it can be read and its key is the time seen; else the pages, *)
(* cached under it if that can be written.                                    *)
HookMap(s) ==
    /\ hook[s].pc = "map"
    /\ \E hit \in {FALSE, pageCache.time = hook[s].time}, unread \in SUBSET WikiPage :
          LET map == IF hit THEN pageCache.map ELSE Built(unread)
          IN  /\ pageCache' \in {pageCache} \cup (IF hit THEN {} ELSE {[time |-> hook[s].time, map |-> map]})
              /\ missed' = IF pageCache' = pageCache THEN missed ELSE unread
              /\ hook' = [hook EXCEPT ![s] = HookAt("read", @.commit, {}, 0, Referencing(map, @.sources), <<>>,
                                                   @.steady \ (IF hit THEN missed ELSE unread))]
    /\ UNCHANGED <<refs, standing, indexTime, commitLog, ledger, wikiWrites, owed, hooksRaced>>

(* readLedger: all rows, those before a line it cannot read, or none.  A commit *)
(* that has its row among them gets no second one.                              *)
HookRead(s) ==
    /\ hook[s].pc = "read"
    /\ \E n \in 0..Len(ledger) :
          LET seen == SubSeq(ledger, 1, n)
              hasRow == \E i \in DOMAIN seen : seen[i].commit = hook[s].commit
          IN  /\ hook' = [hook EXCEPT ![s] = IF hasRow THEN NoHook
                           ELSE HookAt("write", @.commit, {}, 0, @.pages, seen, @.steady)]
              /\ owed' = IF hasRow THEN owed \cup {hook[s].commit} ELSE owed
    /\ UNCHANGED <<refs, standing, indexTime, pageCache, missed, commitLog, ledger, wikiWrites, hooksRaced>>

(* Mutant: the oldest rows go one append too late. *)
CappedLate(rows) == IF Len(rows) > LedgerCap + 1 THEN SubSeq(rows, Len(rows) - LedgerCap + 1, Len(rows)) ELSE rows

Capped(rows) == IF Len(rows) > LedgerCap THEN SubSeq(rows, Len(rows) - LedgerCap + 1, Len(rows)) ELSE rows

HookWrite(s) ==
    LET h == hook[s]
    IN  /\ h.pc = "write"
        /\ ledger' = Capped(Append(h.read, Row(h.commit, h.pages, IF h.pages = {} THEN "n/a" ELSE "debt")))
        /\ owed' = {h.commit} \cup IF h.read = ledger THEN owed ELSE {h.read[i].commit : i \in DOMAIN h.read}
        /\ hook' = [hook EXCEPT ![s] = NoHook]
        /\ UNCHANGED <<refs, standing, indexTime, pageCache, missed, commitLog, wikiWrites, hooksRaced>>

(* Killed by its timeout, or any error: the commit is allowed and no row written. *)
HookFailsOpen(s) ==
    /\ hook[s].pc # "idle"
    /\ hook' = [hook EXCEPT ![s] = NoHook]
    /\ UNCHANGED <<refs, standing, indexTime, pageCache, missed, commitLog, ledger, wikiWrites, owed, hooksRaced>>

-----------------------------------------------------------------------------
WikiWrite == wikiWrites < MaxWikiWrites /\ wikiWrites' = wikiWrites + 1

(* A wiki agent writes a page, with the index to follow; someone else may not *)
(* care for the index, which is then as old as it was.                        *)
PageWritten ==
    /\ WikiWrite
    /\ \E p \in WikiPage, sources \in SUBSET Source :
          /\ sources # refs[p]
          /\ refs' = [refs EXCEPT ![p] = sources]
          /\ standing' = [standing EXCEPT ![p] = @ \cap sources]
          /\ hook' = [s \in Coder |->
                         IF sources \cap hook[s].sources = {}
                         THEN [hook[s] EXCEPT !.steady = hook[s].steady \ {p}] ELSE hook[s]]
    /\ UNCHANGED <<indexTime, pageCache, missed, commitLog, ledger, owed, hooksRaced>>

IndexWritten ==
    /\ WikiWrite
    /\ indexTime' = indexTime + 1
    /\ standing' = refs
    /\ UNCHANGED <<refs, pageCache, missed, commitLog, ledger, hook, owed, hooksRaced>>

(* An agent that wrote pages marks the rows that name them. *)
Reconciled ==
    /\ WikiWrite
    /\ \E p \in WikiPage :
          ledger' = [i \in DOMAIN ledger |->
                        IF ledger[i].status = "debt" /\ p \in ledger[i].pages THEN [ledger[i] EXCEPT !.status = "fresh"] ELSE ledger[i]]
    /\ hooksRaced' = (hooksRaced \/ \E s \in Coder : hook[s].pc # "idle")
    /\ UNCHANGED <<refs, standing, indexTime, pageCache, missed, commitLog, hook, owed>>

WikiNext ==
    \/ \E s \in Coder :
          \/ CommitMade(s) \/ HookHead(s) \/ HookFiles(s) \/ HookStat(s)
          \/ HookMap(s) \/ HookRead(s) \/ HookWrite(s) \/ HookFailsOpen(s)
    \/ PageWritten \/ IndexWritten \/ Reconciled

WikiSpec == WikiInit /\ [][WikiNext]_wikiVars

-----------------------------------------------------------------------------
(* The ledger does not forget an impact.  However hooks, page and index       *)
(* writes interleave, and whatever was cached under which time, the pages a   *)
(* hook finds include each one that has referenced the commit's files ever    *)
(* since the index was last written, unless the page could not be read when   *)
(* the map was built: a cache older than that is not used, and one built      *)
(* while the index changes is not taken for the new one's.  And as long as    *)
(* hooks do not overlap the rows are in the order of commits, one each, and   *)
(* every commit dealt with since rows were last replaced unread has its row,  *)
(* unless so many newer ones pushed it out.                                   *)
(* (hooks/wiki-commit-ledger.ts:5-6)                                          *)
LedgerIsHonest ==
    /\ \A s \in Coder : hook[s].pc \in {"read", "write"} => hook[s].steady \subseteq hook[s].pages
    /\ ~hooksRaced =>
          /\ \A i, j \in DOMAIN ledger : i < j => ledger[i].commit < ledger[j].commit
          /\ \A c \in owed : (\E i \in DOMAIN ledger : ledger[i].commit = c)
                             \/ Cardinality({d \in owed : d > c}) >= LedgerCap

(* Does not hold: a cache of the present index says what the pages would, as  *)
(* far as they have not changed since the index was written.                  *)
(* (hooks/wiki-commit-ledger.ts:39-44)                                        *)
CacheStandsForPages == pageCache.time = indexTime => \A p \in WikiPage : standing[p] \subseteq pageCache.map[p]

(* Does not hold: while hooks do not overlap, a row goes only when the ledger *)
(* is full.  (hooks/wiki-commit-ledger.ts:5-6, 373-374)                       *)
OnlyTheOldestGo ==
    [][ ~hooksRaced' /\ Len(ledger') < LedgerCap =>
          \A i \in DOMAIN ledger : \E j \in DOMAIN ledger' : ledger'[j].commit = ledger[i].commit ]_wikiVars
=============================================================================
