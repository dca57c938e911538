------------------------------ MODULE HookProofs ------------------------------
(***************************************************************************)
(* Theorems about the hooks of a session: the wiki commit ledger           *)
(* (WikiLedger), and the migration of hook commands with its evidence log  *)
(* (HookSettings), for any sessions, hooks, pages and commits.             *)
(***************************************************************************)
EXTENDS WikiLedger, HookSettings, FunctionTheorems, FiniteSetTheorems, SequenceTheorems, TLAPS

-----------------------------------------------------------------------------
(***************************************************************************)
(* The wiki commit ledger                                                  *)
(***************************************************************************)

HookRun ==
    [pc : {"idle", "head", "files", "stat", "map", "read", "write"}, commit : 0..MaxCommits, sources : SUBSET Source,
     time : 0..MaxWikiWrites, pages : SUBSET WikiPage, read : Seq(Rows), steady : SUBSET WikiPage]

WikiTypes ==
    /\ refs \in [WikiPage -> SUBSET Source] /\ standing \in [WikiPage -> SUBSET Source]
    /\ indexTime \in 0..MaxWikiWrites /\ wikiWrites \in 0..MaxWikiWrites /\ indexTime <= wikiWrites
    /\ pageCache \in [time : -1..MaxWikiWrites, map : [WikiPage -> SUBSET Source]] /\ missed \subseteq WikiPage
    /\ commitLog \in Seq(SUBSET Source) /\ Len(commitLog) <= MaxCommits
    /\ ledger \in Seq(Rows) /\ Len(ledger) <= LedgerCap
    /\ hook \in [Coder -> HookRun]
    /\ owed \subseteq 1..MaxCommits /\ hooksRaced \in BOOLEAN

(* What stood since the index was written is in the pages, and in a cache of *)
(* that time but for the pages it missed.                                    *)
CacheInv ==
    /\ \A p \in WikiPage : standing[p] \subseteq refs[p]
    /\ pageCache.time <= indexTime
    /\ pageCache.time = indexTime => \A p \in WikiPage \ missed : standing[p] \subseteq pageCache.map[p]

(* What a hook found: its commit, and pages that will be found again in the  *)
(* pages or in a cache of its time.                                          *)
FoundSteady(h) ==
    \A p \in h.steady : /\ refs[p] \cap h.sources # {}
                        /\ pageCache.time = h.time /\ p \notin missed => pageCache.map[p] \cap h.sources # {}
HookOK(h) ==
    /\ h.pc # "idle" => Len(commitLog) > 0
    /\ h.pc \notin {"idle", "head"} => h.commit \in 1..Len(commitLog)
    /\ h.time <= indexTime
    /\ h.pc = "map" => FoundSteady(h)
    /\ h.pc \in {"read", "write"} => h.steady \subseteq h.pages
    /\ Len(h.read) <= LedgerCap

(* What a hook read is where the ledger begins. *)
ReadBefore(read) ==
    Len(read) <= Len(ledger) /\ \A i \in 1..Len(read) : read[i] = ledger[i]

(* A hook that has the commits to itself. *)
HookAlone(h) ==
    /\ h.pc # "idle" => \A c \in owed : c < Len(commitLog)
    /\ h.pc \notin {"idle", "head"} => h.commit = Len(commitLog)
    /\ h.pc = "write" => ReadBefore(h.read)

HasRow(c) == \E i \in 1..Len(ledger) : ledger[i].commit = c
PushedOut(c) == Cardinality({d \in owed : d > c}) >= LedgerCap
Ordered ==
    /\ \A i, j \in 1..Len(ledger) : i < j => ledger[i].commit < ledger[j].commit
    /\ \A i \in 1..Len(ledger) : ledger[i].commit \in owed
    /\ \A c \in owed : c <= Len(commitLog)
    /\ \A c \in owed : HasRow(c) \/ PushedOut(c)

WikiInv ==
    /\ WikiTypes /\ CacheInv
    /\ \A s \in Coder : HookOK(hook[s])
    /\ ~hooksRaced =>
          /\ \A s, t \in Coder : hook[s].pc # "idle" /\ hook[t].pc # "idle" => s = t
          /\ \A s \in Coder : HookAlone(hook[s])
          /\ Ordered

LEMMA NoHookFacts ==
  ASSUME WikiTypes
  PROVE  /\ NoHook \in HookRun /\ NoHook.pc = "idle" /\ HookOK(NoHook) /\ HookAlone(NoHook)
         /\ NoHook.time = 0 /\ NoHook.read = <<>> /\ NoHook.steady = {}
  <1>1. NoHook = HookAt("idle", 0, {}, 0, {}, <<>>, {})
    BY DEF NoHook
  <1>2. 0 \in 0..MaxCommits /\ 0 \in 0..MaxWikiWrites /\ <<>> \in Seq(Rows) /\ Len(<<>>) = 0
    BY LedgerAssumption
  <1>3. /\ NoHook \in HookRun /\ NoHook.pc = "idle" /\ NoHook.time = 0 /\ NoHook.read = <<>> /\ NoHook.steady = {}
    BY <1>1, <1>2, LedgerAssumption DEF HookAt, HookRun
  <1>4. 0 <= indexTime /\ 0 <= LedgerCap
    BY LedgerAssumption DEF WikiTypes
  <1> QED
    BY <1>2, <1>3, <1>4 DEF HookOK, HookAlone

LEMMA WikiStarts == WikiInit => WikiInv
  <1> SUFFICES ASSUME WikiInit
               PROVE  WikiInv
    OBVIOUS
  <1>1. 0 \in 0..MaxWikiWrites /\ -1 \in -1..MaxWikiWrites /\ 0 <= MaxCommits /\ 0 <= LedgerCap /\ 0 <= 0 /\ -1 <= 0 /\ -1 # 0
    BY LedgerAssumption
  <1>2. /\ pageCache \in [time : -1..MaxWikiWrites, map : [WikiPage -> SUBSET Source]] /\ pageCache.time = -1
    BY <1>1 DEF WikiInit, NoCache
  <1>3. commitLog \in Seq(SUBSET Source) /\ ledger \in Seq(Rows) /\ Len(commitLog) = 0 /\ Len(ledger) = 0
    BY DEF WikiInit
  <1>4. indexTime = 0 /\ wikiWrites = 0 /\ owed = {} /\ hooksRaced = FALSE /\ standing = refs /\ missed = {}
    BY DEF WikiInit
  <1>5. hook = [s \in Coder |-> NoHook] /\ refs \in [WikiPage -> SUBSET Source]
    BY DEF WikiInit
  <1>6. NoHook \in HookRun
    <2>1. 0 \in 0..MaxCommits /\ <<>> \in Seq(Rows)
      BY LedgerAssumption
    <2> QED
      BY <1>1, <2>1 DEF NoHook, HookAt, HookRun
  <1>7. hook \in [Coder -> HookRun] /\ \A s \in Coder : hook[s] = NoHook
    BY <1>5, <1>6
  <1>8. WikiTypes
    <2>1. indexTime \in 0..MaxWikiWrites /\ wikiWrites \in 0..MaxWikiWrites /\ indexTime <= wikiWrites
      BY <1>1, <1>4, Zenon
    <2>2. hooksRaced \in BOOLEAN /\ owed \subseteq 1..MaxCommits
      BY <1>4
    <2> QED
      BY <1>1, <1>2, <1>3, <1>4, <1>5, <1>7, <2>1, <2>2 DEF WikiTypes
  <1>9. CacheInv
    BY <1>1, <1>2, <1>4 DEF CacheInv
  <1>10. \A s \in Coder : HookOK(hook[s]) /\ HookAlone(hook[s]) /\ hook[s].pc = "idle"
    BY <1>7, <1>8, NoHookFacts
  <1>11. Ordered
    BY <1>3, <1>4 DEF Ordered
  <1> QED
    BY <1>8, <1>9, <1>10, <1>11 DEF WikiInv

(* A step that caches the pages under a time, but for those it missed. *)
CacheBuilt(time) ==
    /\ pageCache'.time = time /\ pageCache'.map \in [WikiPage -> SUBSET Source]
    /\ pageCache' = [time |-> pageCache'.time, map |-> pageCache'.map] /\ missed' \subseteq WikiPage
    /\ \A p \in WikiPage \ missed' : pageCache'.map[p] = refs[p]

(* A step of one hook that changes at most the cache, its row and its debt. *)
LEMMA WikiHookStep ==
  ASSUME WikiInv, NEW s \in Coder, hook[s].pc # "idle", NEW n \in HookRun, hook' = [hook EXCEPT ![s] = n],
         UNCHANGED <<refs, standing, indexTime, commitLog, wikiWrites, hooksRaced>>,
         UNCHANGED <<pageCache, missed>> \/ CacheBuilt(hook[s].time),
         ledger' \in Seq(Rows), Len(ledger') <= LedgerCap, owed' \subseteq 1..MaxCommits,
         HookOK(n)', ~hooksRaced => Ordered' /\ HookAlone(n)'
  PROVE  WikiInv'
  <1>1. hook' \in [Coder -> HookRun] /\ hook'[s] = n /\ \A t \in Coder \ {s} : hook'[t] = hook[t]
    BY DEF WikiInv, WikiTypes
  <1>2. hook[s] \in HookRun /\ hook[s].time \in 0..MaxWikiWrites /\ hook[s].time <= indexTime /\ indexTime \in Nat
        /\ refs \in [WikiPage -> SUBSET Source] /\ pageCache \in [time : -1..MaxWikiWrites, map : [WikiPage -> SUBSET Source]]
    <2>1. hook[s] \in HookRun /\ HookOK(hook[s]) /\ indexTime \in 0..MaxWikiWrites /\ MaxWikiWrites \in Nat
      BY LedgerAssumption DEF WikiInv, WikiTypes
    <2>2. refs \in [WikiPage -> SUBSET Source] /\ pageCache \in [time : -1..MaxWikiWrites, map : [WikiPage -> SUBSET Source]]
      BY DEF WikiInv, WikiTypes
    <2> QED
      BY <2>1, <2>2 DEF HookRun, HookOK
  <1>3. /\ pageCache' \in [time : -1..MaxWikiWrites, map : [WikiPage -> SUBSET Source]]
        /\ missed' \subseteq WikiPage
        /\ \/ pageCache' = pageCache /\ missed' = missed
           \/ pageCache'.time = hook[s].time /\ \A p \in WikiPage \ missed' : pageCache'.map[p] = refs[p]
    <2>1. hook[s].time \in -1..MaxWikiWrites /\ missed \subseteq WikiPage
      BY <1>2, LedgerAssumption DEF WikiInv, WikiTypes
    <2> QED
      BY <1>2, <2>1 DEF CacheBuilt
  <1>4. WikiTypes'
    BY <1>1, <1>3 DEF WikiInv, WikiTypes
  <1>5. CacheInv'
    <2>1. CacheInv
      BY DEF WikiInv
    <2> QED
      BY <1>2, <1>3, <2>1 DEF CacheInv
  <1>6. ASSUME NEW t \in Coder
        PROVE  HookOK(hook[t])'
    <2>1. CASE t = s
      BY <1>1, <2>1 DEF HookOK, FoundSteady
    <2>2. CASE t # s
      <3>1. HookOK(hook[t]) /\ hook'[t] = hook[t] /\ hook[t].steady \subseteq WikiPage
        BY <1>1, <2>2 DEF WikiInv, WikiTypes, HookRun
      <3>2. hook[t].pc = "map" => FoundSteady(hook[t])'
        BY <1>3, <3>1 DEF HookOK, FoundSteady
      <3> QED
        BY <3>1, <3>2 DEF HookOK, FoundSteady
    <2> QED
      BY <2>1, <2>2
  <1>7. ASSUME ~hooksRaced'
        PROVE  /\ \A t, u \in Coder : hook'[t].pc # "idle" /\ hook'[u].pc # "idle" => t = u
               /\ \A t \in Coder : HookAlone(hook[t])'
               /\ Ordered'
    <2>1. \A t \in Coder \ {s} : hook'[t] = hook[t] /\ hook[t].pc = "idle"
      BY <1>1, <1>7 DEF WikiInv
    <2>2. \A t \in Coder \ {s} : HookAlone(hook[t])'
      BY <2>1 DEF HookAlone
    <2>3. HookAlone(hook[s])'
      BY <1>1, <1>7 DEF HookAlone
    <2> QED
      BY <1>7, <2>1, <2>2, <2>3
  <1> QED
    BY <1>4, <1>5, <1>6, <1>7 DEF WikiInv

(* The hook at hand. *)
LEMMA HookFacts ==
  ASSUME WikiInv, NEW s \in Coder
  PROVE  /\ hook[s] \in HookRun /\ HookOK(hook[s]) /\ (~hooksRaced => HookAlone(hook[s]) /\ Ordered)
         /\ hook[s].commit \in 0..MaxCommits /\ hook[s].sources \in SUBSET Source
         /\ hook[s].time \in 0..MaxWikiWrites /\ hook[s].pages \in SUBSET WikiPage /\ hook[s].read \in Seq(Rows)
         /\ hook[s].steady \in SUBSET WikiPage
         /\ Len(commitLog) \in Nat /\ Len(commitLog) <= MaxCommits /\ MaxCommits \in Nat
         /\ ledger \in Seq(Rows) /\ Len(ledger) <= LedgerCap /\ Len(ledger) \in Nat /\ owed \subseteq 1..MaxCommits
         /\ <<>> \in Seq(Rows) /\ Len(<<>>) = 0 /\ 0 <= LedgerCap /\ 0 \in 0..MaxWikiWrites /\ 0 <= indexTime
  BY LedgerAssumption DEF WikiInv, WikiTypes, HookRun

LEMMA OrderedKept == ASSUME Ordered, UNCHANGED <<ledger, owed, commitLog>>
                     PROVE  Ordered'
  BY DEF Ordered, HasRow, PushedOut

LEMMA HookHeadStep ==
  ASSUME WikiInv, NEW s \in Coder, HookHead(s)
  PROVE  WikiInv'
  <1>1. PICK n : n = HookAt("files", Len(commitLog), {}, 0, {}, <<>>, {})
    OBVIOUS
  <1>2. /\ hook[s].pc = "head" /\ hook' = [hook EXCEPT ![s] = n]
        /\ UNCHANGED <<refs, standing, indexTime, pageCache, missed, commitLog, ledger, wikiWrites, owed, hooksRaced>>
    BY <1>1 DEF HookHead
  <1>3. Len(commitLog) \in 0..MaxCommits /\ Len(commitLog) \in 1..Len(commitLog)
    BY <1>2, HookFacts DEF HookOK
  <1>4. n \in HookRun /\ n.pc = "files" /\ n.commit = Len(commitLog) /\ n.time = 0 /\ n.read = <<>>
    BY <1>1, <1>3, HookFacts DEF HookAt, HookRun
  <1>5. HookOK(n)'
    BY <1>2, <1>3, <1>4, HookFacts DEF HookOK
  <1>6. ~hooksRaced => Ordered' /\ HookAlone(n)'
    BY <1>2, <1>4, HookFacts, OrderedKept DEF HookAlone
  <1> QED
    BY <1>2, <1>4, <1>5, <1>6, HookFacts, WikiHookStep

LEMMA HookFilesStep ==
  ASSUME WikiInv, NEW s \in Coder, HookFiles(s)
  PROVE  WikiInv'
  <1>1. PICK n : n = HookAt("stat", hook[s].commit, commitLog[Len(commitLog)], 0, {}, <<>>, {})
    OBVIOUS
  <1>2. /\ hook[s].pc = "files" /\ hook' = [hook EXCEPT ![s] = n]
        /\ UNCHANGED <<refs, standing, indexTime, pageCache, missed, commitLog, ledger, wikiWrites, owed, hooksRaced>>
    BY <1>1 DEF HookFiles
  <1>3. hook[s].commit \in 1..Len(commitLog) /\ Len(commitLog) \in 1..Len(commitLog)
    BY <1>2, HookFacts DEF HookOK
  <1>4. commitLog[Len(commitLog)] \in SUBSET Source
    BY <1>3 DEF WikiInv, WikiTypes
  <1>5. n \in HookRun /\ n.pc = "stat" /\ n.commit = hook[s].commit /\ n.time = 0 /\ n.read = <<>>
    BY <1>1, <1>4, HookFacts DEF HookAt, HookRun
  <1>6. HookOK(n)'
    BY <1>2, <1>3, <1>5, HookFacts DEF HookOK
  <1>7. ~hooksRaced => Ordered' /\ HookAlone(n)'
    BY <1>2, <1>5, HookFacts, OrderedKept DEF HookAlone
  <1> QED
    BY <1>2, <1>5, <1>6, <1>7, HookFacts, WikiHookStep

LEMMA HookStatStep ==
  ASSUME WikiInv, NEW s \in Coder, HookStat(s)
  PROVE  WikiInv'
  <1>1. PICK steady : steady = Referencing(standing, hook[s].sources)
    OBVIOUS
  <1>2. PICK n : n = HookAt("map", hook[s].commit, hook[s].sources, indexTime, {}, <<>>, steady)
    OBVIOUS
  <1>3. /\ hook[s].pc = "stat" /\ hook' = [hook EXCEPT ![s] = n]
        /\ UNCHANGED <<refs, standing, indexTime, pageCache, missed, commitLog, ledger, wikiWrites, owed, hooksRaced>>
    BY <1>1, <1>2 DEF HookStat
  <1>4. steady \in SUBSET WikiPage /\ indexTime \in 0..MaxWikiWrites /\ indexTime <= indexTime
    BY <1>1, LedgerAssumption DEF Referencing, WikiInv, WikiTypes
  <1>5. /\ n \in HookRun /\ n.pc = "map" /\ n.commit = hook[s].commit /\ n.time = indexTime /\ n.read = <<>>
        /\ n.sources = hook[s].sources /\ n.steady = steady
    BY <1>2, <1>4, HookFacts DEF HookAt, HookRun
  <1>6. FoundSteady(n)'
    <2>1. CacheInv
      BY DEF WikiInv
    <2> QED
      BY <1>1, <1>3, <1>4, <1>5, <2>1 DEF FoundSteady, CacheInv, Referencing
  <1>7. HookOK(n)'
    BY <1>3, <1>4, <1>5, <1>6, HookFacts DEF HookOK
  <1>8. ~hooksRaced => Ordered' /\ HookAlone(n)'
    BY <1>3, <1>5, HookFacts, OrderedKept DEF HookAlone
  <1> QED
    BY <1>3, <1>5, <1>7, <1>8, HookFacts, WikiHookStep

LEMMA HookMapStep ==
  ASSUME WikiInv, NEW s \in Coder, HookMap(s)
  PROVE  WikiInv'
  <1>1. PICK h : h = hook[s]
    OBVIOUS
  <1>2. PICK hit \in {FALSE, pageCache.time = h.time}, unread \in SUBSET WikiPage :
           LET map == IF hit THEN pageCache.map ELSE Built(unread)
           IN  /\ pageCache' \in {pageCache} \cup (IF hit THEN {} ELSE {[time |-> h.time, map |-> map]})
               /\ missed' = IF pageCache' = pageCache THEN missed ELSE unread
               /\ hook' = [hook EXCEPT ![s] = HookAt("read", h.commit, {}, 0, Referencing(map, h.sources), <<>>,
                                                    h.steady \ (IF hit THEN missed ELSE unread))]
    BY <1>1, Zenon DEF HookMap
  <1>3. PICK map : map = IF hit THEN pageCache.map ELSE Built(unread)
    OBVIOUS
  <1>4. PICK passed : passed = IF hit THEN missed ELSE unread
    OBVIOUS
  <1>5. PICK pages : pages = Referencing(map, h.sources)
    OBVIOUS
  <1>6. PICK n : n = HookAt("read", h.commit, {}, 0, pages, <<>>, h.steady \ passed)
    OBVIOUS
  <1>7. /\ h.pc = "map" /\ hook' = [hook EXCEPT ![s] = n]
        /\ UNCHANGED <<refs, standing, indexTime, commitLog, ledger, wikiWrites, owed, hooksRaced>>
    <2>1. hook' = [hook EXCEPT ![s] = n]
      BY <1>2, <1>3, <1>4, <1>5, <1>6, Zenon
    <2> QED
      BY <1>1, <2>1 DEF HookMap
  <1>8. refs \in [WikiPage -> SUBSET Source] /\ h.steady \in SUBSET WikiPage /\ FoundSteady(h)
    BY <1>1, <1>7, HookFacts DEF WikiInv, WikiTypes, HookOK
  <1>9. Built(unread) \in [WikiPage -> SUBSET Source] /\ \A p \in WikiPage \ unread : Built(unread)[p] = refs[p]
    BY <1>8 DEF Built
  <1>10. UNCHANGED <<pageCache, missed>> \/ CacheBuilt(h.time)
    <2>1. CASE pageCache' = pageCache
      BY <1>2, <2>1
    <2>2. CASE pageCache' # pageCache
      <3>1. pageCache' = [time |-> h.time, map |-> Built(unread)] /\ missed' = unread
        BY <1>2, <2>2
      <3> QED
        BY <1>9, <3>1 DEF CacheBuilt
    <2> QED
      BY <2>1, <2>2
  <1>11. pages \in SUBSET WikiPage
    BY <1>5 DEF Referencing
  <1>12. h.steady \ passed \subseteq pages
    <2>1. CASE hit
      BY <1>2, <1>3, <1>4, <1>5, <1>8, <2>1 DEF FoundSteady, Referencing
    <2>2. CASE ~hit
      BY <1>3, <1>4, <1>5, <1>8, <1>9, <2>2 DEF FoundSteady, Referencing
    <2> QED
      BY <2>1, <2>2
  <1>13. /\ n \in HookRun /\ n.pc = "read" /\ n.commit = h.commit /\ n.time = 0 /\ n.read = <<>>
         /\ n.pages = pages /\ n.steady = h.steady \ passed
    <2>1. h.steady \ passed \in SUBSET WikiPage
      BY <1>8
    <2> QED
      BY <1>1, <1>6, <1>11, <2>1, HookFacts DEF HookAt, HookRun
  <1>14. HookOK(n)'
    BY <1>1, <1>7, <1>12, <1>13, HookFacts DEF HookOK
  <1>15. ~hooksRaced => Ordered' /\ HookAlone(n)'
    BY <1>1, <1>7, <1>13, HookFacts, OrderedKept DEF HookAlone
  <1> QED
    BY <1>1, <1>7, <1>10, <1>13, <1>14, <1>15, HookFacts, WikiHookStep

LEMMA HookFailsStep ==
  ASSUME WikiInv, NEW s \in Coder, HookFailsOpen(s)
  PROVE  WikiInv'
  <1>1. /\ hook[s].pc # "idle" /\ hook' = [hook EXCEPT ![s] = NoHook]
        /\ UNCHANGED <<refs, standing, indexTime, pageCache, missed, commitLog, ledger, wikiWrites, owed, hooksRaced>>
    BY DEF HookFailsOpen
  <1>2. NoHook \in HookRun /\ HookOK(NoHook) /\ HookAlone(NoHook) /\ NoHook.pc = "idle"
    BY NoHookFacts DEF WikiInv
  <1>3. HookOK(NoHook)' /\ HookAlone(NoHook)'
    BY <1>1, <1>2 DEF HookOK, HookAlone, NoHook, HookAt
  <1>4. ~hooksRaced => Ordered'
    BY <1>1, HookFacts, OrderedKept
  <1> QED
    BY <1>1, <1>2, <1>3, <1>4, HookFacts, WikiHookStep

LEMMA HookReadStep ==
  ASSUME WikiInv, NEW s \in Coder, HookRead(s)
  PROVE  WikiInv'
  <1>1. PICK h : h = hook[s]
    OBVIOUS
  <1>2. PICK rows \in 0..Len(ledger) :
           LET seen == SubSeq(ledger, 1, rows)
               hasRow == \E i \in DOMAIN seen : seen[i].commit = h.commit
           IN  /\ hook' = [hook EXCEPT ![s] = IF hasRow THEN NoHook
                            ELSE HookAt("write", h.commit, {}, 0, h.pages, seen, h.steady)]
               /\ owed' = IF hasRow THEN owed \cup {h.commit} ELSE owed
    BY <1>1, Zenon DEF HookRead
  <1>3. PICK seen : seen = SubSeq(ledger, 1, rows)
    OBVIOUS
  <1>4. PICK present \in BOOLEAN : present <=> \E i \in DOMAIN seen : seen[i].commit = h.commit
    OBVIOUS
  <1>5. PICK n : n = IF present THEN NoHook ELSE HookAt("write", h.commit, {}, 0, h.pages, seen, h.steady)
    OBVIOUS
  <1>6. /\ h.pc = "read" /\ hook' = [hook EXCEPT ![s] = n]
        /\ owed' = IF present THEN owed \cup {h.commit} ELSE owed
        /\ UNCHANGED <<refs, standing, indexTime, pageCache, missed, commitLog, ledger, wikiWrites, hooksRaced>>
    <2>1. /\ hook' = [hook EXCEPT ![s] = n]
          /\ owed' = IF present THEN owed \cup {h.commit} ELSE owed
      BY <1>2, <1>3, <1>4, <1>5
    <2> QED
      BY <1>1, <2>1 DEF HookRead
  <1>7. /\ h.commit \in 1..Len(commitLog) /\ h.commit \in 1..MaxCommits /\ h.steady \subseteq h.pages
        /\ Len(commitLog) > 0
    BY <1>1, <1>6, HookFacts DEF HookOK
  <1>8. seen \in Seq(Rows) /\ Len(seen) <= LedgerCap /\ ReadBefore(seen)
    <2>1. ledger \in Seq(Rows) /\ Len(ledger) \in Nat /\ Len(ledger) <= LedgerCap /\ LedgerCap \in Nat
      BY LedgerAssumption, HookFacts
    <2>2. rows \in Int /\ 1 \in Int /\ \A i \in 1..rows : ledger[i] \in Rows
      BY <2>1
    <2>3. seen \in Seq(Rows)
      BY <1>3, <2>1, <2>2, SubSeqProperties
    <2>4. Len(seen) = rows
      BY <1>3, <2>1, <2>2, SubSeqProperties
    <2>5. \A i \in 1..rows : seen[i] = ledger[i]
      BY <1>3, <2>1, <2>2, <2>4, SubSeqProperties
    <2> QED
      BY <2>1, <2>3, <2>4, <2>5 DEF ReadBefore
  <1>9. owed' \subseteq 1..MaxCommits
    BY <1>6, <1>7, HookFacts
  <1>10. n \in HookRun /\ HookOK(n)'
    <2>1. CASE present
      <3>1. n = NoHook /\ NoHook \in HookRun /\ HookOK(NoHook) /\ NoHook.pc = "idle"
        BY <1>5, <2>1, NoHookFacts DEF WikiInv
      <3> QED
        BY <1>6, <3>1 DEF HookOK, NoHook, HookAt
    <2>2. CASE ~present
      <3>1. n = HookAt("write", h.commit, {}, 0, h.pages, seen, h.steady)
        BY <1>5, <2>2
      <3>2. /\ n \in HookRun /\ n.pc = "write" /\ n.commit = h.commit /\ n.time = 0 /\ n.read = seen
            /\ n.pages = h.pages /\ n.steady = h.steady
        BY <1>1, <1>8, <3>1, HookFacts DEF HookAt, HookRun
      <3> QED
        BY <1>6, <1>7, <1>8, <3>2, HookFacts DEF HookOK
    <2> QED
      BY <2>1, <2>2
  <1>11. ASSUME ~hooksRaced
         PROVE  Ordered' /\ HookAlone(n)'
    <2>1. HookAlone(h) /\ Ordered /\ h.commit = Len(commitLog) /\ \A c \in owed : c < Len(commitLog)
      BY <1>1, <1>6, <1>11, HookFacts DEF HookAlone
    <2>2. DOMAIN seen = 1..Len(seen)
      BY <1>8
    <2>3. ~present
      BY <1>4, <1>7, <1>8, <2>1, <2>2, HookFacts DEF Ordered, ReadBefore
    <2>4. n = HookAt("write", h.commit, {}, 0, h.pages, seen, h.steady)
      BY <1>5, <2>3
    <2>5. n.pc = "write" /\ n.commit = h.commit /\ n.read = seen
      BY <2>4 DEF HookAt
    <2>6. owed' = owed
      BY <1>6, <2>3
    <2>7. HookAlone(n)'
      BY <1>6, <1>8, <2>1, <2>5, <2>6 DEF HookAlone, ReadBefore
    <2> QED
      BY <1>6, <2>1, <2>6, <2>7, OrderedKept
  <1> QED
    BY <1>1, <1>6, <1>9, <1>10, <1>11, HookFacts, WikiHookStep

(* The ledger with one more row, of which at most the first is dropped. *)
LEMMA CappedAppend ==
  ASSUME NEW rows \in Seq(Rows), Len(rows) <= LedgerCap, NEW row \in Rows, NEW out, out = Capped(Append(rows, row))
  PROVE  /\ out \in Seq(Rows) /\ Len(out) <= LedgerCap
         /\ \/ out = Append(rows, row) /\ Len(out) = Len(rows) + 1
            \/ /\ Len(rows) = LedgerCap /\ Len(out) = LedgerCap
               /\ \A i \in 1..LedgerCap : out[i] = Append(rows, row)[i + 1]
  <1>1. PICK app : app = Append(rows, row)
    OBVIOUS
  <1>2. app \in Seq(Rows) /\ Len(app) = Len(rows) + 1 /\ Len(rows) \in Nat /\ LedgerCap \in Nat \ {0}
    BY <1>1, AppendProperties, LedgerAssumption
  <1>3. CASE Len(app) <= LedgerCap
    BY <1>1, <1>2, <1>3 DEF Capped
  <1>4. CASE ~(Len(app) <= LedgerCap)
    <2>1. Len(rows) = LedgerCap /\ Len(app) = LedgerCap + 1
      BY <1>2, <1>4
    <2>2. Len(app) - LedgerCap + 1 = 2
      BY <1>2, <2>1
    <2>3. out = SubSeq(app, 2, LedgerCap + 1)
      BY <1>1, <1>2, <1>4, <2>1, <2>2 DEF Capped
    <2>4. 2 \in Int /\ LedgerCap + 1 \in Int /\ \A i \in 2..LedgerCap + 1 : app[i] \in Rows
      BY <1>2, <2>1
    <2>5. out \in Seq(Rows)
      BY <1>2, <2>1, <2>3, <2>4, SubSeqProperties
    <2>6. Len(out) = LedgerCap
      BY <1>2, <2>1, <2>3, <2>4, SubSeqProperties
    <2>7. ASSUME NEW i \in 1..LedgerCap
          PROVE  out[i] = app[i + 1]
      BY <1>2, <2>1, <2>3, <2>4, SubSeqProperties
    <2> QED
      BY <1>1, <1>2, <2>1, <2>5, <2>6, <2>7
  <1> QED
    BY <1>3, <1>4

(* More commits can only push out more. *)
LEMMA PushedOutStays ==
  ASSUME NEW c, PushedOut(c), owed \subseteq owed', owed' \subseteq 1..MaxCommits
  PROVE  PushedOut(c)'
  <1> DEFINE newer == {d \in owed : d > c}
             after == {d \in owed' : d > c}
  <1>1. IsFiniteSet(1..MaxCommits)
    BY LedgerAssumption, FS_Interval
  <1>2. after \in SUBSET (1..MaxCommits) /\ newer \in SUBSET after
    OBVIOUS
  <1>3. IsFiniteSet(after)
    BY <1>1, <1>2, FS_Subset
  <1>4. /\ IsFiniteSet(newer) /\ Cardinality(newer) <= Cardinality(after)
    BY <1>2, <1>3, FS_Subset
  <1>5. Cardinality(newer) \in Nat /\ Cardinality(after) \in Nat
    BY <1>3, <1>4, FS_CardinalityType
  <1> QED
    BY <1>4, <1>5, LedgerAssumption DEF PushedOut

(* A full ledger of newer commits pushes an older one out. *)
LEMMA FullOfNewer ==
  ASSUME NEW c, owed' \subseteq 1..MaxCommits, ledger' \in Seq(Rows), Len(ledger') = LedgerCap,
         \A i \in 1..LedgerCap : ledger'[i].commit \in owed' /\ ledger'[i].commit > c,
         \A i, j \in 1..LedgerCap : i < j => ledger'[i].commit < ledger'[j].commit
  PROVE  PushedOut(c)'
  <1> DEFINE newer == {d \in owed' : d > c}
             f == [i \in 1..LedgerCap |-> ledger'[i].commit]
  <1>1. IsFiniteSet(1..MaxCommits)
    BY LedgerAssumption, FS_Interval
  <1>2. IsFiniteSet(newer)
    <2>1. newer \in SUBSET (1..MaxCommits)
      OBVIOUS
    <2> QED
      BY <1>1, <2>1, FS_Subset
  <1>3. f \in [1..LedgerCap -> newer]
    OBVIOUS
  <1>4. ASSUME NEW i \in 1..LedgerCap, NEW j \in 1..LedgerCap, f[i] = f[j]
        PROVE  i = j
    <2>1. ledger'[i].commit = ledger'[j].commit /\ ledger'[i].commit \in 1..MaxCommits
      BY <1>4
    <2>2. ~(i < j) /\ ~(j < i)
      BY <2>1, LedgerAssumption
    <2> QED
      BY <2>2, LedgerAssumption
  <1>5. f \in Injection(1..LedgerCap, newer)
    <2> HIDE DEF f, newer
    <2> QED
      BY <1>3, <1>4, Fun_IsInj
  <1>6. Cardinality(1..LedgerCap) <= Cardinality(newer)
    <2> HIDE DEF f, newer
    <2> QED
      BY <1>2, <1>5, FS_Injection
  <1>7. Cardinality(1..LedgerCap) = LedgerCap
    BY LedgerAssumption, FS_Interval
  <1> QED
    BY <1>6, <1>7 DEF PushedOut

(* The row of the newest commit, appended to an ordered ledger. *)
LEMMA OrderedAppend ==
  ASSUME WikiInv, Ordered, NEW row \in Rows, row.commit = Len(commitLog), \A c \in owed : c < Len(commitLog),
         ledger' = Capped(Append(ledger, row)), owed' = owed \cup {row.commit}, UNCHANGED commitLog
  PROVE  Ordered'
  <1>1. /\ ledger \in Seq(Rows) /\ Len(ledger) \in Nat /\ Len(ledger) <= LedgerCap /\ owed \subseteq 1..MaxCommits
        /\ Len(commitLog) \in Nat /\ LedgerCap \in Nat \ {0}
    BY LedgerAssumption DEF WikiInv, WikiTypes
  <1>2. row.commit \in 1..MaxCommits
    BY DEF Rows
  <1>3. PICK app : app = Append(ledger, row)
    OBVIOUS
  <1>4. /\ app \in Seq(Rows) /\ Len(app) = Len(ledger) + 1 /\ app[Len(ledger) + 1] = row
        /\ \A i \in 1..Len(ledger) : app[i] = ledger[i]
    BY <1>1, <1>3, AppendProperties
  <1>5. /\ \A i, j \in 1..Len(app) : i < j => app[i].commit < app[j].commit
        /\ \A i \in 1..Len(app) : app[i].commit \in owed'
    <2>1. \A i \in 1..Len(app) : i = Len(ledger) + 1 \/ i \in 1..Len(ledger)
      BY <1>1, <1>4
    <2>2. \A i \in 1..Len(app) : app[i].commit \in owed'
      BY <1>4, <2>1 DEF Ordered
    <2>3. ASSUME NEW i \in 1..Len(app), NEW j \in 1..Len(app), i < j
          PROVE  app[i].commit < app[j].commit
      <3>1. i \in 1..Len(ledger)
        BY <1>1, <1>4, <2>3
      <3>2. CASE j \in 1..Len(ledger)
        BY <1>4, <2>3, <3>1, <3>2 DEF Ordered
      <3>3. CASE j = Len(ledger) + 1
        BY <1>4, <3>1, <3>3 DEF Ordered
      <3> QED
        BY <2>1, <3>2, <3>3
    <2> QED
      BY <2>2, <2>3
  <1>6. \A c \in owed' : c <= Len(commitLog)
    BY <1>1
  <1>7. owed' \subseteq 1..MaxCommits /\ owed \subseteq owed'
    BY <1>1, <1>2
  <1>8. /\ ledger' \in Seq(Rows) /\ Len(ledger') <= LedgerCap
        /\ \/ ledger' = app /\ Len(ledger') = Len(ledger) + 1
           \/ /\ Len(ledger) = LedgerCap /\ Len(ledger') = LedgerCap
              /\ \A i \in 1..LedgerCap : ledger'[i] = app[i + 1]
    BY <1>1, <1>3, CappedAppend
  <1>9. CASE ledger' = app
    <2>1. \A c \in owed' : HasRow(c)' \/ PushedOut(c)'
      <3>1. HasRow(row.commit)'
        BY <1>1, <1>4, <1>9 DEF HasRow
      <3>2. ASSUME NEW c \in owed
            PROVE  HasRow(c)' \/ PushedOut(c)'
        <4>1. HasRow(c) => HasRow(c)'
          BY <1>1, <1>4, <1>9 DEF HasRow
        <4> QED
          BY <1>7, <4>1, PushedOutStays DEF Ordered
      <3> QED
        BY <3>1, <3>2
    <2> QED
      BY <1>5, <1>6, <1>9, <2>1 DEF Ordered
  <1>10. CASE /\ Len(ledger) = LedgerCap /\ Len(ledger') = LedgerCap
              /\ \A i \in 1..LedgerCap : ledger'[i] = app[i + 1]
    <2>1. \A i \in 1..LedgerCap : i + 1 \in 1..Len(app)
      BY <1>1, <1>4, <1>10
    <2>2. \A i \in 1..LedgerCap : ledger'[i].commit \in owed'
      BY <1>5, <1>10, <2>1
    <2>3. \A i, j \in 1..LedgerCap : i < j => ledger'[i].commit < ledger'[j].commit
      BY <1>5, <1>10, <2>1
    <2>4. HasRow(row.commit)'
      BY <1>1, <1>4, <1>10 DEF HasRow
    <2>5. ASSUME NEW c \in owed
          PROVE  HasRow(c)' \/ PushedOut(c)'
      <3>1. CASE PushedOut(c)
        BY <1>7, <3>1, PushedOutStays
      <3>2. CASE HasRow(c)
        <4>1. PICK k \in 1..Len(ledger) : ledger[k].commit = c
          BY <3>2 DEF HasRow
        <4>2. CASE k = 1
          <5>1. \A i \in 1..LedgerCap : ledger'[i].commit > c
            BY <1>1, <1>4, <1>5, <1>7, <1>10, <2>1, <4>1, <4>2
          <5> QED
            BY <1>7, <1>8, <1>10, <2>2, <2>3, <5>1, FullOfNewer
        <4>3. CASE k # 1
          <5>1. k - 1 \in 1..LedgerCap /\ (k - 1) + 1 = k
            BY <1>1, <1>10, <4>3
          <5>2. ledger'[k - 1].commit = c
            BY <1>4, <1>10, <4>1, <5>1
          <5> QED
            BY <1>10, <5>1, <5>2 DEF HasRow
        <4> QED
          BY <4>2, <4>3
      <3> QED
        BY <3>1, <3>2 DEF Ordered
    <2>6. \A c \in owed' : HasRow(c)' \/ PushedOut(c)'
      BY <2>4, <2>5
    <2> QED
      BY <1>6, <1>10, <2>2, <2>3, <2>6 DEF Ordered
  <1> QED
    BY <1>8, <1>9, <1>10

(* The row of the newest commit, appended to what could be read of it. *)
LEMMA OrderedReplace ==
  ASSUME WikiInv, Ordered, NEW read \in Seq(Rows), ReadBefore(read), read # ledger, NEW row \in Rows,
         row.commit = Len(commitLog), \A c \in owed : c < Len(commitLog), UNCHANGED commitLog,
         ledger' = Capped(Append(read, row)), owed' = {row.commit} \cup {read[i].commit : i \in DOMAIN read}
  PROVE  Ordered'
  <1>1. /\ ledger \in Seq(Rows) /\ Len(ledger) \in Nat /\ Len(ledger) <= LedgerCap /\ owed \subseteq 1..MaxCommits
        /\ Len(commitLog) \in Nat /\ LedgerCap \in Nat \ {0} /\ Len(read) \in Nat /\ DOMAIN read = 1..Len(read)
    BY LedgerAssumption DEF WikiInv, WikiTypes
  <1>2. Len(read) < Len(ledger)
    <2>1. Len(read) = Len(ledger) => read = ledger
      BY <1>1, SeqEqual DEF ReadBefore
    <2> QED
      BY <1>1, <2>1 DEF ReadBefore
  <1>3. ledger' = Append(read, row) /\ Len(ledger') = Len(read) + 1
    <2>1. Len(read) <= LedgerCap /\ Len(read) # LedgerCap
      <3>1. \A m, n, cap \in Nat : m < n /\ n <= cap => m <= cap /\ m # cap
        OBVIOUS
      <3>2. LedgerCap \in Nat
        BY <1>1
      <3> QED
        BY <1>1, <1>2, <3>1, <3>2
    <2> QED
      BY <2>1, CappedAppend
  <1>4. ledger'[Len(read) + 1] = row /\ \A i \in 1..Len(read) : ledger'[i] = ledger[i] /\ read[i] = ledger[i]
    BY <1>1, <1>3, AppendProperties DEF ReadBefore
  <1>5. /\ \A i \in 1..Len(ledger') : i = Len(read) + 1 \/ i \in 1..Len(read)
        /\ Len(read) + 1 \in 1..Len(ledger') /\ 1..Len(read) \subseteq 1..Len(ledger') /\ 1..Len(read) \subseteq 1..Len(ledger)
    BY <1>1, <1>2, <1>3
  <1>6. \A i \in 1..Len(read) : ledger[i].commit \in owed /\ ledger[i].commit < Len(commitLog)
    BY <1>5 DEF Ordered
  <1>7. ASSUME NEW i \in 1..Len(ledger'), NEW j \in 1..Len(ledger'), i < j
        PROVE  ledger'[i].commit < ledger'[j].commit
    <2>1. i \in 1..Len(read)
      BY <1>1, <1>3, <1>7
    <2>2. CASE j \in 1..Len(read)
      BY <1>4, <1>5, <1>7, <2>1, <2>2 DEF Ordered
    <2>3. CASE j = Len(read) + 1
      BY <1>4, <1>6, <2>1, <2>3
    <2> QED
      BY <1>5, <2>2, <2>3
  <1>8. \A i \in 1..Len(ledger') : ledger'[i].commit \in owed'
    BY <1>1, <1>4, <1>5
  <1>9. \A c \in owed' : c <= Len(commitLog) /\ HasRow(c)'
    <2>1. HasRow(row.commit)'
      BY <1>4, <1>5 DEF HasRow
    <2>2. ASSUME NEW i \in DOMAIN read
          PROVE  read[i].commit <= Len(commitLog) /\ HasRow(read[i].commit)'
      <3>1. read[i].commit = ledger[i].commit /\ read[i].commit \in owed
        BY <1>1, <1>4, <1>6
      <3>2. read[i].commit <= Len(commitLog)
        BY <3>1 DEF Ordered
      <3>3. i \in 1..Len(ledger') /\ ledger'[i].commit = read[i].commit
        BY <1>1, <1>4, <1>5
      <3> QED
        BY <3>2, <3>3 DEF HasRow
    <2> QED
      BY <1>1, <2>1, <2>2
  <1> QED
    BY <1>7, <1>8, <1>9 DEF Ordered

LEMMA HookWriteStep ==
  ASSUME WikiInv, NEW s \in Coder, HookWrite(s)
  PROVE  WikiInv'
  <1>1. PICK h : h = hook[s]
    OBVIOUS
  <1>2. PICK row : row = Row(h.commit, h.pages, IF h.pages = {} THEN "n/a" ELSE "debt")
    OBVIOUS
  <1>3. /\ h.pc = "write" /\ hook' = [hook EXCEPT ![s] = NoHook]
        /\ ledger' = Capped(Append(h.read, row)) 
        /\ owed' = {h.commit} \cup IF h.read = ledger THEN owed ELSE {h.read[i].commit : i \in DOMAIN h.read}
        /\ UNCHANGED <<refs, standing, indexTime, pageCache, missed, commitLog, wikiWrites, hooksRaced>>
    BY <1>1, <1>2 DEF HookWrite
  <1>4. h.commit \in 1..Len(commitLog) /\ h.commit \in 1..MaxCommits /\ h.read \in Seq(Rows) /\ Len(h.read) <= LedgerCap
    BY <1>1, <1>3, HookFacts DEF HookOK
  <1>5. row \in Rows /\ row.commit = h.commit
    BY <1>1, <1>2, <1>4, HookFacts DEF Row, Rows
  <1>6. ledger' \in Seq(Rows) /\ Len(ledger') <= LedgerCap
    BY <1>3, <1>4, <1>5, CappedAppend
  <1>7. owed' \subseteq 1..MaxCommits
    <2>1. \A i \in DOMAIN h.read : h.read[i].commit \in 1..MaxCommits
      <3>1. \A r \in Rows : r.commit \in 1..MaxCommits
        BY DEF Rows
      <3>2. \A i \in DOMAIN h.read : h.read[i] \in Rows
        BY <1>4
      <3> QED
        BY <3>1, <3>2
    <2> QED
      BY <1>3, <1>4, <2>1, HookFacts
  <1>8. NoHook \in HookRun /\ HookOK(NoHook) /\ HookAlone(NoHook) /\ NoHook.pc = "idle"
    BY NoHookFacts DEF WikiInv
  <1>9. HookOK(NoHook)' /\ HookAlone(NoHook)'
    BY <1>3, <1>8 DEF HookOK, HookAlone, NoHook, HookAt
  <1>10. ASSUME ~hooksRaced
         PROVE  Ordered'
    <2>1. HookAlone(h) /\ Ordered
      BY <1>1, <1>10, HookFacts
    <2>2. ReadBefore(h.read) /\ row.commit = Len(commitLog) /\ \A c \in owed : c < Len(commitLog)
      BY <1>3, <1>5, <2>1 DEF HookAlone
    <2>3. CASE h.read = ledger
      <3>1. ledger' = Capped(Append(ledger, row)) /\ owed' = owed \cup {row.commit}
        BY <1>3, <1>5, <2>3
      <3> QED
        BY <1>3, <1>5, <2>1, <2>2, <3>1, OrderedAppend
    <2>4. CASE h.read # ledger
      <3>1. ledger' = Capped(Append(h.read, row)) /\ owed' = {row.commit} \cup {h.read[i].commit : i \in DOMAIN h.read}
        BY <1>3, <1>5, <2>4
      <3> QED
        BY <1>3, <1>4, <1>5, <2>1, <2>2, <2>4, <3>1, OrderedReplace
    <2> QED
      BY <2>3, <2>4
  <1> QED
    BY <1>1, <1>3, <1>6, <1>7, <1>8, <1>9, <1>10, WikiHookStep

LEMMA CommitMadeStep ==
  ASSUME WikiInv, NEW s \in Coder, CommitMade(s)
  PROVE  WikiInv'
  <1>1. PICK n : n = HookAt("head", 0, {}, 0, {}, <<>>, {})
    OBVIOUS
  <1>2. /\ hook[s].pc = "idle" /\ hook' = [hook EXCEPT ![s] = n] /\ hooksRaced' = (hooksRaced \/ Running(s))
        /\ UNCHANGED <<refs, standing, indexTime, pageCache, missed, ledger, wikiWrites, owed>>
    BY <1>1 DEF CommitMade
  <1>3. PICK m \in 1..2, sources \in SUBSET Source :
           Len(commitLog) + m <= MaxCommits /\ commitLog' = commitLog \o [i \in 1..m |-> sources]
    BY DEF CommitMade
  <1>4. commitLog \in Seq(SUBSET Source) /\ hook \in [Coder -> HookRun] /\ Len(commitLog) \in Nat
    BY DEF WikiInv, WikiTypes
  <1>5. [i \in 1..m |-> sources] \in Seq(SUBSET Source) /\ Len([i \in 1..m |-> sources]) = m
    OBVIOUS
  <1>6. commitLog' \in Seq(SUBSET Source) /\ Len(commitLog') = Len(commitLog) + m /\ Len(commitLog') <= MaxCommits
    BY <1>3, <1>4, <1>5, ConcatProperties
  <1>7. Len(commitLog') \in Nat /\ Len(commitLog) < Len(commitLog')
    BY <1>4, <1>6
  <1>8. n \in HookRun /\ n.pc = "head" /\ n.time = 0 /\ n.read = <<>>
    BY <1>1, HookFacts DEF HookAt, HookRun
  <1>9. hook' \in [Coder -> HookRun] /\ hook'[s] = n /\ \A t \in Coder \ {s} : hook'[t] = hook[t]
    BY <1>2, <1>4, <1>8
  <1>10. WikiTypes'
    <2>1. hooksRaced' \in BOOLEAN
      BY <1>2 DEF WikiInv, WikiTypes
    <2> QED
      BY <1>2, <1>6, <1>9, <2>1 DEF WikiInv, WikiTypes
  <1>11. CacheInv'
    BY <1>2 DEF WikiInv, CacheInv
  <1>12. ASSUME NEW t \in Coder
         PROVE  HookOK(hook[t])'
    <2>1. CASE t = s
      BY <1>2, <1>4, <1>7, <1>8, <1>9, <2>1, HookFacts DEF HookOK
    <2>2. CASE t # s
      <3>1. HookOK(hook[t]) /\ hook'[t] = hook[t]
        BY <1>9, <2>2 DEF WikiInv
      <3>2. hook[t].pc = "map" => FoundSteady(hook[t])'
        BY <1>2, <3>1 DEF HookOK, FoundSteady
      <3>3. hook[t].pc \notin {"idle", "head"} => hook[t].commit \in 1..Len(commitLog)'
        BY <1>4, <1>7, <3>1 DEF HookOK
      <3> QED
        BY <1>2, <1>4, <1>7, <3>1, <3>2, <3>3 DEF HookOK
    <2> QED
      BY <2>1, <2>2
  <1>13. ASSUME ~hooksRaced'
         PROVE  /\ \A t, u \in Coder : hook'[t].pc # "idle" /\ hook'[u].pc # "idle" => t = u
                /\ \A t \in Coder : HookAlone(hook[t])'
                /\ Ordered'
    <2>1. ~hooksRaced /\ \A t \in Coder \ {s} : hook'[t] = hook[t] /\ hook[t].pc = "idle"
      BY <1>2, <1>9, <1>13 DEF Running
    <2>2. Ordered
      BY <2>1 DEF WikiInv
    <2>3. \A c \in owed' : c < Len(commitLog')
      BY <1>2, <1>4, <1>7, <2>2 DEF Ordered, WikiInv, WikiTypes
    <2>4. Ordered'
      <3>1. \A c : (HasRow(c) => HasRow(c)') /\ (PushedOut(c) => PushedOut(c)')
        BY <1>2 DEF HasRow, PushedOut
      <3>2. \A c \in owed' : c <= Len(commitLog')
        BY <1>2, <1>7, <2>3 DEF WikiInv, WikiTypes
      <3> QED
        BY <1>2, <2>2, <3>1, <3>2 DEF Ordered
    <2>5. \A t \in Coder : HookAlone(hook[t])'
      BY <1>8, <1>9, <2>1, <2>3 DEF HookAlone
    <2> QED
      BY <2>1, <2>4, <2>5
  <1> QED
    BY <1>10, <1>11, <1>12, <1>13 DEF WikiInv

LEMMA PageWrittenStep ==
  ASSUME WikiInv, PageWritten
  PROVE  WikiInv'
  <1>1. PICK p \in WikiPage, sources \in SUBSET Source :
           /\ refs' = [refs EXCEPT ![p] = sources]
           /\ standing' = [standing EXCEPT ![p] = standing[p] \cap sources]
           /\ hook' = [s \in Coder |->
                          IF sources \cap hook[s].sources = {}
                          THEN [hook[s] EXCEPT !.steady = hook[s].steady \ {p}] ELSE hook[s]]
    BY DEF PageWritten
  <1>2. /\ wikiWrites' = wikiWrites + 1 /\ wikiWrites < MaxWikiWrites
        /\ UNCHANGED <<indexTime, pageCache, missed, commitLog, ledger, owed, hooksRaced>>
    BY DEF PageWritten, WikiWrite
  <1>3. WikiTypes /\ CacheInv /\ hook \in [Coder -> HookRun]
    BY DEF WikiInv, WikiTypes
  <1>4. ASSUME NEW s \in Coder
        PROVE  /\ hook'[s] \in HookRun
               /\ hook'[s].pc = hook[s].pc /\ hook'[s].commit = hook[s].commit /\ hook'[s].sources = hook[s].sources
               /\ hook'[s].time = hook[s].time /\ hook'[s].pages = hook[s].pages /\ hook'[s].read = hook[s].read
               /\ hook'[s].steady \subseteq hook[s].steady
               /\ p \in hook'[s].steady => sources \cap hook[s].sources # {}
    <2>1. hook[s] \in HookRun
      BY <1>3
    <2>2. hook'[s] = IF sources \cap hook[s].sources = {}
                     THEN [hook[s] EXCEPT !.steady = hook[s].steady \ {p}] ELSE hook[s]
      BY <1>1
    <2> QED
      BY <2>1, <2>2 DEF HookRun
  <1>5. hook' \in [Coder -> HookRun]
    BY <1>1, <1>4
  <1>6. /\ refs' \in [WikiPage -> SUBSET Source] /\ standing' \in [WikiPage -> SUBSET Source]
        /\ refs'[p] = sources /\ standing'[p] \subseteq sources /\ standing'[p] \subseteq standing[p]
        /\ \A q \in WikiPage \ {p} : refs'[q] = refs[q] /\ standing'[q] = standing[q]
    BY <1>1, <1>3 DEF WikiTypes
  <1>7. WikiTypes'
    <2>1. wikiWrites' \in 0..MaxWikiWrites /\ indexTime' <= wikiWrites'
      BY <1>2, <1>3, LedgerAssumption DEF WikiTypes
    <2> QED
      BY <1>2, <1>3, <1>5, <1>6, <2>1 DEF WikiTypes
  <1>8. CacheInv'
    BY <1>2, <1>3, <1>6 DEF CacheInv
  <1>9. ASSUME NEW s \in Coder
        PROVE  HookOK(hook[s])'
    <2>1. HookOK(hook[s]) /\ hook[s].steady \in SUBSET WikiPage
      BY HookFacts DEF WikiInv
    <2>2. hook[s].pc = "map" => FoundSteady(hook[s])'
      BY <1>2, <1>4, <1>6, <2>1 DEF HookOK, FoundSteady
    <2> QED
      BY <1>2, <1>4, <2>1, <2>2 DEF HookOK
  <1>10. ASSUME ~hooksRaced'
         PROVE  /\ \A s, t \in Coder : hook'[s].pc # "idle" /\ hook'[t].pc # "idle" => s = t
                /\ \A s \in Coder : HookAlone(hook[s])'
                /\ Ordered'
    <2>1. ~hooksRaced /\ Ordered /\ \A s \in Coder : HookAlone(hook[s])
      BY <1>2, <1>10 DEF WikiInv
    <2>2. \A s, t \in Coder : hook'[s].pc # "idle" /\ hook'[t].pc # "idle" => s = t
      BY <1>4, <2>1 DEF WikiInv
    <2>3. \A s \in Coder : HookAlone(hook[s])'
      BY <1>2, <1>4, <2>1 DEF HookAlone, ReadBefore
    <2> QED
      BY <1>2, <2>1, <2>2, <2>3, OrderedKept
  <1> QED
    BY <1>7, <1>8, <1>9, <1>10 DEF WikiInv

LEMMA IndexWrittenStep ==
  ASSUME WikiInv, IndexWritten
  PROVE  WikiInv'
  <1>1. /\ wikiWrites' = wikiWrites + 1 /\ wikiWrites < MaxWikiWrites /\ indexTime' = indexTime + 1 /\ standing' = refs
        /\ UNCHANGED <<refs, pageCache, missed, commitLog, ledger, hook, owed, hooksRaced>>
    BY DEF IndexWritten, WikiWrite
  <1>2. WikiTypes /\ CacheInv
    BY DEF WikiInv
  <1>3. /\ indexTime' \in 0..MaxWikiWrites /\ wikiWrites' \in 0..MaxWikiWrites /\ indexTime' <= wikiWrites'
        /\ indexTime \in Nat /\ indexTime < indexTime' /\ pageCache.time \in Int
    BY <1>1, <1>2, LedgerAssumption DEF WikiTypes
  <1>4. WikiTypes'
    BY <1>1, <1>2, <1>3 DEF WikiTypes
  <1>5. CacheInv'
    BY <1>1, <1>2, <1>3 DEF CacheInv
  <1>6. ASSUME NEW s \in Coder
        PROVE  HookOK(hook[s])'
    <2>1. HookOK(hook[s]) /\ hook[s].time \in Int
      BY HookFacts
    <2>2. hook[s].pc = "map" => FoundSteady(hook[s])'
      BY <1>1, <2>1 DEF HookOK, FoundSteady
    <2>3. hook[s].time <= indexTime'
      BY <1>1, <1>3, <2>1 DEF HookOK
    <2> QED
      BY <1>1, <2>1, <2>2, <2>3 DEF HookOK
  <1>7. Ordered => Ordered'
    BY <1>1, OrderedKept
  <1>8. \A s \in Coder : HookAlone(hook[s]) => HookAlone(hook[s])'
    BY <1>1 DEF HookAlone, ReadBefore
  <1> QED
    BY <1>1, <1>4, <1>5, <1>6, <1>7, <1>8 DEF WikiInv

LEMMA ReconciledStep ==
  ASSUME WikiInv, Reconciled
  PROVE  WikiInv'
  <1>1. PICK p \in WikiPage :
           ledger' = [i \in DOMAIN ledger |->
                         IF ledger[i].status = "debt" /\ p \in ledger[i].pages
                         THEN [ledger[i] EXCEPT !.status = "fresh"] ELSE ledger[i]]
    BY DEF Reconciled
  <1>2. /\ wikiWrites' = wikiWrites + 1 /\ wikiWrites < MaxWikiWrites
        /\ hooksRaced' = (hooksRaced \/ \E s \in Coder : hook[s].pc # "idle")
        /\ UNCHANGED <<refs, standing, indexTime, pageCache, missed, commitLog, hook, owed>>
    BY DEF Reconciled, WikiWrite
  <1>3. WikiTypes /\ CacheInv /\ ledger \in Seq(Rows) /\ Len(ledger) \in Nat /\ DOMAIN ledger = 1..Len(ledger)
    BY DEF WikiInv, WikiTypes
  <1>4. ASSUME NEW i \in 1..Len(ledger)
        PROVE  ledger'[i] \in Rows /\ ledger'[i].commit = ledger[i].commit
    <2>1. ledger[i] \in Rows
      BY <1>3
    <2>2. ledger'[i] = IF ledger[i].status = "debt" /\ p \in ledger[i].pages
                       THEN [ledger[i] EXCEPT !.status = "fresh"] ELSE ledger[i]
      BY <1>1, <1>3
    <2> QED
      BY <2>1, <2>2 DEF Rows
  <1>5. ledger' \in Seq(Rows) /\ Len(ledger') = Len(ledger)
    BY <1>1, <1>3, <1>4
  <1>6. WikiTypes'
    <2>1. wikiWrites' \in 0..MaxWikiWrites /\ indexTime' <= wikiWrites' /\ hooksRaced' \in BOOLEAN
      BY <1>2, <1>3, LedgerAssumption DEF WikiTypes
    <2> QED
      BY <1>2, <1>3, <1>5, <2>1 DEF WikiTypes
  <1>7. CacheInv'
    BY <1>2, <1>3 DEF CacheInv
  <1>8. ASSUME NEW s \in Coder
        PROVE  HookOK(hook[s])'
    <2>1. HookOK(hook[s])
      BY HookFacts
    <2>2. hook[s].pc = "map" => FoundSteady(hook[s])'
      BY <1>2, <2>1 DEF HookOK, FoundSteady
    <2> QED
      BY <1>2, <2>1, <2>2 DEF HookOK
  <1>9. ASSUME ~hooksRaced'
        PROVE  /\ \A s, t \in Coder : hook'[s].pc # "idle" /\ hook'[t].pc # "idle" => s = t
               /\ \A s \in Coder : HookAlone(hook[s])'
               /\ Ordered'
    <2>1. ~hooksRaced /\ \A s \in Coder : hook'[s].pc = "idle"
      BY <1>2, <1>9
    <2>2. Ordered
      BY <2>1 DEF WikiInv
    <2>3. \A c : (HasRow(c) => HasRow(c)') /\ (PushedOut(c) => PushedOut(c)')
      BY <1>2, <1>4, <1>5 DEF HasRow, PushedOut
    <2>4. Ordered'
      BY <1>2, <1>4, <1>5, <2>2, <2>3 DEF Ordered
    <2> QED
      BY <2>1, <2>4 DEF HookAlone
  <1> QED
    BY <1>6, <1>7, <1>8, <1>9 DEF WikiInv

LEMMA WikiNextStep == WikiInv /\ [WikiNext]_wikiVars => WikiInv'
  <1> SUFFICES ASSUME WikiInv, [WikiNext]_wikiVars
               PROVE  WikiInv'
    OBVIOUS
  <1>1. ASSUME NEW s \in Coder,
               \/ CommitMade(s) \/ HookHead(s) \/ HookFiles(s) \/ HookStat(s)
               \/ HookMap(s) \/ HookRead(s) \/ HookWrite(s) \/ HookFailsOpen(s)
        PROVE  WikiInv'
    BY <1>1, CommitMadeStep, HookHeadStep, HookFilesStep, HookStatStep, HookMapStep, HookReadStep, HookWriteStep, HookFailsStep
  <1>2. CASE UNCHANGED wikiVars
    <2>1. UNCHANGED <<refs, standing, indexTime, pageCache, missed, commitLog, ledger, hook, wikiWrites, owed, hooksRaced>>
      BY <1>2 DEF wikiVars
    <2>2. WikiTypes' /\ CacheInv'
      BY <2>1 DEF WikiInv, WikiTypes, CacheInv
    <2>3. \A s \in Coder : HookOK(hook[s])' /\ (HookAlone(hook[s]) => HookAlone(hook[s])')
      BY <2>1 DEF WikiInv, HookOK, FoundSteady, HookAlone, ReadBefore
    <2>4. Ordered => Ordered'
      BY <2>1, OrderedKept
    <2> QED
      BY <2>1, <2>2, <2>3, <2>4 DEF WikiInv
  <1> QED
    BY <1>1, <1>2, PageWrittenStep, IndexWrittenStep, ReconciledStep DEF WikiNext

LEMMA WikiAlways == WikiSpec => []WikiInv
  <1> QED
    BY WikiStarts, WikiNextStep, PTL DEF WikiSpec

(* The wiki's ledger, its cache and the hooks hold what their types say. *)
THEOREM WikiTypeCorrect == WikiSpec => []WikiTypeOK
  <1>1. WikiInv => WikiTypeOK
    <2> SUFFICES ASSUME WikiInv
                 PROVE  WikiTypeOK
      OBVIOUS
    <2>1. WikiTypes
      BY DEF WikiInv
    <2>2. \A i \in DOMAIN commitLog : commitLog[i] \subseteq Source
      BY <2>1 DEF WikiTypes
    <2>3. \A i \in DOMAIN ledger : ledger[i] \in Rows
      BY <2>1 DEF WikiTypes
    <2>4. ASSUME NEW s \in Coder
          PROVE  /\ hook[s].pc \in {"idle", "head", "files", "stat", "map", "read", "write"}
                 /\ hook[s].commit \in 0..MaxCommits /\ hook[s].sources \subseteq Source
                 /\ hook[s].time \in 0..MaxWikiWrites /\ hook[s].pages \subseteq WikiPage
                 /\ hook[s].steady \subseteq WikiPage
                 /\ Len(hook[s].read) <= LedgerCap /\ \A i \in DOMAIN hook[s].read : hook[s].read[i] \in Rows
      <3>1. hook[s] \in HookRun /\ HookOK(hook[s]) /\ hook[s].read \in Seq(Rows)
        BY HookFacts
      <3> QED
        BY <3>1 DEF HookRun, HookOK
    <2> QED
      BY <2>1, <2>2, <2>3, <2>4 DEF WikiTypes, WikiTypeOK
  <1> QED
    BY <1>1, WikiAlways, PTL

(* The ledger forgets no impact it could have seen: whatever is cached under  *)
(* which index time, and however hooks and writes interleave, a hook finds    *)
(* every page that has referenced the commit's files since the index was      *)
(* written and could be read; and while hooks do not overlap every commit     *)
(* dealt with since the rows were last read in full has its one row, in       *)
(* order, unless a full ledger of newer ones pushed it out.                   *)
THEOREM WikiLedgerHonest == WikiSpec => []LedgerIsHonest
  <1>1. WikiInv => LedgerIsHonest
    <2> SUFFICES ASSUME WikiInv
                 PROVE  LedgerIsHonest
      OBVIOUS
    <2>1. DOMAIN ledger = 1..Len(ledger)
      BY DEF WikiInv, WikiTypes
    <2>2. \A s \in Coder : hook[s].pc \in {"read", "write"} => hook[s].steady \subseteq hook[s].pages
      BY DEF WikiInv, HookOK
    <2>3. ~hooksRaced => Ordered
      BY DEF WikiInv
    <2> QED
      BY <2>1, <2>2, <2>3 DEF Ordered, HasRow, PushedOut, LedgerIsHonest
  <1> QED
    BY <1>1, WikiAlways, PTL

-----------------------------------------------------------------------------
(***************************************************************************)
(* Hook settings: registration, migration, evidence                        *)
(***************************************************************************)

USE HookAssumption

-----------------------------------------------------------------------------
(* The types the proofs need: what a file and a record look like.          *)

MigType ==
    [pc : {"look", "write", "append", "store", "notice"}, tier : Tier, chan : Channels,
     out : [Tier -> Outcome], seen : Content, rec : Records, log : [Tier -> Records]]

LEMMA CmdsType == \A c \in Content : c.cmds \in SUBSET (Hook \X Form)
  BY DEF Content, Missing, Broken, Json

LEMMA RewriteIsContent ==
  ASSUME NEW c \in Content, NEW chan \in Channels
  PROVE  Rewrite(c, chan) \in Content
  <1>1. \A e \in c.cmds : <<e[1], chan>> \in Hook \X Form /\ e \in Hook \X Form
    BY CmdsType DEF Form
  <1>2. {IF e[2] = "bare" THEN <<e[1], chan>> ELSE e : e \in c.cmds} \in SUBSET (Hook \X Form)
    BY <1>1
  <1> QED
    BY <1>2 DEF Rewrite, Content

LEMMA CoerceIsContent ==
  ASSUME NEW c \in Content, NEW chan \in Channels
  PROVE  Coerce(c, chan) \in Content
  <1>1. \A e \in c.cmds : <<e[1], chan>> \in Hook \X Form /\ e \in Hook \X Form
    BY CmdsType DEF Form
  <1>2. {IF e[2] \in {"bare"} \cup Channels THEN <<e[1], chan>> ELSE e : e \in c.cmds} \in SUBSET (Hook \X Form)
    BY <1>1
  <1> QED
    BY <1>2 DEF Coerce, Content

(* Neither rewriting adds or removes an entry of the registered form. *)
LEMMA RewriteKeepsRegistered ==
  ASSUME NEW c \in Content, NEW chan \in Channels
  PROVE  Registered(Rewrite(c, chan)) = Registered(c)
  <1>1. \A h \in Hook : <<h, "sh">> \in c.cmds <=> <<h, "sh">> \in Rewrite(c, chan).cmds
    <2> TAKE h \in Hook
    <2>1. \A e \in c.cmds : e = <<e[1], e[2]>>
      BY DEF Content, Missing, Broken, Json
    <2>2. ASSUME <<h, "sh">> \in c.cmds
          PROVE  <<h, "sh">> \in Rewrite(c, chan).cmds
      <3>1. <<h, "sh">>[2] # "bare"
        OBVIOUS
      <3> QED
        BY <2>2, <3>1 DEF Rewrite, Json
    <2>3. ASSUME <<h, "sh">> \in Rewrite(c, chan).cmds
          PROVE  <<h, "sh">> \in c.cmds
      <3>1. PICK e \in c.cmds : <<h, "sh">> = IF e[2] = "bare" THEN <<e[1], chan>> ELSE e
        BY <2>3 DEF Rewrite, Json
      <3>2. chan # "sh"
        BY DEF Channels
      <3> QED
        BY <3>1, <3>2
    <2> QED
      BY <2>2, <2>3
  <1> QED
    BY <1>1 DEF Registered

LEMMA CoerceKeepsRegistered ==
  ASSUME NEW c \in Content, NEW chan \in Channels
  PROVE  Registered(Coerce(c, chan)) = Registered(c)
  <1>1. \A h \in Hook : <<h, "sh">> \in c.cmds <=> <<h, "sh">> \in Coerce(c, chan).cmds
    <2> TAKE h \in Hook
    <2>2. ASSUME <<h, "sh">> \in c.cmds
          PROVE  <<h, "sh">> \in Coerce(c, chan).cmds
      <3>1. <<h, "sh">>[2] \notin {"bare"} \cup Channels
        BY DEF Channels
      <3> QED
        BY <2>2, <3>1 DEF Coerce, Json
    <2>3. ASSUME <<h, "sh">> \in Coerce(c, chan).cmds
          PROVE  <<h, "sh">> \in c.cmds
      <3>1. PICK e \in c.cmds : <<h, "sh">> = IF e[2] \in {"bare"} \cup Channels THEN <<e[1], chan>> ELSE e
        BY <2>3 DEF Coerce, Json
      <3>2. chan # "sh"
        BY DEF Channels
      <3> QED
        BY <3>1, <3>2
    <2> QED
      BY <2>2, <2>3
  <1> QED
    BY <1>1 DEF Registered

-----------------------------------------------------------------------------
(* Types. *)

LEMMA RecordType ==
  /\ NoRecord \in Records /\ Missing \in Content /\ Broken \in Content
  /\ \A o \in {"applied", "not-needed", "refused"}, b, a \in Content : Record(o, b, a) \in Records
  /\ \A r \in Records : Reference(r) \in Content
  <1>1. Missing \in Content /\ Broken \in Content
    BY DEF Content
  <1>2. NoRecord \in Records
    BY DEF Records
  <1>3. \A o \in {"applied", "not-needed", "refused"}, b, a \in Content : Record(o, b, a) \in Records
    BY DEF Records, Record
  <1>4. ASSUME NEW r \in Records
        PROVE  Reference(r) \in Content
    <2>1. CASE r = NoRecord
      BY <1>1, <2>1 DEF NoRecord, Reference
    <2>2. CASE r # NoRecord
      BY <2>2 DEF Records, Reference
    <2> QED
      BY <2>1, <2>2
  <1> QED
    BY <1>1, <1>2, <1>3, <1>4

LEMMA PassType ==
  ASSUME NEW pc \in {"look", "notice"}, NEW t \in Tier, NEW chan \in Channels, NEW out \in [Tier -> Outcome]
  PROVE  Pass(pc, t, chan, out) \in MigType /\ Pass(pc, t, chan, out).pc = pc
  <1>1. [u \in Tier |-> NoRecord] \in [Tier -> Records]
    BY RecordType
  <1> QED
    BY <1>1, RecordType DEF Pass, MigType

LEMMA NextFileType ==
  ASSUME NEW m \in MigType, NEW outcome \in Outcome
  PROVE  NextFile(m, outcome) \in MigType /\ NextFile(m, outcome).pc \in {"look", "notice"}
  <1>1. [m.out EXCEPT ![m.tier] = outcome] \in [Tier -> Outcome] /\ m.chan \in Channels /\ "local" \in Tier
    BY DEF MigType, Tier
  <1> QED
    BY <1>1, PassType DEF NextFile

LEMMA MigsType ==
  ASSUME HookTypeOK
  PROVE  mig \in [Session -> {Off} \cup MigType]
  BY DEF HookTypeOK, MigType

LEMMA MigrationRuns ==
  ASSUME HookTypeOK, NEW s \in Session, mig[s].pc # "off"
  PROVE  mig[s] \in MigType
  BY MigsType DEF Off

LEMMA HookTypeInit == HookInit => HookTypeOK
  <1> SUFFICES ASSUME HookInit
               PROVE  HookTypeOK
    OBVIOUS
  <1>1. \A hs \in SUBSET Hook : Json(hs \X {"bare"}) \in Content
    BY DEF Content, Form
  <1>2. settings \in [Tier -> Content]
    <2>1. {Missing} \cup {Json(hs \X {"bare"}) : hs \in SUBSET Hook} \subseteq Content
      BY <1>1, RecordType
    <2> QED
      BY <2>1 DEF HookInit
  <1>4. evidence \in [Tier -> Records]
    BY RecordType DEF HookInit
  <1>3. stale \in BOOLEAN /\ chosen \in BOOLEAN /\ silent \subseteq Tier
    BY Zenon DEF HookInit
  <1> QED
    BY <1>2, <1>3, <1>4 DEF HookInit, HookTypeOK

LEMMA HookTypeStep == HookTypeOK /\ [HookNext]_hookVars => HookTypeOK'
  <1> SUFFICES ASSUME HookTypeOK, [HookNext]_hookVars
               PROVE  HookTypeOK'
    OBVIOUS
  <1>1. ASSUME NEW s \in Session, Start(s)
        PROVE  HookTypeOK'
    <2>1. PICK chan \in Channels : mig' = [mig EXCEPT ![s] = Pass("look", "project", chan, [t \in Tier |-> "none"])]
      BY <1>1 DEF Start
    <2>2. [t \in Tier |-> "none"] \in [Tier -> Outcome] /\ "project" \in Tier
      BY DEF Outcome, Tier
    <2>3. mig' \in [Session -> {Off} \cup MigType]
      BY <2>1, <2>2, PassType, MigsType
    <2> QED
      BY <1>1, <2>3 DEF Start, HookTypeOK, MigType
  <1>2. ASSUME NEW s \in Session, Look(s)
        PROVE  HookTypeOK'
    <2> DEFINE m == mig[s]
               c == settings[m.tier]
               prior == evidence[m.tier]
    <2>1. m \in MigType
      BY <1>2, MigrationRuns DEF Look
    <2>2. c \in Content /\ prior \in Records /\ m.chan \in Channels
      BY <2>1 DEF HookTypeOK, MigType
    <2>3. NextFile(m, "none") \in MigType /\ NextFile(m, "not-needed") \in MigType
      BY <2>1, NextFileType DEF Outcome
    <2>4. \A rec \in Records : [m EXCEPT !.pc = "append", !.rec = rec] \in MigType
      BY <2>1 DEF MigType
    <2>5. [m EXCEPT !.pc = "write", !.seen = c, !.rec = prior] \in MigType
      BY <2>1, <2>2 DEF MigType
    <2>6. mig'[s] \in {Off} \cup MigType
      BY <1>2, <2>2, <2>3, <2>4, <2>5, MigsType, RecordType DEF Look
    <2>7. mig' \in [Session -> {Off} \cup MigType]
      BY <1>2, <2>6, MigsType DEF Look
    <2> QED
      BY <1>2, <2>7 DEF Look, HookTypeOK, MigType
  <1>3. ASSUME NEW s \in Session, WriteFile(s)
        PROVE  HookTypeOK'
    <2> DEFINE m == mig[s]
               new == Rewrite(m.seen, m.chan)
    <2>1. m \in MigType
      BY <1>3, MigrationRuns DEF WriteFile
    <2>2. new \in Content
      BY <2>1, RewriteIsContent DEF MigType
    <2>3. [m EXCEPT !.pc = "append", !.seen = Missing, !.rec = Record("applied", m.seen, new)] \in MigType
      BY <2>1, <2>2, RecordType DEF MigType
    <2>4. mig' \in [Session -> {Off} \cup MigType]
      BY <1>3, <2>3, MigsType DEF WriteFile
    <2>5. stale' \in BOOLEAN
      BY <1>3 DEF WriteFile, HookTypeOK
    <2>6. settings' \in [Tier -> Content]
      BY <1>3, <2>2 DEF WriteFile, HookTypeOK
    <2> QED
      BY <1>3, <2>4, <2>5, <2>6 DEF WriteFile, HookTypeOK, MigType
  <1>4. ASSUME NEW s \in Session, AppendRead(s)
        PROVE  HookTypeOK'
    <2>1. mig[s] \in MigType
      BY <1>4, MigrationRuns DEF AppendRead
    <2>2. [mig[s] EXCEPT !.pc = "store", !.log = evidence] \in MigType
      BY <2>1 DEF MigType, HookTypeOK
    <2>3. mig' \in [Session -> {Off} \cup MigType]
      BY <1>4, <2>1, <2>2, MigsType DEF AppendRead, MigType
    <2> QED
      BY <1>4, <2>3 DEF AppendRead, HookTypeOK, MigType
  <1>5. ASSUME NEW s \in Session, AppendWrite(s)
        PROVE  HookTypeOK'
    <2>1. mig[s] \in MigType
      BY <1>5, MigrationRuns DEF AppendWrite
    <2>0. mig[s].rec.outcome \in Outcome
      BY <2>1 DEF MigType, Records, NoRecord, Outcome
    <2>2. NextFile(mig[s], mig[s].rec.outcome) \in MigType
      BY <2>0, <2>1, NextFileType
    <2>3. mig' \in [Session -> {Off} \cup MigType]
      BY <1>5, <2>2, MigsType DEF AppendWrite
    <2>4. evidence' \in [Tier -> Records]
      BY <1>5, <2>1 DEF AppendWrite, MigType
    <2>5. Reference(mig[s].rec) \in Content
      BY <2>1, RecordType DEF MigType
    <2>6. known' \in [Tier -> SUBSET Content]
      BY <1>5, <2>5 DEF AppendWrite, HookTypeOK
    <2>7. stale' \in BOOLEAN /\ silent' \subseteq Tier
      BY <1>5 DEF AppendWrite, HookTypeOK
    <2> QED
      BY <1>5, <2>3, <2>4, <2>6, <2>7 DEF AppendWrite, HookTypeOK, MigType
  <1>6. ASSUME NEW s \in Session, Kill(s)
        PROVE  HookTypeOK'
    BY <1>6 DEF Kill, HookTypeOK
  <1>7. ASSUME NEW flag \in Tier \cup {"auto"}, NEW replace \in BOOLEAN, Register(flag, replace)
        PROVE  HookTypeOK'
    <2>1. PICK t \in Target(flag) : settings' = [settings EXCEPT ![t] = Json(settings[t].cmds \cup (Hook \X {"sh"}))]
      BY <1>7 DEF Register
    <2>2. Hook \X {"sh"} \in SUBSET (Hook \X Form)
      BY DEF Form
    <2>3. t \in Tier
      BY <2>1 DEF Target, Tier
    <2>4. Json(settings[t].cmds \cup (Hook \X {"sh"})) \in Content
      BY <2>2, <2>3, CmdsType DEF Content, HookTypeOK
    <2>5. settings' \in [Tier -> Content]
      BY <2>1, <2>4 DEF HookTypeOK
    <2>6. chosen' \in BOOLEAN
      BY <1>7 DEF Register, HookTypeOK
    <2> QED
      BY <1>7, <2>5, <2>6 DEF Register, Edit, HookTypeOK
  <1>8. ASSUME NEW chan \in Channels, Reconcile(chan)
        PROVE  HookTypeOK'
    <2>1. settings' \in [Tier -> Content]
      BY <1>8, CoerceIsContent DEF Reconcile, HookTypeOK
    <2> QED
      BY <1>8, <2>1 DEF Reconcile, Edit, HookTypeOK
  <1>9. CASE ResetEvidence
    <2>1. evidence' \in [Tier -> Records]
      BY <1>9, RecordType DEF ResetEvidence
    <2> QED
      BY <1>9, <2>1 DEF ResetEvidence, Edit, HookTypeOK
  <1>10. CASE EditByHand
    <2>1. \A t \in Tier, h \in Hook, f \in {"bare", "sh"} :
             Json(IF <<h, f>> \in settings[t].cmds THEN settings[t].cmds \ {<<h, f>>}
                  ELSE settings[t].cmds \cup {<<h, f>>}) \in Content
      BY CmdsType DEF Content, HookTypeOK, Form
    <2>2. settings' \in [Tier -> Content]
      <3>1. PICK t \in Tier :
               \/ \E h \in Hook, f \in {"bare", "sh"} :
                     settings' = [settings EXCEPT ![t] =
                        Json(IF <<h, f>> \in settings[t].cmds THEN settings[t].cmds \ {<<h, f>>}
                             ELSE settings[t].cmds \cup {<<h, f>>})]
               \/ settings' = [settings EXCEPT ![t] = Broken]
        BY <1>10 DEF EditByHand
      <3>2. \E c \in Content : settings' = [settings EXCEPT ![t] = c]
        BY <2>1, <3>1, RecordType
      <3> QED
        BY <3>2 DEF HookTypeOK
    <2>3. chosen' \in BOOLEAN
      BY <1>10 DEF EditByHand, HookTypeOK
    <2> QED
      BY <1>10, <2>2, <2>3 DEF EditByHand, Edit, HookTypeOK
  <1>11. CASE UNCHANGED hookVars
    BY <1>11 DEF hookVars, HookTypeOK
  <1>12. ASSUME NEW s \in Session, Notice(s)
         PROVE  HookTypeOK'
    <2>1. silent' \subseteq Tier
      BY <1>12 DEF Notice, HookTypeOK, Tier
    <2> QED
      BY <1>12, <2>1 DEF Notice, HookTypeOK
  <1> QED
    BY <1>1, <1>2, <1>3, <1>4, <1>5, <1>6, <1>7, <1>8, <1>9, <1>10, <1>11, <1>12 DEF HookNext

(* Every reachable state of settings, log and migrations is well typed. *)
THEOREM HookTypeCorrect == HookSpec => []HookTypeOK
  BY HookTypeInit, HookTypeStep, PTL DEF HookSpec

-----------------------------------------------------------------------------
(* No hook is registered in both files.                                    *)

LEMMA LookReads ==
  ASSUME NEW s \in Session, Look(s)
  PROVE  UNCHANGED <<settings, evidence, starts, edits, known, silent, stale, chosen>>
  BY Zenon DEF Look

LEMMA OneTierInit == HookInit => OneTier
  <1> SUFFICES ASSUME HookInit
               PROVE  Registered(settings["project"]) = {}
    BY DEF OneTier, Tier
  <1>1. settings["project"] \in {Missing} \cup {Json(hs \X {"bare"}) : hs \in SUBSET Hook}
    BY DEF HookInit, Tier
  <1>2. \A h \in Hook, hs \in SUBSET Hook : <<h, "sh">> \notin hs \X {"bare"}
    OBVIOUS
  <1> QED
    BY <1>1, <1>2 DEF Registered, Missing, Json

LEMMA OneTierStep == HookTypeOK /\ OneTier /\ [HookNext]_hookVars => OneTier'
  <1> SUFFICES ASSUME HookTypeOK, OneTier, [HookNext]_hookVars, ~chosen', ~stale'
               PROVE  \E t \in Tier : Registered(settings'[t]) = {}
    BY DEF OneTier, Registered
  <1>1. ASSUME NEW s \in Session, WriteFile(s)
        PROVE  \E t \in Tier : Registered(settings'[t]) = {}
    <2>1. mig[s] \in MigType
      BY <1>1, MigrationRuns DEF WriteFile
    <2>2. PICK t \in Tier : Registered(settings[t]) = {}
      BY <1>1 DEF WriteFile, OneTier
    <2>3. settings[mig[s].tier] = mig[s].seen
      BY <1>1 DEF WriteFile
    <2>4. Registered(settings'[mig[s].tier]) = Registered(settings[mig[s].tier])
      BY <1>1, <2>1, <2>3, RewriteKeepsRegistered DEF WriteFile, MigType, HookTypeOK
    <2>5. \A u \in Tier \ {mig[s].tier} : settings'[u] = settings[u]
      BY <1>1 DEF WriteFile, HookTypeOK
    <2>6. Registered(settings'[t]) = {}
      BY <2>2, <2>4, <2>5
    <2> QED
      BY <2>6
  <1>2. ASSUME NEW flag \in Tier \cup {"auto"}, NEW replace \in BOOLEAN, Register(flag, replace)
        PROVE  \E t \in Tier : Registered(settings'[t]) = {}
    <2>1. flag \notin Tier
      BY <1>2 DEF Register
    <2>2. PICK t \in Target(flag) : settings' = [settings EXCEPT ![t] = Json(settings[t].cmds \cup (Hook \X {"sh"}))]
      BY <1>2 DEF Register
    <2>3. PICK u \in Tier : u # t /\ Registered(settings[u]) = {}
      <3> DEFINE occupied == {x \in Tier : Registered(settings[x]) # {}}
      <3>1. CASE occupied = {}
        <4>1. Target(flag) = {"local"}
          BY <2>1, <3>1 DEF Target, Tier
        <4>2. t = "local" /\ "project" \in Tier /\ Registered(settings["project"]) = {}
          BY <4>1, <3>1 DEF Tier
        <4> QED
          BY <4>2
      <3>2. CASE occupied = Tier
        <4>0. Tier # {}
          BY DEF Tier
        <4>1. Target(flag) = {}
          BY <2>1, <3>2, <4>0 DEF Target
        <4> QED
          BY <4>1
      <3>3. CASE occupied # {} /\ occupied # Tier
        <4>1. Target(flag) = occupied
          BY <2>1, <3>3 DEF Target
        <4> QED
          BY <4>1, <3>3
      <3> QED
        BY <3>1, <3>2, <3>3
    <2>4. settings'[u] = settings[u]
      BY <2>2, <2>3 DEF HookTypeOK
    <2> QED
      BY <2>3, <2>4
  <1>3. ASSUME NEW chan \in Channels, Reconcile(chan)
        PROVE  \E t \in Tier : Registered(settings'[t]) = {}
    <2>1. PICK t \in Tier : Registered(settings[t]) = {}
      BY <1>3 DEF Reconcile, OneTier
    <2>2. Registered(settings'[t]) = Registered(settings[t])
      BY <1>3, CoerceKeepsRegistered DEF Reconcile, HookTypeOK
    <2> QED
      BY <2>1, <2>2
  <1>4. CASE EditByHand
    <2>1. PICK t \in Tier : Registered(settings[t]) = {}
      BY <1>4 DEF EditByHand, OneTier
    <2>2. PICK u \in Tier : /\ \E c : settings' = [settings EXCEPT ![u] = c]
                            /\ Registered(settings'[u]) \subseteq Registered(settings[u])
      BY <1>4 DEF EditByHand
    <2>3. CASE t = u
      BY <2>1, <2>2, <2>3
    <2>4. CASE t # u
      BY <2>1, <2>2, <2>4 DEF HookTypeOK
    <2> QED
      BY <2>3, <2>4
  <1>5. ASSUME settings' = settings, ~stale, ~chosen
        PROVE  \E t \in Tier : Registered(settings'[t]) = {}
    BY <1>5 DEF OneTier
  <1>6. ASSUME NEW s \in Session, Start(s) \/ AppendRead(s) \/ AppendWrite(s) \/ Notice(s) \/ Kill(s)
        PROVE  settings' = settings /\ ~stale /\ ~chosen
    <2>1. CASE Start(s)
      BY <2>1, Zenon DEF Start
    <2>2. CASE AppendRead(s)
      BY <2>2, Zenon DEF AppendRead
    <2>3. CASE AppendWrite(s)
      BY <2>3, Zenon DEF AppendWrite
    <2>4. CASE Kill(s)
      BY <2>4, Zenon DEF Kill
    <2>5. CASE Notice(s)
      BY <2>5, Zenon DEF Notice
    <2> QED
      BY <1>6, <2>1, <2>2, <2>3, <2>4, <2>5
  <1>8. ASSUME NEW s \in Session, Look(s)
        PROVE  settings' = settings /\ ~stale /\ ~chosen
    BY <1>8, LookReads
  <1>7. ASSUME ResetEvidence \/ UNCHANGED hookVars
        PROVE  settings' = settings /\ ~stale /\ ~chosen
    BY <1>7 DEF ResetEvidence, hookVars
  <1> QED
    BY <1>1, <1>2, <1>3, <1>4, <1>5, <1>6, <1>7, <1>8 DEF HookNext

(* As long as nobody chooses a file and no stale write brings entries back,  *)
(* registering, migrating and reconciling never leave registered entries in  *)
(* both settings files, for any hooks and sessions.                          *)
THEOREM RegisteredOnce == HookSpec => []OneTier
  <1>1. HookInit => HookTypeOK /\ OneTier
    BY HookTypeInit, OneTierInit
  <1>2. (HookTypeOK /\ OneTier) /\ [HookNext]_hookVars => (HookTypeOK /\ OneTier)'
    BY HookTypeStep, OneTierStep
  <1> QED
    BY <1>1, <1>2, PTL DEF HookSpec

-----------------------------------------------------------------------------
(* What the log vouches for.  A migration about to write has not diverged    *)
(* from its record; one about to log has a record; and the record on disk    *)
(* refers to a content that is known, as long as nothing stale was written.  *)

Deciding ==
    \A s \in Session :
        /\ mig[s].pc = "write" => ~Diverged(mig[s].rec, mig[s].seen)
        /\ mig[s].pc \in {"append", "store"} => mig[s].rec # NoRecord

Vouched ==
    ~stale => \A t \in Tier : IF evidence[t] = NoRecord THEN known[t] = {} ELSE Reference(evidence[t]) \in known[t]

LEMMA RecordIsOne ==
  \A o \in {"applied", "not-needed", "refused"}, b, a \in Content : Record(o, b, a) # NoRecord
  BY DEF Record, NoRecord

LEMMA DecidingStep == HookTypeOK /\ Deciding /\ [HookNext]_hookVars => Deciding'
  <1> SUFFICES ASSUME HookTypeOK, Deciding, [HookNext]_hookVars
               PROVE  Deciding'
    OBVIOUS
  <1> DEFINE Right(m) == /\ m.pc = "write" => ~Diverged(m.rec, m.seen)
                         /\ m.pc \in {"append", "store"} => m.rec # NoRecord
  <1>0. Right(Off) /\ \A m : m.pc \in {"look", "notice"} => Right(m)
    BY DEF Off
  <1>1. ASSUME NEW s \in Session, NEW m, mig' = [mig EXCEPT ![s] = m], Right(m)
        PROVE  Deciding'
    BY <1>1 DEF Deciding, HookTypeOK, Diverged, Reference
  <1>2. ASSUME NEW s \in Session, Start(s)
        PROVE  Deciding'
    <2>1. PICK chan \in Channels : mig' = [mig EXCEPT ![s] = Pass("look", "project", chan, [t \in Tier |-> "none"])]
      BY <1>2 DEF Start
    <2>2. Right(Pass("look", "project", chan, [t \in Tier |-> "none"]))
      BY DEF Pass
    <2> QED
      BY <1>1, <2>1, <2>2
  <1>3. ASSUME NEW s \in Session, Look(s)
        PROVE  Deciding'
    <2> DEFINE m == mig[s]
               c == settings[m.tier]
               prior == evidence[m.tier]
    <2>1. m \in MigType /\ c \in Content
      BY <1>3, MigrationRuns DEF Look, MigType, HookTypeOK
    <2>2. Right(NextFile(m, "none")) /\ Right(NextFile(m, "not-needed"))
      BY <2>1, NextFileType DEF Outcome
    <2>3. \A rec \in Records \ {NoRecord} : Right([m EXCEPT !.pc = "append", !.rec = rec])
      BY <2>1 DEF MigType
    <2>4. ASSUME ~Diverged(prior, c)
          PROVE  Right([m EXCEPT !.pc = "write", !.seen = c, !.rec = prior])
      BY <2>1, <2>4 DEF MigType
    <2>5. Right([m EXCEPT !.pc = "append", !.rec = Record("refused", c, Missing)])
      BY <2>1, <2>3, RecordIsOne, RecordType
    <2>6. Right([m EXCEPT !.pc = "append", !.rec = Record("not-needed", c, c)])
      BY <2>1, <2>3, RecordIsOne, RecordType
    <2>7. Right(mig'[s]) /\ mig' = [mig EXCEPT ![s] = mig'[s]]
      <3>1. mig' = [mig EXCEPT ![s] =
                IF c = Missing THEN NextFile(m, "none")
                ELSE IF Diverged(prior, c) \/ c = Broken THEN [m EXCEPT !.pc = "append", !.rec = Record("refused", c, Missing)]
                ELSE IF HasBare(c) THEN [m EXCEPT !.pc = "write", !.seen = c, !.rec = prior]
                ELSE IF prior = Record("not-needed", prior.before, c) THEN NextFile(m, "not-needed")
                ELSE [m EXCEPT !.pc = "append", !.rec = Record("not-needed", c, c)]]
        BY <1>3 DEF Look
      <3> DEFINE a == [m EXCEPT !.pc = "append", !.rec = Record("refused", c, Missing)]
                 b == [m EXCEPT !.pc = "write", !.seen = c, !.rec = prior]
                 d == [m EXCEPT !.pc = "append", !.rec = Record("not-needed", c, c)]
      <3>4. mig'[s] = IF c = Missing THEN NextFile(m, "none")
                      ELSE IF Diverged(prior, c) \/ c = Broken THEN a
                      ELSE IF HasBare(c) THEN b
                      ELSE IF prior = Record("not-needed", prior.before, c) THEN NextFile(m, "not-needed") ELSE d
        <4> HIDE DEF a, b, d
        <4> QED
          BY <3>1 DEF HookTypeOK, a, b, d
      <3>2. mig'[s] \in {NextFile(m, "none"), NextFile(m, "not-needed"), a, d} \/ (~Diverged(prior, c) /\ mig'[s] = b)
        <4> HIDE DEF a, b, d
        <4> QED
          BY <3>4
      <3>3. mig' = [mig EXCEPT ![s] = mig'[s]]
        BY <3>1 DEF HookTypeOK
      <3> QED
        BY <2>2, <2>4, <2>5, <2>6, <3>2, <3>3
    <2> QED
      BY <1>1, <2>7
  <1>4. ASSUME NEW s \in Session, WriteFile(s)
        PROVE  Deciding'
    <2> DEFINE m == mig[s]
               new == Rewrite(m.seen, m.chan)
               done == [m EXCEPT !.pc = "append", !.seen = Missing, !.rec = Record("applied", m.seen, new)]
    <2>1. m \in MigType
      BY <1>4, MigrationRuns DEF WriteFile
    <2>2. new \in Content
      BY <2>1, RewriteIsContent DEF MigType
    <2>3. done.pc = "append" /\ done.rec = Record("applied", m.seen, new)
      BY <2>1 DEF MigType
    <2>4. Right(done)
      BY <2>1, <2>2, <2>3, RecordIsOne DEF MigType
    <2>5. mig' = [mig EXCEPT ![s] = done]
      BY <1>4 DEF WriteFile
    <2> QED
      BY <1>1, <2>4, <2>5
  <1>5. ASSUME NEW s \in Session, AppendRead(s)
        PROVE  Deciding'
    <2>1. mig[s] \in MigType
      BY <1>5, MigrationRuns DEF AppendRead
    <2>2. mig' = [mig EXCEPT ![s] = [mig[s] EXCEPT !.pc = "store", !.log = evidence]]
      BY <1>5 DEF AppendRead, HookTypeOK
    <2>3. Right([mig[s] EXCEPT !.pc = "store", !.log = evidence])
      BY <1>5, <2>1 DEF AppendRead, Deciding, MigType
    <2> QED
      BY <1>1, <2>2, <2>3
  <1>6. ASSUME NEW s \in Session, AppendWrite(s)
        PROVE  Deciding'
    <2>1. mig[s] \in MigType
      BY <1>6, MigrationRuns DEF AppendWrite
    <2>0. mig[s].rec.outcome \in Outcome
      BY <2>1 DEF MigType, Records, NoRecord, Outcome
    <2>2. Right(NextFile(mig[s], mig[s].rec.outcome))
      BY <2>0, <2>1, NextFileType
    <2> QED
      BY <1>1, <1>6, <2>2 DEF AppendWrite
  <1>7. ASSUME NEW s \in Session, Kill(s)
        PROVE  Deciding'
    BY <1>0, <1>1, <1>7 DEF Kill
  <1>9. ASSUME NEW s \in Session, Notice(s)
        PROVE  Deciding'
    BY <1>0, <1>1, <1>9 DEF Notice
  <1>8. ASSUME UNCHANGED mig
        PROVE  Deciding'
    BY <1>8 DEF Deciding, Diverged, Reference
  <1> QED
    BY <1>2, <1>3, <1>4, <1>5, <1>6, <1>7, <1>8, <1>9
       DEF HookNext, Register, Reconcile, ResetEvidence, EditByHand, hookVars

LEMMA VouchedStep == HookTypeOK /\ Deciding /\ Vouched /\ [HookNext]_hookVars => Vouched'
  <1> SUFFICES ASSUME HookTypeOK, Deciding, Vouched, [HookNext]_hookVars, ~stale',
                      NEW t \in Tier
               PROVE  IF evidence'[t] = NoRecord THEN known'[t] = {} ELSE Reference(evidence'[t]) \in known'[t]
    BY DEF Vouched, Reference
  <1>1. ASSUME NEW s \in Session, AppendWrite(s)
        PROVE  IF evidence'[t] = NoRecord THEN known'[t] = {} ELSE Reference(evidence'[t]) \in known'[t]
    <2>1. mig[s] \in MigType
      BY <1>1, MigrationRuns DEF AppendWrite
    <2>2. evidence' = [evidence EXCEPT ![mig[s].tier] = mig[s].rec] /\ ~stale
      BY <1>1 DEF AppendWrite
    <2>3. mig[s].rec # NoRecord
      BY <1>1 DEF AppendWrite, Deciding
    <2>4. CASE t = mig[s].tier
      BY <1>1, <2>1, <2>2, <2>3, <2>4 DEF AppendWrite, HookTypeOK
    <2>5. CASE t # mig[s].tier
      BY <1>1, <2>1, <2>2, <2>5 DEF AppendWrite, HookTypeOK, Vouched
    <2> QED
      BY <2>4, <2>5
  <1>2. CASE ResetEvidence
    BY <1>2 DEF ResetEvidence
  <1>3. ASSUME UNCHANGED <<evidence, known>>, ~stale
        PROVE  IF evidence'[t] = NoRecord THEN known'[t] = {} ELSE Reference(evidence'[t]) \in known'[t]
    BY <1>3 DEF Vouched
  <1>4. ASSUME NEW s \in Session, Start(s) \/ WriteFile(s) \/ AppendRead(s) \/ Notice(s) \/ Kill(s)
        PROVE  UNCHANGED <<evidence, known>> /\ ~stale
    <2>1. CASE Start(s)
      BY <2>1, Zenon DEF Start
    <2>2. CASE WriteFile(s)
      BY <2>2, Zenon DEF WriteFile
    <2>3. CASE AppendRead(s)
      BY <2>3, Zenon DEF AppendRead
    <2>4. CASE Kill(s)
      BY <2>4, Zenon DEF Kill
    <2>5. CASE Notice(s)
      BY <2>5, Zenon DEF Notice
    <2> QED
      BY <1>4, <2>1, <2>2, <2>3, <2>4, <2>5
  <1>6. ASSUME NEW s \in Session, Look(s)
        PROVE  UNCHANGED <<evidence, known>> /\ ~stale
    BY <1>6, LookReads
  <1>5. ASSUME \/ \E flag \in Tier \cup {"auto"}, replace \in BOOLEAN : Register(flag, replace)
               \/ \E chan \in Channels : Reconcile(chan)
               \/ EditByHand
               \/ UNCHANGED hookVars
        PROVE  UNCHANGED <<evidence, known>> /\ ~stale
    BY <1>5 DEF Register, Reconcile, EditByHand, hookVars
  <1> QED
    BY <1>1, <1>2, <1>3, <1>4, <1>5, <1>6 DEF HookNext

(* The guard: a migration that writes from what is on disk rewrites a file    *)
(* with evidence only at a content some record vouches for, for any sessions  *)
(* and hooks and however often migrations are killed before they log.         *)
THEOREM GuardHolds == HookSpec => RecordedBeforeRewrite
  <1> DEFINE Guarded ==
        ~stale' => \A s \in Session :
            mig[s].pc = "write" /\ mig'[s].pc = "append" =>
                LET t == mig[s].tier
                IN  known[t] = {} \/ settings[t] \in known[t]
  <1>1. HookInit => HookTypeOK /\ Deciding /\ Vouched
    <2>1. HookInit => Deciding /\ Vouched
      BY DEF HookInit, Deciding, Vouched, Off
    <2> QED
      BY <2>1, HookTypeInit
  <1>2. (HookTypeOK /\ Deciding /\ Vouched) /\ [HookNext]_hookVars => (HookTypeOK /\ Deciding /\ Vouched)'
    BY HookTypeStep, DecidingStep, VouchedStep
  <1>3. (HookTypeOK /\ Deciding /\ Vouched) /\ [HookNext]_hookVars => [Guarded]_hookVars
    <2> SUFFICES ASSUME HookTypeOK, Deciding, Vouched, [HookNext]_hookVars, ~stale',
                        NEW s \in Session, mig[s].pc = "write", mig'[s].pc = "append"
                 PROVE  known[mig[s].tier] = {} \/ settings[mig[s].tier] \in known[mig[s].tier]
      OBVIOUS
    <2>1. mig[s] \in MigType
      BY MigrationRuns
    <2>2. WriteFile(s)
      <3>1. ASSUME NEW r \in Session, r # s, Start(r) \/ Look(r) \/ WriteFile(r) \/ AppendRead(r) \/ AppendWrite(r)
                                              \/ Notice(r) \/ Kill(r)
            PROVE  mig'[s] = mig[s]
        BY <3>1 DEF Start, Look, WriteFile, AppendRead, AppendWrite, Notice, Kill, HookTypeOK
      <3>2. ASSUME UNCHANGED mig
            PROVE  FALSE
        BY <3>2
      <3>3. ~Start(s) /\ ~Look(s) /\ ~AppendRead(s) /\ ~AppendWrite(s) /\ ~Notice(s)
        BY DEF Start, Look, AppendRead, AppendWrite, Notice
      <3>4. ~Kill(s)
        BY DEF Kill, Off, HookTypeOK
      <3> QED
        BY <3>1, <3>2, <3>3, <3>4 DEF HookNext, Register, Reconcile, ResetEvidence, EditByHand, hookVars
    <2>3. settings[mig[s].tier] = mig[s].seen /\ evidence[mig[s].tier] = mig[s].rec /\ ~stale
      BY <2>2 DEF WriteFile
    <2>4. ~Diverged(mig[s].rec, mig[s].seen)
      BY DEF Deciding
    <2> QED
      BY <2>1, <2>3, <2>4 DEF Diverged, Vouched, MigType
  <1> QED
    BY <1>1, <1>2, <1>3, PTL DEF HookSpec, RecordedBeforeRewrite
=============================================================================
