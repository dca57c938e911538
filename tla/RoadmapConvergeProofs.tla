------------------------ MODULE RoadmapConvergeProofs ------------------------
(***************************************************************************)
(* Theorems about the converge loop, for any dimensions, headings, lists,  *)
(* pass limits and reviewers' verdicts.                                    *)
(***************************************************************************)
EXTENDS RoadmapConverge, TLAPS

USE ConvergeAssumption

-----------------------------------------------------------------------------
(* State records and questions.                                            *)

LEMMA FreshType == Fresh \in ConvergeState /\ Numbered(Fresh) /\ NoDims \in Listings
  <1>1. NoDims \in [{} -> Status]
    BY DEF NoDims
  <1>2. NoDims \in Listings
    BY <1>1 DEF Listings
  <1>3. NoRoadmap \in Roadmap
    BY DEF NoRoadmap, Roadmap
  <1> QED
    BY <1>2, <1>3 DEF Fresh, ConvergeState, Numbered

(* Questions keep their names, and answers stay, when a dimension retires. *)
LEMMA ResolveKeeps ==
  ASSUME NEW asked \in SUBSET Question, NEW retired \in SUBSET Dims,
         \A q, r \in asked : q.id = r.id => q = r
  PROVE  LET now == AutoResolve(asked, retired)
         IN  /\ now \subseteq Question
             /\ \A q \in now : \E a \in asked : a.id = q.id
             /\ \A q, r \in now : q.id = r.id => q = r
             /\ \A q \in asked : q.res # "open" => q \in now
  <1> DEFINE Settled(q) == IF q.res = "open" /\ DimOf(q) \in retired THEN [q EXCEPT !.res = "archived"] ELSE q
  <1>1. \A q \in Question : Settled(q) \in Question /\ Settled(q).id = q.id
    BY DEF Question, Resolution
  <1>2. AutoResolve(asked, retired) = {Settled(q) : q \in asked}
    BY DEF AutoResolve
  <1>3. \A q \in asked : q.res # "open" => Settled(q) = q
    OBVIOUS
  <1> HIDE DEF Settled
  <1> QED
    BY <1>1, <1>2, <1>3

LEMMA UsableIsRated == \A o \in Outcome : o.ok => o.status \in Status
  <1>1. ASSUME NEW o \in [ok : {TRUE}, status : Verdicts, asks : BOOLEAN]
        PROVE  o.status \in Status
    BY DEF Status
  <1>2. \A o : o = [ok |-> FALSE, status |-> "yellow", asks |-> FALSE] => ~o.ok
    <2>1. [ok |-> FALSE, status |-> "yellow", asks |-> FALSE].ok = FALSE
      OBVIOUS
    <2>2. ~[ok |-> FALSE, status |-> "yellow", asks |-> FALSE].ok
      BY <2>1, Zenon
    <2> QED
      BY <2>2, Zenon
  <1>3. \A o \in Outcome : \/ o \in [ok : {TRUE}, status : Verdicts, asks : BOOLEAN]
                            \/ o = [ok |-> FALSE, status |-> "yellow", asks |-> FALSE]
    BY Zenon DEF Outcome
  <1> SUFFICES ASSUME NEW o \in Outcome, o.ok
               PROVE  o.status \in Status
    OBVIOUS
  <1>4. CASE o \in [ok : {TRUE}, status : Verdicts, asks : BOOLEAN]
    BY <1>1, <1>4
  <1>5. CASE o = [ok |-> FALSE, status |-> "yellow", asks |-> FALSE]
    BY <1>2, <1>5, Zenon
  <1> QED
    BY <1>3, <1>4, <1>5, Zenon

LEMMA MergeType ==
  ASSUME NEW st \in ConvergeState, Numbered(st), st.round < MaxRound,
         NEW prior \in Listings, NEW list \in SUBSET Dims, NEW out \in [list -> Outcome]
  PROVE  LET new == Merge(st, prior, out)
         IN  /\ new \in ConvergeState /\ Numbered(new)
             /\ new.signoff = st.signoff /\ new.retired = st.retired /\ new.hash = st.hash
             /\ Answered(st) \subseteq new.questions
  <1> DEFINE round == st.round + 1
             asked == Preserved(st, DOMAIN out) \cup Raised(out, round)
             settled == AutoResolve(asked, st.retired)
             dims == NextDims(prior, out)
             new == Merge(st, prior, out)
  <1>1. st.questions \subseteq Question /\ st.retired \subseteq Dims /\ st.round \in 0..MaxRound
    BY DEF ConvergeState
  <1>2. round \in 1..MaxRound
    BY <1>1
  <1>3. Raised(out, round) \subseteq Question /\ \A q \in Raised(out, round) : q.id[2] = round
    BY <1>2 DEF Raised, Question, QuestionId, Resolution
  <1>4. Preserved(st, DOMAIN out) \subseteq st.questions
    BY DEF Preserved
  <1>5. \A q, r \in Raised(out, round) : q.id = r.id => q = r
    BY DEF Raised
  <1>6. \A q \in st.questions : q.id[2] \in 1..MaxRound /\ q.id[2] <= st.round
    BY <1>1 DEF Numbered, Question, QuestionId
  <1>7. /\ asked \subseteq Question
        /\ \A q, r \in asked : q.id = r.id => q = r
        /\ \A q \in asked : q.id[2] <= round
    BY <1>1, <1>2, <1>3, <1>4, <1>5, <1>6 DEF Numbered
  <1>8. /\ settled \subseteq Question
        /\ \A q \in settled : \E a \in asked : a.id = q.id
        /\ \A q, r \in settled : q.id = r.id => q = r
        /\ \A q \in asked : q.res # "open" => q \in settled
    <2> HIDE DEF asked
    <2> QED
      BY <1>1, <1>7, ResolveKeeps
  <1>9. dims \in Listings
    <2>1. ASSUME NEW o \in Outcome, o.ok
          PROVE  o.status \in Status
      BY <2>1, UsableIsRated
    <2>2. \A d \in Dims : Carried(prior, d) \in Status
      BY DEF Carried, Listings, Status
    <2>3. dims \in [list -> Status]
      BY <2>1, <2>2 DEF NextDims
    <2> QED
      BY <2>3 DEF Listings
  <1> DEFINE counted == [st EXCEPT !.round = round]
             listed == [counted EXCEPT !.dims = dims]
  <1>10. new = [listed EXCEPT !.questions = settled]
    BY Zenon DEF Merge
  <1> HIDE DEF new, dims, settled, asked
  <1>11. new = [ round |-> round, limit |-> st.limit, dims |-> dims, questions |-> settled,
                 retired |-> st.retired, hash |-> st.hash, signoff |-> st.signoff, signedHash |-> st.signedHash ]
    <2>1. counted = [ round |-> round, limit |-> st.limit, dims |-> st.dims, questions |-> st.questions,
                      retired |-> st.retired, hash |-> st.hash, signoff |-> st.signoff, signedHash |-> st.signedHash ]
      BY DEF ConvergeState
    <2> HIDE DEF counted
    <2>2. listed = [ round |-> round, limit |-> st.limit, dims |-> dims, questions |-> st.questions,
                     retired |-> st.retired, hash |-> st.hash, signoff |-> st.signoff, signedHash |-> st.signedHash ]
      BY <2>1
    <2> HIDE DEF listed
    <2> QED
      BY <1>10, <2>2
  <1>12. Answered(st) \subseteq asked
    BY DEF Answered, Preserved, asked
  <1>13. Answered(st) \subseteq settled
    BY <1>12, <1>8 DEF Answered
  <1>14. new \in ConvergeState
    BY <1>1, <1>2, <1>8, <1>9, <1>11 DEF ConvergeState
  <1>15. Numbered(new)
    BY <1>7, <1>8, <1>11 DEF Numbered
  <1> QED
    BY <1>11, <1>13, <1>14, <1>15 DEF new

-----------------------------------------------------------------------------
(* Types.  A pass that waits for its reviewers has a round left.           *)

Passes == [at : {"idle", "review", "apply", "rehash", "judge"}, st : ConvergeState,
           prior : Listings, list : SUBSET Dims]

TypeInv == TypeOK /\ (pass.at = "review" => pass.st.round < MaxRound)

LEMMA ReadType == TypeOK => ReadState \in ConvergeState /\ Numbered(ReadState)
  BY FreshType DEF TypeOK, ReadState

LEMMA IdleType == Idle \in Passes /\ Numbered(Idle.st) /\ Idle.at = "idle"
  BY FreshType DEF Idle, Passes

LEMMA TypeInit == Init => TypeInv
  <1>1. NoRoadmap \in Roadmap
    BY FreshType DEF Fresh, ConvergeState
  <1> QED
    BY <1>1, IdleType DEF Init, TypeInv, TypeOK, Passes

(* What an edit of one field of a state leaves well typed. *)
LEMMA FieldType ==
  ASSUME NEW st \in ConvergeState, Numbered(st)
  PROVE  /\ \A r \in Roadmap : /\ [st EXCEPT !.hash = r] \in ConvergeState
                               /\ Numbered([st EXCEPT !.hash = r])
                               /\ [st EXCEPT !.signedHash = r] \in ConvergeState
                               /\ Numbered([st EXCEPT !.signedHash = r])
         /\ \A n \in 1..5 : [st EXCEPT !.limit = n] \in ConvergeState /\ Numbered([st EXCEPT !.limit = n])
         /\ \A g \in {"not-eligible", "eligible", "signed-off"} :
               [st EXCEPT !.signoff = g] \in ConvergeState /\ Numbered([st EXCEPT !.signoff = g])
  BY DEF ConvergeState, Numbered

LEMMA TypeStep == TypeInv /\ [Next]_vars => TypeInv'
  <1> SUFFICES ASSUME TypeInv, [Next]_vars
               PROVE  TypeInv'
    OBVIOUS
  <1>a. /\ disk \in ConvergeState \cup {NoState} /\ (disk # NoState => Numbered(disk))
        /\ roadmap \in Roadmap /\ pass \in Passes /\ Numbered(pass.st)
        /\ prompt \in [st : ConvergeState] \cup {NoPrompt} /\ (prompt # NoPrompt => Numbered(prompt.st))
        /\ exit \in {"none", "ok", "stalled", "pass-cap", "no-envelope", "crashed"}
        /\ pass.st \in ConvergeState /\ pass.prior \in Listings /\ pass.list \subseteq Dims
    BY DEF TypeInv, TypeOK, Passes
  <1>0. ASSUME disk' \in ConvergeState \cup {NoState}, disk' # NoState => Numbered(disk'),
               roadmap' \in Roadmap, pass' \in Passes, Numbered(pass'.st),
               pass'.at = "review" => pass'.st.round < MaxRound,
               prompt' \in [st : ConvergeState] \cup {NoPrompt}, prompt' # NoPrompt => Numbered(prompt'.st),
               exit' \in {"none", "ok", "stalled", "pass-cap", "no-envelope", "crashed"}
        PROVE  TypeInv'
    BY <1>0 DEF TypeInv, TypeOK, Passes, Numbered
  <1>b. ASSUME NEW at \in {"idle", "apply", "rehash", "judge"}
        PROVE  /\ [pass EXCEPT !.at = at] \in Passes /\ [pass EXCEPT !.at = at].st = pass.st
               /\ [pass EXCEPT !.at = at].at = at
    BY <1>a DEF Passes
  <1>1. ASSUME NEW list \in DimensionLists, NEW limit \in PassLimits, Begin(list, limit)
        PROVE  TypeInv'
    <2> DEFINE limited == [ReadState EXCEPT !.limit = limit]
               st == [limited EXCEPT !.hash = roadmap]
    <2>1. limited \in ConvergeState /\ Numbered(limited) /\ limited.round = ReadState.round
      BY <1>a, ReadType, FieldType DEF TypeInv, ConvergeState
    <2>2. pass' = [at |-> "review", list |-> list, prior |-> ReadState.dims, st |-> st]
      BY <1>1, Zenon DEF Begin
    <2>3. ReadState.round < MaxRound
      BY <1>1 DEF Begin
    <2> HIDE DEF limited
    <2>4. st \in ConvergeState /\ Numbered(st) /\ st.round = limited.round
      BY <1>a, <2>1, FieldType DEF ConvergeState
    <2> HIDE DEF st
    <2>5. ReadState.dims \in Listings /\ list \subseteq Dims
      BY ReadType DEF TypeInv, ConvergeState
    <2>6. pass' \in Passes /\ Numbered(pass'.st) /\ pass'.st.round < MaxRound
      BY <2>1, <2>2, <2>3, <2>4, <2>5 DEF Passes
    <2> QED
      BY <1>0, <1>1, <1>a, <2>6 DEF Begin
  <1>2. ASSUME NEW out \in [pass.list -> Outcome], Publish(out)
        PROVE  TypeInv'
    <2> DEFINE st == Merge(pass.st, pass.prior, out)
               at == IF st.questions = Open(st) THEN "judge" ELSE "apply"
    <2>1. st \in ConvergeState /\ Numbered(st)
      BY <1>2, <1>a, MergeType DEF TypeInv, Publish
    <2>2. disk' = st /\ pass' = [[pass EXCEPT !.st = st] EXCEPT !.at = at]
      BY <1>2, Zenon DEF Publish
    <2>3. at \in {"judge", "apply"}
      OBVIOUS
    <2> HIDE DEF st, at
    <2>4. [pass EXCEPT !.st = st] \in Passes /\ [pass EXCEPT !.st = st].st = st
      BY <1>a, <2>1 DEF Passes
    <2>5. pass' \in Passes /\ pass'.st = st /\ pass'.at = at
      BY <2>2, <2>3, <2>4 DEF Passes
    <2> QED
      BY <1>0, <1>2, <1>a, <2>1, <2>2, <2>3, <2>5 DEF Publish
  <1>3. CASE Integrate
    <2>1. roadmap.notes \in [QuestionId -> Nat]
      BY <1>a DEF Roadmap
    <2>2. roadmap' \in Roadmap
      BY <1>3, <1>a, <2>1 DEF Integrate, Roadmap
    <2> QED
      BY <1>0, <1>3, <1>a, <1>b, <2>2 DEF Integrate
  <1>4. CASE Rehash
    <2> DEFINE st == [pass.st EXCEPT !.hash = roadmap]
    <2>1. st \in ConvergeState /\ Numbered(st)
      BY <1>a, FieldType
    <2>2. disk' = st /\ pass' = [[pass EXCEPT !.st = st] EXCEPT !.at = "judge"]
      BY <1>4, Zenon DEF Rehash
    <2> HIDE DEF st
    <2>3. [pass EXCEPT !.st = st] \in Passes /\ [pass EXCEPT !.st = st].st = st
      BY <1>a, <2>1 DEF Passes
    <2>4. pass' \in Passes /\ pass'.st = st /\ pass'.at = "judge"
      BY <2>2, <2>3 DEF Passes
    <2> QED
      BY <1>0, <1>4, <1>a, <2>1, <2>2, <2>4 DEF Rehash
  <1>5. CASE IntegratorFails \/ Crash
    BY <1>0, <1>5, <1>a, IdleType DEF IntegratorFails, Crash, Return
  <1>6. CASE HaltStalled \/ HaltAtCap
    BY <1>0, <1>6, <1>a, IdleType DEF HaltStalled, HaltAtCap, Return
  <1>7. CASE Complete
    <2>1. Eligibility(pass.st) \in {"not-eligible", "eligible", "signed-off"}
      BY DEF Eligibility
    <2>2. [pass.st EXCEPT !.signoff = Eligibility(pass.st)] \in ConvergeState
          /\ Numbered([pass.st EXCEPT !.signoff = Eligibility(pass.st)])
      BY <1>a, <2>1, FieldType
    <2> QED
      BY <1>0, <1>7, <1>a, <2>2, IdleType DEF Complete, Return
  <1>8. CASE EditRoadmap
    <2>1. roadmap' \in Roadmap
      BY <1>8, <1>a DEF EditRoadmap, Roadmap
    <2> QED
      BY <1>0, <1>8, <1>a, <2>1 DEF EditRoadmap, TypeInv
  <1>9. CASE Answer
    <2>1. PICK q \in Open(disk) : disk' = [disk EXCEPT !.questions = (disk.questions \ {q}) \cup {[q EXCEPT !.res = "answered"]}]
      BY <1>9 DEF Answer
    <2>2. disk \in ConvergeState /\ Numbered(disk) /\ q \in disk.questions /\ q \in Question
      BY <1>9, <1>a DEF Answer, Open, ConvergeState
    <2> DEFINE new == [q EXCEPT !.res = "answered"]
    <2>3. new \in Question /\ new.id = q.id
      BY <2>2 DEF Question, Resolution
    <2> HIDE DEF new
    <2> DEFINE asked == (disk.questions \ {q}) \cup {new}
    <2>4. /\ asked \subseteq Question
          /\ \A a, b \in asked : a.id = b.id => a = b
          /\ \A a \in asked : a.id[2] <= disk.round
      BY <2>2, <2>3 DEF ConvergeState, Numbered
    <2>5. disk' = [disk EXCEPT !.questions = asked]
      BY <2>1 DEF new
    <2> HIDE DEF asked
    <2>6. disk' \in ConvergeState /\ Numbered(disk')
      BY <2>2, <2>4, <2>5 DEF ConvergeState, Numbered
    <2> QED
      BY <1>0, <1>9, <1>a, <2>6 DEF Answer, TypeInv
  <1>10. CASE Retire
    <2>1. disk' \in ConvergeState /\ Numbered(disk')
      BY <1>10, <1>a DEF Retire, ConvergeState, Numbered
    <2> QED
      BY <1>0, <1>10, <1>a, <2>1 DEF Retire, TypeInv
  <1>11. CASE Ask
    BY <1>0, <1>11, <1>a DEF Ask, TypeInv
  <1>12. CASE Consent
    <2> DEFINE signed == [prompt.st EXCEPT !.signoff = "signed-off"]
    <2>1. signed \in ConvergeState /\ Numbered(signed)
      BY <1>12, <1>a, FieldType DEF Consent
    <2>2. disk' = [signed EXCEPT !.signedHash = roadmap]
      BY <1>12, Zenon DEF Consent
    <2> HIDE DEF signed
    <2>3. disk' \in ConvergeState /\ Numbered(disk')
      BY <1>a, <2>1, <2>2, FieldType
    <2> QED
      BY <1>0, <1>12, <1>a, <2>3 DEF Consent, TypeInv
  <1>13. CASE Decline
    BY <1>0, <1>13, <1>a DEF Decline, TypeInv
  <1>14. CASE UNCHANGED vars
    BY <1>0, <1>14, <1>a DEF vars, TypeInv
  <1> QED
    BY <1>1, <1>2, <1>3, <1>4, <1>5, <1>6, <1>7, <1>8, <1>9, <1>10, <1>11, <1>12, <1>13, <1>14
       DEF Next, Proceed

(* Every record the loop writes or remembers is well typed, and a question   *)
(* is never listed twice, also when users and sign-offs act during a pass.   *)
THEOREM ConvergeTypeCorrect == Spec => []TypeOK
  <1>1. TypeInv => TypeOK
    BY DEF TypeInv
  <1> QED
    BY <1>1, TypeInit, TypeStep, PTL DEF Spec

-----------------------------------------------------------------------------
(* Eligibility.  Users may act at any time here.                           *)

EligibleInv ==
    (PassIdle /\ exit = "ok") => disk # NoState /\ (disk.signoff = "eligible" => Converged(disk))

LEMMA EligibleStep == TypeInv /\ EligibleInv /\ [Next]_vars => EligibleInv'
  <1> SUFFICES ASSUME TypeInv, EligibleInv, [Next]_vars, PassIdle', exit' = "ok"
               PROVE  disk' # NoState /\ (disk'.signoff = "eligible" => Converged(disk)')
    BY DEF EligibleInv
  <1> USE DEF PassIdle
  <1>a. disk \in ConvergeState \cup {NoState} /\ pass.st \in ConvergeState /\ pass \in Passes
        /\ (prompt # NoPrompt => prompt.st \in ConvergeState)
    BY DEF TypeInv, TypeOK, Passes
  <1>1. ASSUME NEW list \in DimensionLists, NEW limit \in PassLimits, Begin(list, limit)
        PROVE  FALSE
    BY <1>1 DEF Begin
  <1>2. ASSUME NEW out \in [pass.list -> Outcome], Publish(out)
        PROVE  FALSE
    <2> DEFINE st == Merge(pass.st, pass.prior, out)
    <2>1. pass' = [[pass EXCEPT !.st = st] EXCEPT !.at = IF st.questions = Open(st) THEN "judge" ELSE "apply"]
      BY <1>2, Zenon DEF Publish
    <2> HIDE DEF st
    <2>2. pass'.at \in {"judge", "apply"}
      BY <1>a, <2>1 DEF Passes
    <2> QED
      BY <2>2
  <1>3. ASSUME Integrate \/ Rehash
        PROVE  FALSE
    <2>1. CASE Integrate
      BY <1>a, <2>1 DEF Integrate, Passes
    <2>2. CASE Rehash
      <3> DEFINE st == [pass.st EXCEPT !.hash = roadmap]
      <3>1. pass' = [[pass EXCEPT !.st = st] EXCEPT !.at = "judge"]
        BY <2>2, Zenon DEF Rehash
      <3> HIDE DEF st
      <3> QED
        BY <1>a, <3>1 DEF Passes
    <2> QED
      BY <1>3, <2>1, <2>2
  <1>4. CASE IntegratorFails \/ HaltStalled \/ HaltAtCap \/ Crash
    BY <1>4 DEF IntegratorFails, HaltStalled, HaltAtCap, Crash, Return
  <1>5. CASE Complete
    <2>1. disk' = [pass.st EXCEPT !.signoff = Eligibility(pass.st)]
      BY <1>5 DEF Complete
    <2>2. /\ disk'.signoff = Eligibility(pass.st) /\ disk'.dims = pass.st.dims
          /\ disk'.questions = pass.st.questions /\ disk' \in ConvergeState
      BY <1>a, <2>1 DEF ConvergeState, Eligibility
    <2>3. disk'.signoff = "eligible" => Converged(pass.st)
      BY <2>2 DEF Eligibility
    <2> QED
      BY <2>2, <2>3, AbsenceAssumption DEF Converged, NonGreen, Open
  <1>6. CASE EditRoadmap \/ Ask \/ Decline \/ UNCHANGED vars
    BY <1>6 DEF EditRoadmap, Ask, Decline, vars, EligibleInv, Converged, NonGreen, Open
  <1>7. CASE Answer
    <2>1. PICK q \in Open(disk) : disk' = [disk EXCEPT !.questions = (disk.questions \ {q}) \cup {[q EXCEPT !.res = "answered"]}]
      BY <1>7 DEF Answer
    <2>2. disk \in ConvergeState /\ q \in Question
      BY <1>7, <1>a DEF Answer, Open, ConvergeState
    <2>3. [q EXCEPT !.res = "answered"] \in Question /\ [q EXCEPT !.res = "answered"].res # "open"
      BY <2>2 DEF Question, Resolution
    <2>4. /\ disk' \in ConvergeState /\ disk'.signoff = disk.signoff /\ disk'.dims = disk.dims
          /\ disk'.questions = (disk.questions \ {q}) \cup {[q EXCEPT !.res = "answered"]}
      BY <2>1, <2>2, <2>3 DEF ConvergeState
    <2>5. EligibleInv /\ pass.at = "idle" /\ exit = "ok"
      BY <1>7 DEF Answer
    <2> QED
      BY <2>3, <2>4, <2>5, AbsenceAssumption DEF EligibleInv, Converged, NonGreen, Open
  <1>8. CASE Retire
    <2>1. /\ disk' \in ConvergeState /\ disk'.signoff = disk.signoff /\ disk'.dims = disk.dims
          /\ disk'.questions = disk.questions
      BY <1>8, <1>a DEF Retire, ConvergeState
    <2>2. EligibleInv /\ pass.at = "idle" /\ exit = "ok"
      BY <1>8 DEF Retire
    <2> QED
      BY <2>1, <2>2, AbsenceAssumption DEF EligibleInv, Converged, NonGreen, Open
  <1>9. CASE Consent
    <2> DEFINE signed == [prompt.st EXCEPT !.signoff = "signed-off"]
    <2>1. disk' = [signed EXCEPT !.signedHash = roadmap]
      BY <1>9, Zenon DEF Consent
    <2>2. signed \in ConvergeState /\ signed.signoff = "signed-off" /\ roadmap \in Roadmap
      BY <1>9, <1>a DEF Consent, ConvergeState, TypeInv, TypeOK
    <2> HIDE DEF signed
    <2>3. disk' \in ConvergeState /\ disk'.signoff = "signed-off"
      BY <2>1, <2>2 DEF ConvergeState
    <2> QED
      BY <2>3, AbsenceAssumption
  <1> QED
    BY <1>1, <1>2, <1>3, <1>4, <1>5, <1>6, <1>7, <1>8, <1>9 DEF Next, Proceed

(* After a completed pass "eligible" is the truth, for any number of          *)
(* dimensions and users who answer, retire, edit and sign off at any time.    *)
THEOREM EligibleIsTrue == Spec => []EligibleMeansConverged
  <1>1. Init => EligibleInv
    BY DEF Init, EligibleInv
  <1>2. EligibleInv => EligibleMeansConverged
    BY DEF EligibleInv, EligibleMeansConverged
  <1> QED
    BY <1>1, <1>2, TypeInit, TypeStep, EligibleStep, PTL DEF Spec

-----------------------------------------------------------------------------
(* With users who act only while nothing runs: what a pass has in memory   *)
(* is what state.toon holds, and its hash is that of the blocks.           *)

Recorded(id) == disk # NoState /\ [id |-> id, res |-> "answered"] \in disk.questions

QuietInv ==
    /\ prompt # NoPrompt =>
          PassIdle /\ disk # NoState /\ prompt.st = disk /\ disk.signoff = "eligible"
    /\ pass.at = "review" =>
          /\ pass.st.questions = ReadState.questions
          /\ pass.st.signoff = ReadState.signoff
    /\ pass.at \in {"apply", "rehash", "judge"} => disk = pass.st
    /\ pass.at \in {"review", "judge"} => pass.st.hash.notes = roadmap.notes
    /\ (PassIdle /\ exit \in {"ok", "stalled", "pass-cap"}) =>
          disk # NoState /\ disk.hash.notes = roadmap.notes
    /\ \A id \in QuestionId : roadmap.notes[id] > 0 => Recorded(id)

(* What no step does, in a state where QuietInv holds: forget an answer, or  *)
(* move the sign-off state by a step that is not of the protocol.            *)
SignOff == IF disk = NoState THEN "not-eligible" ELSE disk.signoff

Keeps ==
    /\ disk # NoState => disk' # NoState /\ Answered(disk) \subseteq disk'.questions
    /\ \/ SignOff' = SignOff
       \/ SignOff = "not-eligible" /\ SignOff' = "eligible"
       \/ SignOff = "eligible" /\ SignOff' \in {"not-eligible", "signed-off"}

LEMMA QuietStep ==
  ASSUME Quiet, TypeInv, QuietInv, [Next]_vars
  PROVE  QuietInv' /\ Keeps
  <1> USE DEF PassIdle
  <1>a. /\ disk \in ConvergeState \cup {NoState} /\ roadmap \in Roadmap
        /\ pass \in Passes /\ pass.st \in ConvergeState /\ Numbered(pass.st)
        /\ pass.prior \in Listings /\ pass.list \subseteq Dims
        /\ prompt # NoPrompt => prompt.st \in ConvergeState /\ Numbered(prompt.st)
    BY DEF TypeInv, TypeOK, Passes
  <1>b. \A st \in ConvergeState : st # NoState
    BY AbsenceAssumption
  <1>c. disk # NoState => Numbered(disk)
    BY DEF TypeInv, TypeOK
  <1> DEFINE NotesAfter == \A id \in QuestionId : roadmap'.notes[id] > 0 => roadmap.notes[id] > 0 \/ Recorded(id)
             Rest ==
                /\ prompt' # NoPrompt =>
                      pass'.at = "idle" /\ disk' # NoState /\ prompt'.st = disk' /\ disk'.signoff = "eligible"
                /\ pass'.at = "review" =>
                      /\ pass'.st.questions = ReadState'.questions
                      /\ pass'.st.signoff = ReadState'.signoff
                /\ pass'.at \in {"apply", "rehash", "judge"} => disk' = pass'.st
                /\ pass'.at \in {"review", "judge"} => pass'.st.hash.notes = roadmap'.notes
                /\ (pass'.at = "idle" /\ exit' \in {"ok", "stalled", "pass-cap"}) =>
                      disk' # NoState /\ disk'.hash.notes = roadmap'.notes
  <1>0. ASSUME Keeps, NotesAfter, Rest
        PROVE  QuietInv' /\ Keeps
    <2>1. ASSUME NEW id \in QuestionId, Recorded(id)
          PROVE  Recorded(id)'
      BY <1>0, <2>1 DEF Recorded, Keeps, Answered
    <2>2. \A id \in QuestionId : roadmap'.notes[id] > 0 => Recorded(id)'
      BY <1>0, <2>1 DEF QuietInv
    <2> QED
      BY <1>0, <2>2 DEF QuietInv
  <1>d. roadmap' = roadmap => NotesAfter
    OBVIOUS
  <1>e. disk' = disk => Keeps
    BY DEF Keeps, SignOff, Answered
  <1>f. Idle.at = "idle"
    BY DEF Idle
  <1> HIDE DEF NotesAfter
  <1>1. ASSUME NEW list \in DimensionLists, NEW limit \in PassLimits, Begin(list, limit)
        PROVE  QuietInv' /\ Keeps
    <2> DEFINE limited == [ReadState EXCEPT !.limit = limit]
               st == [limited EXCEPT !.hash = roadmap]
    <2>1. limited \in ConvergeState /\ limited.questions = ReadState.questions /\ limited.signoff = ReadState.signoff
      BY ReadType, FieldType DEF TypeInv, ConvergeState
    <2>2. pass' = [at |-> "review", list |-> list, prior |-> ReadState.dims, st |-> st]
      BY <1>1, Zenon DEF Begin
    <2> HIDE DEF limited
    <2>3. st.questions = ReadState.questions /\ st.signoff = ReadState.signoff /\ st.hash = roadmap
      BY <2>1 DEF ConvergeState
    <2> HIDE DEF st
    <2>4. pass'.at = "review" /\ pass'.st = st
      BY <2>2
    <2>5. disk' = disk /\ roadmap' = roadmap /\ prompt' = NoPrompt /\ ReadState' = ReadState
      BY <1>1 DEF Begin, ReadState
    <2> QED
      BY <1>0, <1>d, <1>e, <2>3, <2>4, <2>5
  <1>2. ASSUME NEW out \in [pass.list -> Outcome], Publish(out)
        PROVE  QuietInv' /\ Keeps
    <2> DEFINE st == Merge(pass.st, pass.prior, out)
               at == IF st.questions = Open(st) THEN "judge" ELSE "apply"
    <2>1. /\ st \in ConvergeState /\ st.signoff = pass.st.signoff /\ st.hash = pass.st.hash
          /\ Answered(pass.st) \subseteq st.questions
      BY <1>2, <1>a, MergeType DEF TypeInv, Publish
    <2>2. disk' = st /\ pass' = [[pass EXCEPT !.st = st] EXCEPT !.at = at]
      BY <1>2, Zenon DEF Publish
    <2>3. at \in {"judge", "apply"}
      OBVIOUS
    <2> HIDE DEF st, at
    <2>4. [pass EXCEPT !.st = st] \in Passes /\ [pass EXCEPT !.st = st].st = st
      BY <1>a, <2>1 DEF Passes
    <2>5. pass'.st = st /\ pass'.at = at
      BY <2>2, <2>3, <2>4 DEF Passes
    <2>6. /\ pass.st.questions = ReadState.questions /\ pass.st.signoff = ReadState.signoff
          /\ pass.st.hash.notes = roadmap.notes /\ prompt = NoPrompt
      BY <1>2 DEF Publish, QuietInv
    <2>7. Keeps
      BY <1>b, <2>1, <2>2, <2>6 DEF Keeps, SignOff, Answered, ReadState, Fresh
    <2> QED
      BY <1>0, <1>2, <1>d, <2>1, <2>2, <2>3, <2>5, <2>6, <2>7 DEF Publish
  <1>3. CASE Integrate
    <2>1. disk = pass.st /\ disk' = disk /\ pass'.st = pass.st /\ pass'.at = "rehash" /\ prompt' = NoPrompt
      BY <1>3, <1>a DEF Integrate, Passes, QuietInv
    <2>2. roadmap.notes \in [QuestionId -> Nat]
      BY <1>a DEF Roadmap
    <2>3. \A id \in QuestionId : roadmap'.notes[id] = IF id \in Applicable(pass.st) THEN roadmap.notes[id] + 1 ELSE roadmap.notes[id]
      BY <1>3, <1>a, <2>2 DEF Integrate, Roadmap
    <2>4. ASSUME NEW id \in Applicable(pass.st)
          PROVE  Recorded(id)
      <3>1. PICK q \in Answered(pass.st) : q.id = id
        BY DEF Applicable
      <3>2. q \in Question /\ q.res = "answered"
        BY <1>a, <3>1 DEF Answered, ConvergeState
      <3>3. q = [id |-> id, res |-> "answered"]
        BY <3>1, <3>2 DEF Question
      <3> QED
        BY <1>a, <1>b, <2>1, <3>1, <3>3 DEF Recorded, Answered
    <2>5. NotesAfter
      BY <2>3, <2>4 DEF NotesAfter
    <2> QED
      BY <1>0, <1>e, <2>1, <2>5
  <1>4. CASE Rehash
    <2> DEFINE st == [pass.st EXCEPT !.hash = roadmap]
    <2>1. st \in ConvergeState /\ st.questions = pass.st.questions /\ st.signoff = pass.st.signoff /\ st.hash = roadmap
      BY <1>a, FieldType DEF ConvergeState
    <2>2. disk' = st /\ pass' = [[pass EXCEPT !.st = st] EXCEPT !.at = "judge"]
      BY <1>4, Zenon DEF Rehash
    <2> HIDE DEF st
    <2>3. [pass EXCEPT !.st = st] \in Passes /\ [pass EXCEPT !.st = st].st = st
      BY <1>a, <2>1 DEF Passes
    <2>4. pass'.st = st /\ pass'.at = "judge"
      BY <2>2, <2>3 DEF Passes
    <2>5. disk = pass.st /\ prompt' = NoPrompt /\ roadmap' = roadmap
      BY <1>4 DEF Rehash, QuietInv
    <2>6. disk' # NoState /\ disk # NoState
      BY <1>a, <1>b, <2>1, <2>2, <2>5
    <2>7. disk'.questions = disk.questions /\ disk'.signoff = disk.signoff
      BY <2>1, <2>2, <2>5
    <2>8. Keeps
      BY <2>6, <2>7 DEF Keeps, SignOff, Answered
    <2> QED
      BY <1>0, <1>d, <2>1, <2>2, <2>4, <2>5, <2>8
  <1>5. CASE IntegratorFails \/ Crash
    <2>1. disk' = disk /\ roadmap' = roadmap /\ pass'.at = "idle" /\ exit' \in {"no-envelope", "crashed"} /\ prompt' = NoPrompt
      BY <1>5, <1>f DEF IntegratorFails, Crash, Return, QuietInv
    <2> QED
      BY <1>0, <1>d, <1>e, <2>1
  <1>6. CASE HaltStalled \/ HaltAtCap
    <2>1. /\ disk' = pass.st /\ pass.st = disk /\ roadmap' = roadmap /\ pass'.at = "idle" /\ prompt' = NoPrompt
          /\ pass.st.hash.notes = roadmap.notes
      BY <1>6, <1>f DEF HaltStalled, HaltAtCap, Return, QuietInv
    <2> QED
      BY <1>0, <1>a, <1>b, <1>d, <1>e, <2>1
  <1>7. CASE Complete
    <2>1. /\ disk = pass.st /\ roadmap' = roadmap /\ pass'.at = "idle" /\ prompt' = NoPrompt
          /\ pass.st.hash.notes = roadmap.notes
          /\ disk' = [pass.st EXCEPT !.signoff = Eligibility(pass.st)]
      BY <1>7, <1>f DEF Complete, Return, QuietInv
    <2>2. /\ disk'.questions = disk.questions /\ disk'.hash = disk.hash /\ disk' \in ConvergeState
          /\ disk'.signoff = Eligibility(disk)
      BY <1>a, <2>1 DEF ConvergeState, Eligibility
    <2>3. disk \in ConvergeState /\ disk.signoff \in {"not-eligible", "eligible", "signed-off"}
      BY <1>a, <2>1 DEF ConvergeState
    <2>4. Keeps
      BY <1>b, <2>2, <2>3 DEF Keeps, SignOff, Answered, Eligibility
    <2> QED
      BY <1>0, <1>b, <1>d, <2>1, <2>2, <2>4
  <1>8. CASE EditRoadmap
    <2>1. /\ disk' = disk /\ pass' = pass /\ pass.at = "idle" /\ prompt' = NoPrompt /\ exit' = exit
          /\ prompt = NoPrompt
      BY <1>8 DEF EditRoadmap, Still
    <2>2. roadmap'.notes = roadmap.notes
      BY <1>8, <1>a DEF EditRoadmap, Roadmap
    <2>3. NotesAfter
      BY <2>2 DEF NotesAfter
    <2> QED
      BY <1>0, <1>e, <2>1, <2>2, <2>3 DEF QuietInv
  <1>9. CASE Answer
    <2>1. PICK q \in Open(disk) : disk' = [disk EXCEPT !.questions = (disk.questions \ {q}) \cup {[q EXCEPT !.res = "answered"]}]
      BY <1>9 DEF Answer
    <2>2. disk \in ConvergeState /\ q \in Question /\ q.res = "open"
      BY <1>9, <1>a DEF Answer, Open, ConvergeState
    <2>3. [q EXCEPT !.res = "answered"] \in Question
      BY <2>2 DEF Question, Resolution
    <2>4. /\ disk' \in ConvergeState /\ disk'.signoff = disk.signoff /\ disk'.hash = disk.hash
          /\ disk'.questions = (disk.questions \ {q}) \cup {[q EXCEPT !.res = "answered"]}
      BY <2>1, <2>2, <2>3 DEF ConvergeState
    <2>5. /\ roadmap' = roadmap /\ pass' = pass /\ exit' = exit /\ prompt' = NoPrompt /\ pass.at = "idle"
      BY <1>9 DEF Answer, Still
    <2>6. Keeps
      BY <1>b, <2>2, <2>4 DEF Keeps, SignOff, Answered
    <2> QED
      BY <1>0, <1>b, <1>d, <2>4, <2>5, <2>6 DEF QuietInv
  <1>10. CASE Retire
    <2>1. /\ disk' \in ConvergeState /\ disk'.signoff = disk.signoff /\ disk'.hash = disk.hash
          /\ disk'.questions = disk.questions
      BY <1>10, <1>a DEF Retire, ConvergeState
    <2>2. /\ roadmap' = roadmap /\ pass' = pass /\ exit' = exit /\ prompt' = NoPrompt /\ pass.at = "idle"
          /\ disk # NoState
      BY <1>10 DEF Retire, Still
    <2>3. Keeps
      BY <1>b, <2>1, <2>2 DEF Keeps, SignOff, Answered
    <2> QED
      BY <1>0, <1>b, <1>d, <2>1, <2>2, <2>3 DEF QuietInv
  <1>11. CASE Ask
    <2>1. /\ disk' = disk /\ roadmap' = roadmap /\ pass' = pass /\ exit' = exit /\ pass.at = "idle"
          /\ disk # NoState /\ disk.signoff = "eligible" /\ prompt'.st = disk
      BY <1>11 DEF Ask
    <2> QED
      BY <1>0, <1>d, <1>e, <2>1 DEF QuietInv
  <1>12. CASE Consent
    <2> DEFINE signed == [prompt.st EXCEPT !.signoff = "signed-off"]
    <2>1. signed \in ConvergeState /\ signed.signoff = "signed-off"
          /\ signed.questions = prompt.st.questions /\ signed.hash = prompt.st.hash
      BY <1>12, <1>a DEF Consent, ConvergeState
    <2>2. disk' = [signed EXCEPT !.signedHash = roadmap]
      BY <1>12, Zenon DEF Consent
    <2> HIDE DEF signed
    <2>3. /\ disk' \in ConvergeState /\ disk'.signoff = "signed-off"
          /\ disk'.questions = prompt.st.questions /\ disk'.hash = prompt.st.hash
      BY <1>a, <2>1, <2>2 DEF ConvergeState
    <2>4. /\ roadmap' = roadmap /\ pass' = pass /\ exit' = exit /\ prompt' = NoPrompt
          /\ prompt.st = disk /\ pass.at = "idle" /\ disk # NoState /\ disk.signoff = "eligible"
      BY <1>12 DEF Consent, QuietInv
    <2>5. Keeps
      BY <1>b, <2>3, <2>4 DEF Keeps, SignOff, Answered
    <2> QED
      BY <1>0, <1>b, <1>d, <2>3, <2>4, <2>5 DEF QuietInv
  <1>13. CASE Decline
    <2>1. disk' = disk /\ roadmap' = roadmap /\ pass' = pass /\ exit' = exit /\ prompt' = NoPrompt /\ pass.at = "idle"
      BY <1>13 DEF Decline, QuietInv
    <2> QED
      BY <1>0, <1>d, <1>e, <2>1 DEF QuietInv
  <1>14. CASE UNCHANGED vars
    BY <1>14, <1>0, <1>d, <1>e DEF vars, QuietInv, ReadState
  <1> QED
    BY <1>1, <1>2, <1>3, <1>4, <1>5, <1>6, <1>7, <1>8, <1>9, <1>10, <1>11, <1>12, <1>13, <1>14
       DEF Next, Proceed

LEMMA QuietInit == Init => QuietInv
  <1>1. Init => \A id \in QuestionId : roadmap.notes[id] = 0
    BY DEF Init, NoRoadmap
  <1> QED
    BY <1>1 DEF Init, QuietInv, PassIdle, Idle

LEMMA QuietInvariant ==
  ASSUME Quiet
  PROVE  Spec => [](TypeInv /\ QuietInv)
  <1>1. TypeInv /\ QuietInv /\ [Next]_vars => QuietInv'
    BY QuietStep
  <1> QED
    BY <1>1, QuietInit, TypeInit, TypeStep, PTL DEF Spec

(* With users who wait for the pass to end, every resolution block in the    *)
(* roadmap has its answer recorded, whenever a pass is killed.               *)
THEOREM BlocksAreRecorded ==
  ASSUME Quiet
  PROVE  Spec => []NotesAreAnswered
  <1>1. QuietInv => NotesAreAnswered
    BY DEF QuietInv, Recorded, NotesAreAnswered
  <1> QED
    BY <1>1, QuietInvariant, PTL

(* A pass that was judged leaves the hash of the blocks it inserted.         *)
THEOREM HashCoversOwnEdits ==
  ASSUME Quiet
  PROVE  Spec => []OwnEditsDontInvalidate
  <1>1. QuietInv => OwnEditsDontInvalidate
    BY DEF QuietInv, OwnEditsDontInvalidate
  <1> QED
    BY <1>1, QuietInvariant, PTL

(* No pass, sign-off or crash loses or reopens an answer that state.toon has. *)
THEOREM AnswersSurvive ==
  ASSUME Quiet
  PROVE  Spec => AnswersAreKept
  <1>1. TypeInv /\ QuietInv /\ [Next]_vars => [disk # NoState => Answered(disk) \subseteq disk'.questions]_vars
    BY QuietStep DEF Keeps
  <1> QED
    BY <1>1, QuietInvariant, PTL DEF Spec, AnswersAreKept

(* Nothing is inserted for a dimension that state.toon lists as retired.     *)
THEOREM RetiredGetNoBlocks ==
  ASSUME Quiet
  PROVE  Spec => RetiredIsNotApplied
  <1> DEFINE Applied == \A id \in QuestionId : roadmap'.notes[id] > roadmap.notes[id] => id[1] \notin disk.retired
  <1>1. ASSUME TypeInv, QuietInv, [Next]_vars
        PROVE  Applied
    <2>1. roadmap \in Roadmap /\ roadmap.notes \in [QuestionId -> Nat]
      BY <1>1 DEF TypeInv, TypeOK, Roadmap
    <2>2. CASE Integrate
      <3>1. \A id \in QuestionId : roadmap'.notes[id] = IF id \in Applicable(pass.st) THEN roadmap.notes[id] + 1 ELSE roadmap.notes[id]
        BY <2>1, <2>2 DEF Integrate, Roadmap
      <3>2. \A id \in Applicable(pass.st) : id[1] \notin pass.st.retired
        BY DEF Applicable, DimOf
      <3>3. pass.st = disk
        BY <1>1, <2>2 DEF Integrate, QuietInv
      <3> QED
        BY <2>1, <3>1, <3>2, <3>3
    <2>3. CASE EditRoadmap
      BY <2>1, <2>3 DEF EditRoadmap, Roadmap
    <2>4. CASE roadmap' = roadmap
      BY <2>1, <2>4
    <2>5. Integrate \/ EditRoadmap \/ roadmap' = roadmap
      BY <1>1 DEF Next, Proceed, vars, Begin, Publish, Rehash, IntegratorFails, HaltStalled, HaltAtCap, Complete,
                  Crash, Answer, Retire, Ask, Consent, Decline
    <2> QED
      BY <2>2, <2>3, <2>4, <2>5
  <1>2. TypeInv /\ QuietInv /\ [Next]_vars => [Applied]_vars
    BY <1>1
  <1> QED
    BY <1>2, QuietInvariant, PTL DEF Spec, RetiredIsNotApplied

(* The sign-off state that a reader of state.toon sees is granted and revoked *)
(* by passes and given consent only when it is eligible: the abstract         *)
(* protocol, step by step.                                                    *)
THEOREM SignOffRefines ==
  ASSUME Quiet
  PROVE  Spec => ImplementsProtocol
  <1>1. Init => Protocol!Init
    BY DEF Init, Protocol!Init
  <1>2. TypeInv /\ QuietInv /\ [Next]_vars => [Protocol!Next]_(IF disk = NoState THEN "not-eligible" ELSE disk.signoff)
    BY QuietStep DEF Keeps, SignOff, Protocol!Next, Protocol!Grant, Protocol!Revoke, Protocol!Consent
  <1> QED
    BY <1>1, <1>2, QuietInvariant, PTL DEF Spec, ImplementsProtocol, Protocol!Spec
=============================================================================
