---------------------------- MODULE CommitProofs ----------------------------
(***************************************************************************)
(* For every set of clients, every script and every initial table: a       *)
(* published version is never replaced, and a client never tries again for *)
(* a version that is taken.                                                *)
(***************************************************************************)
EXTENDS CommitProperties, SequenceTheorems, TLAPS

(* Where an attempt that ended leaves its client: nowhere near publishing, *)
(* and without a version read or targeted.                                 *)
Rested == {"idle", "reindex", "open", "high", "read"}
Ended(c) ==
    /\ \E p \in Rested : pc' = [pc EXCEPT ![c] = p]
    /\ read' = [read EXCEPT ![c] = 0]
    /\ target' = [target EXCEPT ![c] = 0]
    /\ call' = call \/ call' = [call EXCEPT ![c] = NoCall]
    /\ step' = step

(* What a client's place says of the versions it has read and is to write. *)
Placed(c) ==
    /\ step[c] \in Nat
    /\ call[c].read \in 0..Latest
    /\ read[c] \in 0..Latest
    /\ target[c] \in 0..(Latest + 1)
    /\ pc[c] \notin {"publish", "prior"} => target[c] <= Latest

IsLog == \E S : versions \in Seq(S)
ControlInv ==
    /\ IsLog
    /\ Latest \in Nat \ {0}
    /\ DOMAIN pc = Clients /\ DOMAIN read = Clients /\ DOMAIN target = Clients /\ DOMAIN call = Clients /\ DOMAIN step = Clients
    /\ \A c \in Clients : Placed(c)

-----------------------------------------------------------------------------
LEMMA LogGrows ==
  ASSUME NEW S, NEW s \in Seq(S), NEW x
  PROVE  /\ Append(s, x) \in Seq(S \cup {x})
         /\ Len(Append(s, x)) = Len(s) + 1
         /\ \A i \in 1..Len(s) : Append(s, x)[i] = s[i]
         /\ DOMAIN s = 1..Len(s) /\ DOMAIN Append(s, x) = 1..(Len(s) + 1)
<1>1. s \in Seq(S \cup {x})
  OBVIOUS
<1> QED
  BY <1>1, AppendProperties

LEMMA ForgetEnds ==
  ASSUME NEW c, NEW kept, NEW p \in Rested, Forget(c, kept), pc' = [pc EXCEPT ![c] = p],
         call' = call \/ call' = [call EXCEPT ![c] = NoCall], step' = step
  PROVE  Ended(c)
BY Zenon DEF Ended, Forget

LEMMA ReturnEnds ==
  ASSUME NEW c, NEW r, Return(c, r)
  PROVE  Ended(c)
BY DEF Return, Ended, Forget, Rested

LEMMA ReindexEnds ==
  ASSUME NEW c, NEW kept, Reindex(c, kept)
  PROVE  Ended(c)
BY DEF Reindex, Ended, Forget, Rested, callVars

LEMMA NextReindexEnds ==
  ASSUME NEW c, NextReindex(c)
  PROVE  Ended(c)
BY ReturnEnds, ReindexEnds DEF NextReindex

LEMMA FailEnds ==
  ASSUME NEW c, Fail(c)
  PROVE  Ended(c)
BY ReturnEnds, NextReindexEnds DEF Fail

LEMMA SucceedEnds ==
  ASSUME NEW c, Succeed(c)
  PROVE  Ended(c)
BY ReturnEnds, NextReindexEnds DEF Succeed

LEMMA FirstStepRested == \A op : FirstStep(op) \in Rested
BY DEF FirstStep, Rested

LEMMA ConflictEnds ==
  ASSUME NEW c, Conflict(c)
  PROVE  Ended(c)
<1>1. CASE call[c].op \in NotRetried \/ tries[c] + 1 >= Tries
  BY <1>1, FailEnds DEF Conflict
<1>2. CASE ~(call[c].op \in NotRetried \/ tries[c] + 1 >= Tries)
  BY <1>2, FirstStepRested DEF Conflict, Ended, Forget, callVars, Rested
<1> QED
  BY <1>1, <1>2

-----------------------------------------------------------------------------
(* A step of client c is a step of its own variables. *)
Local(c) ==
    /\ DOMAIN pc' = Clients /\ DOMAIN read' = Clients /\ DOMAIN target' = Clients
    /\ DOMAIN call' = Clients /\ DOMAIN step' = Clients
    /\ \A d \in Clients \ {c} : /\ pc'[d] = pc[d] /\ read'[d] = read[d] /\ target'[d] = target[d]
                                /\ call'[d] = call[d] /\ step'[d] = step[d]

LEMMA LocalStep ==
  ASSUME ControlInv, NEW c \in Clients, Local(c), Placed(c)',
         versions' = versions \/ \E x : versions' = Append(versions, x)
  PROVE  ControlInv'
<1>1. PICK S : versions \in Seq(S)
  BY DEF ControlInv, IsLog
<1>2. IsLog' /\ Latest' \in Nat \ {0} /\ Latest' >= Latest
  <2>1. CASE versions' = versions
    BY <2>1, <1>1 DEF ControlInv, IsLog, Latest
  <2>2. CASE \E x : versions' = Append(versions, x)
    <3>1. PICK x : versions' = Append(versions, x)
      BY <2>2
    <3>2. versions' \in Seq(S \cup {x}) /\ Len(versions') = Len(versions) + 1
      BY <1>1, <3>1, LogGrows
    <3> QED
      BY <3>2 DEF ControlInv, IsLog, Latest
  <2> QED
    BY <2>1, <2>2
<1>3. \A d \in Clients : Placed(d)'
  <2> SUFFICES ASSUME NEW d \in Clients, d # c PROVE Placed(d)'
    OBVIOUS
  <2>1. Placed(d) /\ Latest \in Nat
    BY DEF ControlInv
  <2>2. /\ pc'[d] = pc[d] /\ read'[d] = read[d] /\ target'[d] = target[d]
        /\ call'[d] = call[d] /\ step'[d] = step[d]
    BY DEF Local
  <2> QED
    BY <2>1, <2>2, <1>2 DEF Placed, Latest
<1> QED
  BY <1>2, <1>3 DEF ControlInv, Local

LEMMA EndedKeeps ==
  ASSUME ControlInv, NEW c \in Clients, Ended(c),
         versions' = versions \/ \E x : versions' = Append(versions, x)
  PROVE  ControlInv' /\ pc'[c] \in Rested
<1>1. Local(c) /\ pc'[c] \in Rested
  BY DEF Ended, Local, ControlInv
<1>2. Latest' \in Nat /\ Latest' >= Latest
  <2>1. PICK S : versions \in Seq(S)
    BY DEF ControlInv, IsLog
  <2> QED
    BY <2>1, LogGrows DEF ControlInv, Latest
<1>3. Placed(c)'
  <2>1. step'[c] \in Nat /\ read'[c] = 0 /\ target'[c] = 0
    BY DEF ControlInv, Placed, Ended
  <2>2. call'[c].read \in 0..Latest
    BY DEF ControlInv, Placed, Ended, NoCall
  <2> QED
    BY <2>1, <2>2, <1>1, <1>2 DEF Placed, ControlInv, Latest, Rested
<1> QED
  BY <1>1, <1>3, LocalStep

LEMMA ProposeKeeps ==
  ASSUME ControlInv, NEW c \in Clients, NEW v \in 0..Latest, NEW m, Propose(c, v, m), versions' = versions
  PROVE  ControlInv' /\ Local(c)
<1>1. Local(c)
  BY DEF Propose, Local, ControlInv, callVars
<1>2. Placed(c)'
  BY DEF Propose, Placed, ControlInv, callVars, Latest
<1> QED
  BY <1>1, <1>2, LocalStep

LEMMA NoteKeeps ==
  ASSUME ControlInv, NEW c \in Clients, NEW at, NEW kept, Note(c, at, kept), pc[c] \notin {"publish", "prior"},
         versions' = versions, read' = read \/ \E v \in 0..Latest : read' = [read EXCEPT ![c] = v]
  PROVE  ControlInv' /\ Local(c)
<1>1. Local(c)
  BY DEF Note, Local, ControlInv, callVars
<1>2. Placed(c)'
  BY DEF Note, Placed, ControlInv, callVars, Latest
<1> QED
  BY <1>1, <1>2, LocalStep

LEMMA ReadVersionExists ==
  ASSUME ControlInv, NEW c \in Clients
  PROVE  ReadVersion(c) \in 1..Latest
BY DEF ReadVersion, ControlInv, Placed

-----------------------------------------------------------------------------
(* One lemma per action, or per few of the same shape.  Each says also     *)
(* that a client that lost a version next tries for a later one.           *)
Newer(c) == pc[c] \in {"list", "rebase"} /\ pc'[c] \in {"prior", "publish"} => target'[c] > target[c]
Advances(c) == ControlInv' /\ Local(c) /\ Newer(c)

LEMMA BeginKeeps ==
  ASSUME ControlInv, NEW c \in Clients, Begin(c)
  PROVE  Advances(c) /\ versions' = versions
<1> USE DEF Begin
<1>1. Local(c) /\ versions' = versions /\ read' = read /\ target' = target
  BY DEF Local, ControlInv, attemptVars
<1>2. PICK k \in Script[c][step[c] + 1] : k.read <= Latest /\ call' = [call EXCEPT ![c] = k]
                                         /\ pc' = [pc EXCEPT ![c] = FirstStep(k.op)]
  BY Zenon
<1>3. k.read \in Nat
  <2>1. step[c] + 1 \in 1..Len(Script[c])
    BY ScriptAssumption DEF ControlInv, Placed
  <2> QED
    BY <2>1, ScriptAssumption
<1>4. Placed(c)'
  <2>1. step'[c] \in Nat /\ call'[c].read \in 0..Latest
    BY <1>2, <1>3 DEF ControlInv, Placed, Latest
  <2> QED
    BY Zenon, <1>1, <2>1 DEF ControlInv, Placed, Latest
<1> QED
  BY <1>1, <1>4, LocalStep DEF Advances, Newer

LEMMA EndedSteps ==
  ASSUME ControlInv, NEW c \in Clients, Ended(c),
         versions' = versions \/ \E x : versions' = Append(versions, x)
  PROVE  Advances(c)
<1>1. Local(c)
  BY DEF Ended, Local, ControlInv
<1> QED
  BY <1>1, EndedKeeps DEF Advances, Newer, Rested

LEMMA ReadKeeps ==
  ASSUME ControlInv, NEW c \in Clients, Read(c)
  PROVE  Advances(c) /\ versions' = versions
<1> DEFINE m == Loaded(versions[ReadVersion(c)])
           staged == call[c].op \in Staged /\ WrittenRows(m, call[c], Me(c)) # << >>
<1>0. versions' = versions /\ pc[c] = "read" /\ ReadVersion(c) \in 1..Latest
  BY ReadVersionExists DEF Read
<1>1. CASE Refused(m, call[c])
  BY <1>0, <1>1, FailEnds, EndedSteps DEF Read
<1>2. CASE ~Refused(m, call[c]) /\ staged
  BY <1>0, <1>2, NoteKeeps DEF Read, Advances, Newer, ControlInv
<1>3. CASE ~Refused(m, call[c]) /\ ~staged
  BY <1>0, <1>3, ProposeKeeps DEF Read, Advances, Newer
<1> QED
  BY <1>1, <1>2, <1>3

LEMMA StageKeeps ==
  ASSUME ControlInv, NEW c \in Clients, Stage(c)
  PROVE  Advances(c) /\ versions' = versions
<1>1. versions' = versions /\ pc[c] = "stage" /\ read[c] \in 0..Latest
  BY DEF Stage, ControlInv, Placed
<1>2. Fail(c) \/ \E m : Propose(c, read[c], m)
  BY DEF Stage
<1> QED
  BY <1>1, <1>2, FailEnds, EndedSteps, ProposeKeeps DEF Advances, Newer

LEMMA RestoreHighKeeps ==
  ASSUME ControlInv, NEW c \in Clients, RestoreHigh(c)
  PROVE  Advances(c) /\ versions' = versions
<1>1. versions' = versions /\ pc[c] = "high"
  BY DEF RestoreHigh
<1>2. Fail(c) \/ (read' = read /\ \E kept : Note(c, "base", kept))
  BY DEF RestoreHigh
<1> QED
  BY <1>1, <1>2, FailEnds, EndedSteps, NoteKeeps DEF Advances, Newer

LEMMA RestoreBaseKeeps ==
  ASSUME ControlInv, NEW c \in Clients, RestoreBase(c)
  PROVE  Advances(c) /\ versions' = versions
<1>1. versions' = versions /\ pc[c] = "base" /\ ReadVersion(c) \in 0..Latest
  BY ReadVersionExists DEF RestoreBase, ControlInv
<1>2. \E m : Propose(c, ReadVersion(c), m)
  BY DEF RestoreBase
<1> QED
  BY <1>1, <1>2, ProposeKeeps DEF Advances, Newer

LEMMA OptimizeKeeps ==
  ASSUME ControlInv, NEW c \in Clients, Optimize(c)
  PROVE  Advances(c) /\ versions' = versions
<1>1. versions' = versions /\ pc[c] \in {"reindex", "read"}
  BY DEF Optimize
<1>2. ReadVersion(c) \in 0..Latest /\ Latest \in 0..Latest
  BY ReadVersionExists DEF ControlInv
<1>3. Fail(c) \/ Succeed(c) \/ \E v \in 0..Latest : \E m : Propose(c, v, m)
  BY <1>2, Zenon DEF Optimize
<1> QED
  BY <1>1, <1>3, FailEnds, SucceedEnds, EndedSteps, ProposeKeeps DEF Advances, Newer

LEMMA OpenKeeps ==
  ASSUME ControlInv, NEW c \in Clients, Open(c)
  PROVE  Advances(c) /\ versions' = versions
<1>1. versions' = versions /\ pc[c] = "open"
  BY DEF Open
<1>2. Fail(c) \/ (read' = read /\ \E kept : Note(c, "list", kept))
  BY DEF Open
<1> QED
  BY <1>1, <1>2, FailEnds, EndedSteps, NoteKeeps DEF Advances, Newer

LEMMA ListKeeps ==
  ASSUME ControlInv, NEW c \in Clients, List(c)
  PROVE  Advances(c) /\ versions' = versions
<1>1. Local(c) /\ versions' = versions /\ pc'[c] = "prior"
  BY DEF List, Local, ControlInv, callVars
<1>2. Placed(c)' /\ Newer(c)
  BY DEF List, Placed, ControlInv, callVars, Latest, Newer
<1> QED
  BY <1>1, <1>2, LocalStep DEF Advances

LEMMA PriorKeeps ==
  ASSUME ControlInv, NEW c \in Clients, Prior(c)
  PROVE  Advances(c) /\ versions' = versions
<1>1. /\ pc[c] = "prior" /\ pc' = [pc EXCEPT ![c] = "publish"]
      /\ UNCHANGED <<versions, callVars, tries, attempts, read, target, ours, notes>>
  BY DEF Prior
<1>2. Local(c) /\ versions' = versions
  BY <1>1 DEF Local, ControlInv, callVars
<1>3. Placed(c)'
  BY <1>1 DEF Placed, ControlInv, callVars, Latest
<1> QED
  BY <1>1, <1>2, <1>3, LocalStep DEF Advances, Newer

LEMMA CompactPlanKeeps ==
  ASSUME ControlInv, NEW c \in Clients, CompactPlan(c)
  PROVE  Advances(c) /\ versions' = versions
<1>1. versions' = versions /\ pc[c] = "read" /\ ReadVersion(c) \in 0..Latest
  BY ReadVersionExists DEF CompactPlan, ControlInv
<1>2. Return(c, "committed") \/ \E kept : /\ Note(c, "execute", kept)
                                          /\ read' = [read EXCEPT ![c] = ReadVersion(c)]
  BY Zenon DEF CompactPlan
<1> QED
  BY <1>1, <1>2, ReturnEnds, EndedSteps, NoteKeeps DEF Advances, Newer

LEMMA CompactExecuteKeeps ==
  ASSUME ControlInv, NEW c \in Clients, CompactExecute(c)
  PROVE  Advances(c) /\ versions' = versions
<1>1. versions' = versions /\ pc[c] = "execute"
  BY DEF CompactExecute
<1>2. Fail(c) \/ (read' = read /\ \E kept : Note(c, "reserve", kept))
  BY DEF CompactExecute
<1> QED
  BY <1>1, <1>2, FailEnds, EndedSteps, NoteKeeps DEF Advances, Newer

LEMMA CompactReserveKeeps ==
  ASSUME ControlInv, NEW c \in Clients, CompactReserve(c)
  PROVE  Advances(c) /\ versions' = versions
<1>1. versions' = versions /\ pc[c] = "reserve" /\ read[c] \in 0..Latest
  BY DEF CompactReserve, ControlInv, Placed
<1>2. Conflict(c) \/ \E m : Propose(c, read[c], m)
  BY DEF CompactReserve
<1> QED
  BY <1>1, <1>2, ConflictEnds, EndedSteps, ProposeKeeps DEF Advances, Newer

LEMMA CompactRewriteKeeps ==
  ASSUME ControlInv, NEW c \in Clients, CompactRewrite(c)
  PROVE  Advances(c) /\ versions' = versions
<1>1. versions' = versions /\ pc[c] = "rewrite" /\ read[c] \in 0..Latest
  BY DEF CompactRewrite, ControlInv, Placed
<1>2. Conflict(c) \/ \E m : Propose(c, read[c], m)
  BY DEF CompactRewrite
<1> QED
  BY <1>1, <1>2, ConflictEnds, EndedSteps, ProposeKeeps DEF Advances, Newer

LEMMA PublishWinsKeeps ==
  ASSUME ControlInv, NEW c \in Clients, PublishWins(c)
  PROVE  Advances(c) /\ \E x : versions' = Append(versions, x)
<1>1. versions' = Append(versions, next[c]) /\ pc[c] = "publish" /\ target[c] = Latest + 1
  BY DEF PublishWins
<1>2. \/ Ended(c)
      \/ /\ read' = [read EXCEPT ![c] = target[c]]
         /\ Note(c, "rewrite", notes[c])
  BY SucceedEnds, ReindexEnds, ReturnEnds DEF PublishWins, Published
<1>3. CASE Ended(c)
  BY <1>1, <1>3, EndedSteps
<1>4. CASE read' = [read EXCEPT ![c] = target[c]] /\ Note(c, "rewrite", notes[c])
  <2>1. Local(c)
    BY <1>4 DEF Note, Local, ControlInv, callVars
  <2>2. Latest' = Latest + 1
    <3>1. PICK S : versions \in Seq(S)
      BY DEF ControlInv, IsLog
    <3> QED
      BY <3>1, <1>1, LogGrows DEF Latest
  <2>3. Placed(c)'
    BY <1>4, <1>1, <2>2 DEF Note, Placed, ControlInv, callVars, Latest
  <2> QED
    BY <1>1, <2>1, <2>3, LocalStep DEF Advances, Newer
<1> QED
  BY <1>2, <1>3, <1>4

LEMMA PublishLosesKeeps ==
  ASSUME ControlInv, NEW c \in Clients, PublishLoses(c)
  PROVE  Advances(c) /\ versions' = versions
<1>1. versions' = versions /\ pc[c] = "publish" /\ target[c] <= Latest
  BY DEF PublishLoses
<1>2. \/ Fail(c) \/ Conflict(c)
      \/ \E p \in {"list", "rebase"} : pc' = [pc EXCEPT ![c] = p] /\ UNCHANGED <<callVars, tries, attemptVars>>
  BY DEF PublishLoses
<1>3. CASE \E p \in {"list", "rebase"} : pc' = [pc EXCEPT ![c] = p] /\ UNCHANGED <<callVars, tries, attemptVars>>
  <2>1. Local(c)
    BY <1>3 DEF Local, ControlInv, callVars, attemptVars
  <2>2. Placed(c)'
    BY <1>3, <1>1 DEF Placed, ControlInv, callVars, attemptVars, Latest
  <2> QED
    BY <1>1, <2>1, <2>2, LocalStep DEF Advances, Newer
<1> QED
  BY <1>1, <1>2, <1>3, FailEnds, ConflictEnds, EndedSteps

LEMMA RebaseKeeps ==
  ASSUME ControlInv, NEW c \in Clients, Rebase(c)
  PROVE  Advances(c) /\ versions' = versions
<1>1. versions' = versions /\ pc[c] = "rebase"
  BY DEF Rebase
<1>2. \/ Fail(c) \/ Conflict(c)
      \/ /\ target' = [target EXCEPT ![c] = Latest + 1]
         /\ pc' = [pc EXCEPT ![c] = "publish"]
         /\ UNCHANGED <<callVars, tries, read, ours, notes>>
  BY DEF Rebase
<1>3. CASE /\ target' = [target EXCEPT ![c] = Latest + 1]
           /\ pc' = [pc EXCEPT ![c] = "publish"]
           /\ UNCHANGED <<callVars, tries, read, ours, notes>>
  <2>1. Local(c)
    BY <1>3 DEF Local, ControlInv, callVars
  <2>2. Placed(c)' /\ Newer(c)
    BY <1>3, <1>1 DEF Placed, ControlInv, callVars, Latest, Newer
  <2> QED
    BY <1>1, <2>1, <2>2, LocalStep DEF Advances
<1> QED
  BY <1>1, <1>2, <1>3, FailEnds, ConflictEnds, EndedSteps

-----------------------------------------------------------------------------
Grows == versions' = versions \/ \E x : versions' = Append(versions, x)

LEMMA StepAdvances ==
  ASSUME ControlInv, NEW c \in Clients, Step(c)
  PROVE  Advances(c) /\ Grows
BY BeginKeeps, ReadKeeps, StageKeeps, RestoreHighKeeps, RestoreBaseKeeps, OptimizeKeeps, OpenKeeps, ListKeeps,
   PriorKeeps, CompactPlanKeeps, CompactExecuteKeeps, CompactReserveKeeps, CompactRewriteKeeps,
   PublishWinsKeeps, PublishLosesKeeps, RebaseKeeps DEF Step, Grows

LEMMA ControlNext ==
  ASSUME ControlInv, [Next]_vars
  PROVE  ControlInv' /\ Grows /\ \A c \in Clients : Newer(c)
<1>1. CASE UNCHANGED vars
  <2>1. ControlInv'
    BY <1>1 DEF vars, ControlInv, IsLog, Latest, Placed
  <2> QED
    BY <1>1, <2>1 DEF vars, Grows, Newer
<1>2. ASSUME NEW c \in Clients, Step(c)
      PROVE  ControlInv' /\ Grows /\ \A d \in Clients : Newer(d)
  <2>1. Advances(c) /\ Grows
    BY <1>2, StepAdvances
  <2>2. ASSUME NEW d \in Clients \ {c} PROVE Newer(d)
    BY <2>1 DEF Advances, Local, Newer
  <2> QED
    BY <2>1, <2>2 DEF Advances
<1> QED
  BY <1>1, <1>2 DEF Next, Finished

LEMMA ControlInit == Init => ControlInv
<1> SUFFICES ASSUME Init PROVE ControlInv
  OBVIOUS
<1> USE DEF Init
<1>1. IsLog /\ Latest \in Nat \ {0}
  BY InitialAssumption DEF IsLog, Latest
<1>2. \A c \in Clients : Placed(c)
  BY <1>1 DEF Placed, NoCall
<1> QED
  BY <1>1, <1>2 DEF ControlInv

LEMMA ControlHolds == Spec => []ControlInv
BY ControlInit, ControlNext, PTL DEF Spec

(* No published version is ever replaced and no number is skipped, for any *)
(* number of clients and any calls they make: publish_manifest creates the *)
(* version after the one its caller saw as the last, or fails.             *)
THEOREM VersionsImmutableHolds == Spec => VersionsImmutable
<1>1. ASSUME ControlInv, [Next]_vars
      PROVE  [Len(versions') >= Len(versions) /\ \A v \in DOMAIN versions : versions'[v] = versions[v]]_versions
  <2>1. PICK S : versions \in Seq(S)
    BY <1>1 DEF ControlInv, IsLog
  <2>2. Grows
    BY <1>1, ControlNext
  <2>3. CASE versions' = versions
    BY <2>3
  <2>4. CASE \E x : versions' = Append(versions, x)
    <3>1. PICK x : versions' = Append(versions, x)
      BY <2>4
    <3> QED
      BY <2>1, <3>1, LogGrows
  <2> QED
    BY <2>2, <2>3, <2>4 DEF Grows
<1> QED
  BY <1>1, ControlHolds, PTL DEF Spec, VersionsImmutable

(* A client that lost a version next tries for a later one, for any number *)
(* of clients: commit_next_version and commit_dataset_version never contend*)
(* again for a version that exists, so each lost try is another client's   *)
(* commit.                                                                 *)
THEOREM EveryTryIsNewerHolds == Spec => EveryTryIsNewer
<1>1. ASSUME ControlInv, [Next]_vars
      PROVE  [\A c \in Clients : pc[c] \in {"list", "rebase"} /\ pc'[c] \in {"prior", "publish"}
                                    => target'[c] > target[c]]_vars
  BY <1>1, ControlNext DEF Newer
<1> QED
  BY <1>1, ControlHolds, PTL DEF Spec, EveryTryIsNewer
=============================================================================
