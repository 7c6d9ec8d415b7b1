------------------------ MODULE HandoverExportProofs ------------------------
(***************************************************************************)
(* Proofs about the export worker, for any number of exports, workers,     *)
(* tokens and faults: the leases exclude each other and retries are        *)
(* bounded; the worker implements the requester's view of an export        *)
(* (ExportLifecycle); an archive that is offered and has not expired stays *)
(* in the object store.                                                    *)
(***************************************************************************)
EXTENDS HandoverExport, TLAPS

\* The program counters the actions name are program counters.
LEMMA PcNames ==
    /\ \A p \in {"idle", "claim", "read", "start", "assemble", "publish",
                 "withdraw", "mark", "clean", "fail", "ticked", "sweepExpired",
                 "sweepHeld", "sweepRemove", "sweepNull", "sweepOrphans",
                 "sweepList"} : p \in Pcs
BY DEF Pcs, JobPcs, SweepPcs

WorkersHaveTokens == \A w \in Workers : Working(w) => token[w] \in Tokens

\* Every action keeps the types; a working worker has drawn a token.
LEMMA TypeStep == WorkersHaveTokens /\ TypeOK /\ [Next]_vars => TypeOK'
<1> SUFFICES ASSUME WorkersHaveTokens, TypeOK, [Next]_vars PROVE TypeOK'
    OBVIOUS
<1>a. ASSUME NEW w \in Workers, NEW p \in Pcs, Goto(w, p)
      PROVE  pc' \in [Workers -> Pcs]
  BY <1>a DEF Goto, TypeOK
<1>b. ASSUME NEW w \in Workers, ForgetRun(w)
      PROVE  /\ job' \in [Workers -> Exports]
             /\ token' \in [Workers -> TokenOrNull]
             /\ failures' \in [Workers -> Nat]
             /\ left' \in [Workers -> SUBSET Members]
             /\ cause' \in [Workers -> Causes]
  BY <1>b, ConstantsAssumption
     DEF ForgetRun, TypeOK, Exports, TokenOrNull, Causes
<1>c. ASSUME NEW e \in Exports, ReleaseLease(e)
      PROVE  /\ leaseToken' \in [Exports -> TokenOrNull]
             /\ lapsed' \in [Exports -> BOOLEAN]
  BY <1>c DEF ReleaseLease, TypeOK, TokenOrNull
<1>d. ASSUME Fault PROVE faults' \in 0..MaxFaults
  BY <1>d, ConstantsAssumption DEF Fault, TypeOK
<1> USE PcNames, <1>a, <1>b, <1>c, <1>d
    DEF TypeOK, WorkersHaveTokens, Working, JobPcs, rowVars, clockVars, runVars, workVars, TokenOrNull, Statuses, Claimable, Terminal,
        Causes, EndJob
<1>1. ASSUME NEW e \in Exports, CreateExport(e) PROVE TypeOK'
  BY <1>1 DEF CreateExport
<1>2. ASSUME NEW e \in Exports, RequestCancellation(e) PROVE TypeOK'
  BY <1>2 DEF RequestCancellation
<1>3. ASSUME NEW e \in Exports, LeaseLapses(e) PROVE TypeOK'
  BY <1>3 DEF LeaseLapses
<1>4. ASSUME NEW e \in Exports, BackoffEnds(e) PROVE TypeOK'
  BY <1>4 DEF BackoffEnds
<1>5. ASSUME NEW e \in Exports, Expires(e) PROVE TypeOK'
  BY <1>5 DEF Expires
<1>6. ASSUME NEW e \in Exports, Ages(e) PROVE TypeOK'
  BY <1>6 DEF Ages
<1>7. ASSUME NEW w \in Workers, FindNextExportJob(w) PROVE TypeOK'
  BY <1>7 DEF FindNextExportJob, Eligible
<1>8. ASSUME NEW w \in Workers, ClaimExport(w) PROVE TypeOK'
  BY <1>8 DEF ClaimExport
<1>9. ASSUME NEW w \in Workers, LoseClaim(w) PROVE TypeOK'
  BY <1>9 DEF LoseClaim
<1>10. ASSUME NEW w \in Workers, ReadRow(w) PROVE TypeOK'
  BY <1>10 DEF ReadRow
<1>11. ASSUME NEW w \in Workers, SetProcessing(w) PROVE TypeOK'
  BY <1>11 DEF SetProcessing
<1>12. ASSUME NEW w \in Workers, FencedOut(w) PROVE TypeOK'
  BY <1>12 DEF FencedOut
<1>13. ASSUME NEW w \in Workers, NEW m \in Members, NEW y \in BOOLEAN, ProcessMember(w, m, y) PROVE TypeOK'
  <2>1. left' \in [Workers -> SUBSET Members]
    BY <1>13 DEF ProcessMember
  <2>2. CASE y /\ ~Fenced(w)
    <3>1. cause' \in [Workers -> Causes]
      BY <1>13, <2>2 DEF ProcessMember, BreakOff
    <3>2. pc' \in [Workers -> Pcs]
      BY <1>13, <2>2 DEF ProcessMember, BreakOff
    <3>3. QED
      BY <1>13, <2>1, <2>2, <3>1, <3>2 DEF ProcessMember
  <2>3. CASE ~(y /\ ~Fenced(w))
    BY <1>13, <2>1, <2>3 DEF ProcessMember
  <2>4. QED
    BY <2>2, <2>3
<1>14. ASSUME NEW w \in Workers, FinishUpload(w) PROVE TypeOK'
  BY <1>14 DEF FinishUpload
<1>15. ASSUME NEW w \in Workers, PublishExport(w) PROVE TypeOK'
  BY <1>15 DEF PublishExport, Publish
<1>16. ASSUME NEW w \in Workers, PublishRejected(w) PROVE TypeOK'
  BY <1>16 DEF PublishRejected
<1>17. ASSUME NEW w \in Workers, WithdrawArchive(w) PROVE TypeOK'
  BY <1>17 DEF WithdrawArchive, RemoveQuietly
<1>18. ASSUME NEW w \in Workers, MarkMembersWritten(w) PROVE TypeOK'
  BY <1>18 DEF MarkMembersWritten
<1>19. ASSUME NEW w \in Workers, CleanUp(w) PROVE TypeOK'
  BY <1>19 DEF CleanUp, RemoveQuietly
<1>20. ASSUME NEW w \in Workers, FailExport(w) PROVE TypeOK'
  <2>1. CASE Fenced(w)
    <3>1. /\ status' \in [Exports -> Statuses]
          /\ failureCount' \in [Exports -> Nat]
          /\ backingOff' \in [Exports -> BOOLEAN]
      <4>1. \A s \in {"queued", "failed"} :
              [status EXCEPT ![job[w]] = s] \in [Exports -> Statuses]
        OBVIOUS
      <4>2. status' = [status EXCEPT ![job[w]] = IF Retryable(w) THEN "queued"
                                                                 ELSE "failed"]
        BY <1>20, <2>1 DEF FailExport
      <4>3. Retryable(w) \in BOOLEAN
        BY DEF Retryable
      <4>4. failureCount' \in [Exports -> Nat]
        <5>1. failureCount[job[w]] + 1 \in Nat
          OBVIOUS
        <5>2. failureCount' = [failureCount EXCEPT ![job[w]] = failureCount[job[w]] + 1]
          BY <1>20, <2>1 DEF FailExport
        <5>3. QED
          BY <5>1, <5>2
      <4>5. backingOff' \in [Exports -> BOOLEAN]
        BY <1>20, <2>1, <4>3 DEF FailExport
      <4>6. QED
        BY <4>1, <4>2, <4>4, <4>5
    <3>2. QED
      BY <1>20, <2>1, <3>1 DEF FailExport
  <2>2. CASE ~Fenced(w)
    BY <1>20, <2>2 DEF FailExport
  <2>3. QED
    BY <2>1, <2>2
<1>21. ASSUME NEW w \in Workers, EndTick(w) PROVE TypeOK'
  BY <1>21 DEF EndTick
<1>22. ASSUME NEW w \in Workers, NEW c \in {"error", "cap"}, AssemblyFails(w, c) PROVE TypeOK'
  BY <1>22 DEF AssemblyFails, BreakOff
<1>23. ASSUME NEW w \in Workers, PublishThrows(w) PROVE TypeOK'
  <2>1. CASE UNCHANGED rowVars
    BY <1>23, <2>1 DEF PublishThrows
  <2>2. CASE Publish(w)
    BY <1>23, <2>2 DEF PublishThrows, Publish
  <2>3. QED
    BY <1>23, <2>1, <2>2 DEF PublishThrows
<1>24. ASSUME NEW w \in Workers, MarkThrows(w) PROVE TypeOK'
  BY <1>24 DEF MarkThrows
<1>25. ASSUME NEW w \in Workers, Crash(w) PROVE TypeOK'
  BY <1>25 DEF Crash
<1>26. ASSUME NEW w \in Workers, StartSweep(w) PROVE TypeOK'
  BY <1>26 DEF StartSweep
<1>27. ASSUME NEW w \in Workers, ReadExpired(w) PROVE TypeOK'
  BY <1>27 DEF ReadExpired, Page, Pair
<1>28. ASSUME NEW w \in Workers, FilterHeld(w) PROVE TypeOK'
  BY <1>28 DEF FilterHeld
<1>29. ASSUME NEW w \in Workers, NEW b \in batch[w], RemoveExpired(w, b) PROVE TypeOK'
  <2>0. b[1] \in Exports
    OBVIOUS
  <2>1. /\ job' \in [Workers -> Exports]
        /\ batch' \in [Workers -> SUBSET (Exports \X TokenOrNull)]
    BY <1>29, <2>0 DEF RemoveExpired
  <2>2. /\ pc' \in [Workers -> Pcs]
        /\ objects' \subseteq Exports \X Tokens
        /\ faults' \in 0..MaxFaults
    BY <1>29 DEF RemoveExpired
  <2>3. QED
    BY <1>29, <2>1, <2>2 DEF RemoveExpired
<1>30. ASSUME NEW w \in Workers, ForgetArchive(w) PROVE TypeOK'
  BY <1>30 DEF ForgetArchive
<1>31. ASSUME NEW w \in Workers, ExpiredDone(w) PROVE TypeOK'
  BY <1>31 DEF ExpiredDone
<1>32. ASSUME NEW w \in Workers, ReadTerminal(w) PROVE TypeOK'
  BY <1>32 DEF ReadTerminal, Page, Pair
<1>33. ASSUME NEW w \in Workers, NEW b \in batch[w], RemoveOrphans(w, b) PROVE TypeOK'
  BY <1>33 DEF RemoveOrphans
<1>34. ASSUME NEW w \in Workers, SweepDone(w) PROVE TypeOK'
  BY <1>34 DEF SweepDone
<1>35. CASE UNCHANGED vars
  BY <1>35 DEF vars
<1>38. ASSUME NEW e \in Exports, NEW h \in BOOLEAN, SetHold(e, h) PROVE TypeOK'
  BY <1>38 DEF SetHold
<1>36. ASSUME NEW e \in Exports, RequestStep(e) \/ ClockStep(e) PROVE TypeOK'
  <2> HIDE DEF TypeOK, WorkersHaveTokens, rowVars, clockVars
  <2> QED BY <1>36, <1>38, <1>1, <1>2, <1>3, <1>4, <1>5, <1>6 DEF RequestStep, ClockStep
<1>37. ASSUME NEW w \in Workers, JobStep(w) \/ FailureStep(w) \/ SweepStep(w) PROVE TypeOK'
  <2> HIDE DEF TypeOK, WorkersHaveTokens, rowVars, clockVars
  <2> QED BY <1>37, <1>7, <1>8, <1>9, <1>10, <1>11, <1>12, <1>13, <1>14, <1>15, <1>16, <1>17, <1>18, <1>19, <1>20, <1>21, <1>22, <1>23, <1>24, <1>25, <1>26, <1>27, <1>28, <1>29, <1>30, <1>31, <1>32, <1>33, <1>34 DEF JobStep, FailureStep, SweepStep
<1> QED
  BY <1>35, <1>36, <1>37 DEF Next

\* A leased export is still open.
LeasedIsOpen ==
    \A e \in Exports : leaseToken[e] # NoToken => status[e] \in Claimable

\* No two runs share a token.
TokensDiffer ==
    \A v, w \in Workers :
        Working(v) /\ Working(w) /\ token[v] = token[w] => v = w

\* While a run still holds the lease, nobody else counted a failure.
FailuresCurrent ==
    \A w \in Workers :
        Working(w) /\ pc[w] # "read" /\ Fenced(w)
            => failures[w] = failureCount[job[w]]

\* A row that was never requested has no history.
Untouched == \A e \in Exports : status[e] = "none" => failureCount[e] = 0

LeaseInv == /\ Untouched
            /\ LeasedIsOpen
            /\ WorkersHaveTokens
            /\ TokensDiffer
            /\ FailuresCurrent
            /\ AttemptsBounded

\* What a step of one worker leaves alone, and what it does to its own run:
\* the run goes on under the same token, or it is over.
Kept(v) == /\ pc'[v] = pc[v]
           /\ job'[v] = job[v]
           /\ token'[v] = token[v]
           /\ failures'[v] = failures[v]

OthersKept(w) == \A v \in Workers \ {w} : Kept(v)

GoesOn(w) ==
    /\ OthersKept(w)
    /\ Working(w)' => /\ Working(w)
                      /\ pc[w] # "read" /\ pc'[w] # "read"
                      /\ job'[w] = job[w]
                      /\ token'[w] = token[w]
                      /\ failures'[w] = failures[w]

RowsKept == UNCHANGED <<status, leaseToken, failureCount>>

\* A run that moves on with its own token keeps tokens distinct.
LEMMA GoesOnTokens ==
    ASSUME NEW w \in Workers, LeaseInv, GoesOn(w)
    PROVE  WorkersHaveTokens' /\ TokensDiffer'
BY DEF LeaseInv, GoesOn, OthersKept, Kept, WorkersHaveTokens, TokensDiffer,
       Working

\* A run that moves on keeps the failure count it read, while it holds the lease.
LEMMA GoesOnFailures ==
    ASSUME NEW w \in Workers, LeaseInv, GoesOn(w),
           UNCHANGED <<leaseToken, failureCount>>
    PROVE  FailuresCurrent'
BY DEF LeaseInv, GoesOn, OthersKept, Kept, FailuresCurrent, Fenced, Working

\* A run that moves on without touching a row keeps the invariant.
LEMMA GoesOnKeeps ==
    ASSUME NEW w \in Workers, LeaseInv, GoesOn(w), RowsKept
    PROVE  LeaseInv'
BY GoesOnTokens, GoesOnFailures
   DEF LeaseInv, RowsKept, Untouched, LeasedIsOpen, AttemptsBounded

\* A run that breaks no rule of the lease: all but the steps that touch a row.
LEMMA QuietSteps ==
    ASSUME TypeOK, NEW w \in Workers, 
           \/ FindNextExportJob(w) \/ LoseClaim(w) \/ FencedOut(w)
           \/ \E m \in Members, y \in BOOLEAN : ProcessMember(w, m, y)
           \/ FinishUpload(w) \/ PublishRejected(w) \/ WithdrawArchive(w)
           \/ MarkMembersWritten(w) \/ CleanUp(w) \/ EndTick(w)
           \/ \E c \in {"error", "cap"} : AssemblyFails(w, c)
           \/ MarkThrows(w) \/ Crash(w) \/ SweepStep(w)
    PROVE  GoesOn(w) /\ RowsKept
<1> USE DEF TypeOK, GoesOn, OthersKept, Kept, RowsKept, Working, JobPcs, Goto,
            EndJob, ForgetRun, rowVars, runVars
<1>1. ASSUME FindNextExportJob(w) PROVE GoesOn(w) /\ RowsKept
  BY <1>1 DEF FindNextExportJob
<1>2. ASSUME LoseClaim(w) PROVE GoesOn(w) /\ RowsKept
  BY <1>2 DEF LoseClaim
<1>3. ASSUME FencedOut(w) PROVE GoesOn(w) /\ RowsKept
  BY <1>3 DEF FencedOut
<1>4. ASSUME NEW m \in Members, NEW y \in BOOLEAN, ProcessMember(w, m, y) PROVE GoesOn(w) /\ RowsKept
  BY <1>4 DEF ProcessMember, BreakOff
<1>5. ASSUME FinishUpload(w) PROVE GoesOn(w) /\ RowsKept
  BY <1>5 DEF FinishUpload
<1>6. ASSUME PublishRejected(w) PROVE GoesOn(w) /\ RowsKept
  BY <1>6 DEF PublishRejected
<1>7. ASSUME WithdrawArchive(w) PROVE GoesOn(w) /\ RowsKept
  BY <1>7 DEF WithdrawArchive
<1>8. ASSUME MarkMembersWritten(w) PROVE GoesOn(w) /\ RowsKept
  BY <1>8 DEF MarkMembersWritten
<1>9. ASSUME CleanUp(w) PROVE GoesOn(w) /\ RowsKept
  BY <1>9 DEF CleanUp
<1>10. ASSUME EndTick(w) PROVE GoesOn(w) /\ RowsKept
  BY <1>10 DEF EndTick
<1>11. ASSUME NEW c \in {"error", "cap"}, AssemblyFails(w, c) PROVE GoesOn(w) /\ RowsKept
  BY <1>11 DEF AssemblyFails, BreakOff
<1>12. ASSUME MarkThrows(w) PROVE GoesOn(w) /\ RowsKept
  BY <1>12 DEF MarkThrows
<1>13. ASSUME Crash(w) PROVE GoesOn(w) /\ RowsKept
  BY <1>13 DEF Crash
<1>14. ASSUME StartSweep(w) PROVE GoesOn(w) /\ RowsKept
  BY <1>14 DEF StartSweep
<1>15. ASSUME ReadExpired(w) PROVE GoesOn(w) /\ RowsKept
  BY <1>15 DEF ReadExpired
<1>16. ASSUME FilterHeld(w) PROVE GoesOn(w) /\ RowsKept
  BY <1>16 DEF FilterHeld
<1>17. ASSUME NEW b \in batch[w], RemoveExpired(w, b) PROVE GoesOn(w) /\ RowsKept
  BY <1>17 DEF RemoveExpired
<1>18. ASSUME ForgetArchive(w) PROVE GoesOn(w) /\ RowsKept
  BY <1>18 DEF ForgetArchive
<1>19. ASSUME ExpiredDone(w) PROVE GoesOn(w) /\ RowsKept
  BY <1>19 DEF ExpiredDone
<1>20. ASSUME ReadTerminal(w) PROVE GoesOn(w) /\ RowsKept
  BY <1>20 DEF ReadTerminal
<1>21. ASSUME NEW b \in batch[w], RemoveOrphans(w, b) PROVE GoesOn(w) /\ RowsKept
  BY <1>21 DEF RemoveOrphans
<1>22. ASSUME SweepDone(w) PROVE GoesOn(w) /\ RowsKept
  BY <1>22 DEF SweepDone
<1> QED
  BY <1>1, <1>2, <1>3, <1>4, <1>5, <1>6, <1>7, <1>8, <1>9, <1>10, <1>11, <1>12, <1>13, <1>14, <1>15, <1>16, <1>17, <1>18, <1>19, <1>20, <1>21, <1>22 DEF SweepStep

\* The same for rows: what a step leaves alone, and the step that ends a lease.
RowKept(d) == /\ status'[d] = status[d]
              /\ leaseToken'[d] = leaseToken[d]
              /\ failureCount'[d] = failureCount[d]

OtherRowsKept(e) == \A d \in Exports \ {e} : RowKept(d)

\* A row is settled: the lease goes with its status.
LEMMA SettleKeeps ==
    ASSUME NEW e \in Exports, LeaseInv, OtherRowsKept(e),
           NoToken \notin Tokens, job \in [Workers -> Exports],
           status'[e] \in Terminal, leaseToken'[e] = NoToken,
           failureCount'[e] = failureCount[e], status[e] \in Claimable,
           \/ \A v \in Workers : Kept(v)
           \/ \E w \in Workers : GoesOn(w)
    PROVE  LeaseInv'
<1>1. LeasedIsOpen' /\ Untouched' /\ AttemptsBounded'
  BY DEF LeaseInv, LeasedIsOpen, Untouched, AttemptsBounded, Terminal,
         Claimable, OtherRowsKept, RowKept
<1>2. WorkersHaveTokens' /\ TokensDiffer'
  BY GoesOnTokens
     DEF LeaseInv, WorkersHaveTokens, TokensDiffer, Kept, Working
<1>3. ASSUME NEW v \in Workers, Working(v)', pc'[v] # "read", Fenced(v)'
      PROVE  failures'[v] = failureCount'[job'[v]]
  <2>1. Working(v) /\ (Kept(v) \/ GoesOn(v))
    BY <1>3 DEF Kept, Working, GoesOn, OthersKept
  <2>2. /\ pc[v] # "read" /\ job'[v] = job[v]
        /\ token'[v] = token[v] /\ failures'[v] = failures[v]
    BY <1>3, <2>1 DEF Kept, GoesOn
  <2>3. job[v] # e
    BY <1>2, <1>3, <2>2 DEF Fenced, WorkersHaveTokens
  <2>4. RowKept(job[v])
    BY <2>3 DEF OtherRowsKept
  <2>5. QED
    BY <1>3, <2>1, <2>2, <2>4
       DEF LeaseInv, FailuresCurrent, Fenced, RowKept
<1>4. QED
  BY <1>1, <1>2, <1>3 DEF LeaseInv, FailuresCurrent

\* Every action keeps the lease invariant.
LEMMA LeaseStep ==
    ASSUME TypeOK, TypeOK', LeaseInv, [Next]_vars PROVE LeaseInv'
<1> USE DEF LeaseInv, Untouched, LeasedIsOpen, WorkersHaveTokens, TokensDiffer,
            FailuresCurrent, AttemptsBounded, Working, Fenced, TypeOK
<1>1. ASSUME NEW e \in Exports, RequestStep(e) \/ ClockStep(e) PROVE LeaseInv'
  <2>1. CASE CreateExport(e)
    BY <2>1, ConstantsAssumption DEF CreateExport, workVars, runVars, Claimable
  <2>2. CASE RequestCancellation(e)
    BY <2>2, SettleKeeps, ConstantsAssumption
       DEF RequestCancellation, ReleaseLease, workVars, runVars, Terminal,
           OtherRowsKept, RowKept, Kept
  <2>3. CASE \E h \in BOOLEAN : SetHold(e, h)
    BY <2>3 DEF SetHold, rowVars, workVars, runVars
  <2>4. CASE ClockStep(e)
    BY <2>4 DEF ClockStep, LeaseLapses, BackoffEnds, Expires, Ages, rowVars,
                workVars, runVars
  <2>5. QED
    BY <1>1, <2>1, <2>2, <2>3, <2>4 DEF RequestStep
<1>2. ASSUME NEW w \in Workers, ClaimExport(w) PROVE LeaseInv'
  BY <1>2 DEF ClaimExport, Fresh, Goto, JobPcs
<1>3. ASSUME NEW w \in Workers, ReadRow(w) PROVE LeaseInv'
  <2>1. OthersKept(w) /\ RowsKept
    BY <1>3 DEF ReadRow, Goto, OthersKept, Kept, RowsKept, rowVars
  <2>2. /\ Working(w) /\ Working(w)'
        /\ job'[w] = job[w] /\ token'[w] = token[w]
        /\ failures'[w] = failureCount[job[w]]
    BY <1>3 DEF ReadRow, Goto, JobPcs
  <2>3. \A v \in Workers :
          Working(v)' => /\ Working(v)
                         /\ job'[v] = job[v] /\ token'[v] = token[v]
    BY <2>1, <2>2 DEF OthersKept, Kept
  <2>4. \A v \in Workers :
          \/ failures'[v] = failures[v] /\ pc'[v] = pc[v]
          \/ failures'[v] = failureCount[job[v]]
    BY <2>1, <2>2 DEF OthersKept, Kept
  <2>5. Untouched' /\ LeasedIsOpen' /\ AttemptsBounded'
    BY <2>1 DEF RowsKept
  <2>6. WorkersHaveTokens' /\ TokensDiffer'
    BY <2>3
  <2>7. FailuresCurrent'
    BY <2>1, <2>3, <2>4 DEF RowsKept
  <2>8. QED
    BY <2>5, <2>6, <2>7
<1>4. ASSUME NEW w \in Workers, SetProcessing(w) PROVE LeaseInv'
  <2>1. GoesOn(w) /\ UNCHANGED <<leaseToken, failureCount>>
    BY <1>4 DEF SetProcessing, Goto, JobPcs, GoesOn, OthersKept, Kept
  <2>2. /\ status[job[w]] \in Claimable
        /\ status' = [status EXCEPT ![job[w]] = "processing"]
    BY <1>4, ConstantsAssumption DEF SetProcessing, JobPcs
  <2>3. Untouched' /\ LeasedIsOpen' /\ AttemptsBounded'
    BY <2>1, <2>2 DEF Claimable
  <2>4. WorkersHaveTokens' /\ TokensDiffer' /\ FailuresCurrent'
    BY <2>1, GoesOnTokens, GoesOnFailures
  <2>5. QED
    BY <2>3, <2>4
<1>5. ASSUME NEW w \in Workers, PublishExport(w) \/ PublishThrows(w),
             Publish(w)
      PROVE  LeaseInv'
  <2>1. GoesOn(w) /\ Working(w)
    <3>1. CASE PublishExport(w)
      BY <3>1 DEF PublishExport, Goto, JobPcs, GoesOn, OthersKept, Kept,
                  runVars
    <3>2. CASE PublishThrows(w)
      <4>1. /\ pc[w] = "publish"
            /\ pc' = [pc EXCEPT ![w] = "clean"]
            /\ UNCHANGED <<job, token, failures>>
        BY <3>2 DEF PublishThrows, Goto
      <4>2. QED
        BY <4>1 DEF JobPcs, GoesOn, OthersKept, Kept
    <3>3. QED
      BY <1>5, <3>1, <3>2
  <2>2. status[job[w]] \in Claimable
    BY <1>5, <2>1, ConstantsAssumption DEF Publish
  <2>3. /\ OtherRowsKept(job[w])
        /\ status'[job[w]] \in Terminal
        /\ leaseToken'[job[w]] = NoToken
        /\ failureCount'[job[w]] = failureCount[job[w]]
    BY <1>5 DEF Publish, ReleaseLease, OtherRowsKept, RowKept, Terminal
  <2>4. QED
    BY <2>1, <2>2, <2>3, SettleKeeps, ConstantsAssumption
<1>6. ASSUME NEW w \in Workers, PublishThrows(w) PROVE LeaseInv'
  <2>1. CASE UNCHANGED rowVars
    BY <1>6, <2>1, GoesOnKeeps
       DEF PublishThrows, Goto, JobPcs, rowVars, GoesOn, OthersKept, Kept,
           RowsKept
  <2>2. QED
    BY <1>5, <1>6, <2>1 DEF PublishThrows
<1>7. ASSUME NEW w \in Workers, FailExport(w) PROVE LeaseInv'
  <2>1. GoesOn(w) /\ ~Working(w)'
    BY <1>7 DEF FailExport, EndJob, ForgetRun, Goto, JobPcs, GoesOn, OthersKept, Kept
  <2>2. CASE Fenced(w)
    <3> DEFINE e == job[w]
    <3>1. /\ e \in Exports
          /\ status[e] \in Claimable
          /\ failures[w] = failureCount[e]
          /\ failureCount[e] \in Nat
          /\ failureCount[e] < MaxAttempts
      BY <1>7, <2>2, ConstantsAssumption DEF FailExport, JobPcs
    <3>2. /\ OtherRowsKept(e)
          /\ leaseToken'[e] = NoToken
          /\ failureCount'[e] = failureCount[e] + 1
          /\ status'[e] = IF Retryable(w) THEN "queued" ELSE "failed"
      BY <1>7, <2>2 DEF FailExport, ReleaseLease, OtherRowsKept, RowKept
    <3> HIDE DEF e
    <3>3. AttemptsBounded'
      <4>1. /\ failureCount'[e] <= MaxAttempts
            /\ status'[e] \in Claimable => failureCount'[e] < MaxAttempts
        BY <3>1, <3>2, ConstantsAssumption DEF Retryable, Claimable
      <4>2. \A d \in Exports \ {e} :
              /\ failureCount'[d] <= MaxAttempts
              /\ status'[d] \in Claimable => failureCount'[d] < MaxAttempts
        BY <3>2 DEF OtherRowsKept, RowKept
      <4>3. QED
        BY <4>1, <4>2
    <3>4. Untouched' /\ LeasedIsOpen'
      BY <3>1, <3>2 DEF OtherRowsKept, RowKept
    <3>5. WorkersHaveTokens' /\ TokensDiffer'
      BY <2>1, GoesOnTokens
    <3>6. ASSUME NEW v \in Workers, Working(v)', pc'[v] # "read", Fenced(v)'
          PROVE  failures'[v] = failureCount'[job'[v]]
      <4>1. v # w /\ Kept(v)
        BY <2>1, <3>6 DEF GoesOn, OthersKept
      <4>2. Working(v) /\ token[v] # NoToken
        BY <3>6, <4>1, ConstantsAssumption DEF Kept
      <4>3. job[v] # e
        BY <3>2, <3>6, <4>1, <4>2 DEF Kept
      <4>4. RowKept(job[v])
        BY <3>2, <4>3 DEF OtherRowsKept
      <4>5. QED
        BY <3>6, <4>1, <4>2, <4>4 DEF Kept, RowKept
    <3>7. QED
      BY <3>3, <3>4, <3>5, <3>6
  <2>3. CASE ~Fenced(w)
    BY <1>7, <2>1, <2>3, GoesOnKeeps DEF FailExport, RowsKept
  <2>4. QED
    BY <2>2, <2>3
<1>8. CASE UNCHANGED vars
  BY <1>8 DEF vars, rowVars, workVars, runVars
<1>9. ASSUME NEW w \in Workers, JobStep(w) \/ FailureStep(w) \/ SweepStep(w)
      PROVE  LeaseInv'
  <2>1. CASE ~(GoesOn(w) /\ RowsKept)
    BY <1>2, <1>3, <1>4, <1>5, <1>6, <1>7, <1>9, <2>1, QuietSteps
       DEF JobStep, FailureStep, PublishExport
  <2>2. CASE GoesOn(w) /\ RowsKept
    BY <2>2, GoesOnKeeps
  <2>3. QED
    BY <2>1, <2>2
<1>10. QED
  BY <1>1, <1>8, <1>9 DEF Next

-----------------------------------------------------------------------------
(* The theorems about leases. *)

\* Initially nothing is requested and nobody holds a lease.
LEMMA LeaseInitial == Init => TypeOK /\ LeaseInv
<1> SUFFICES ASSUME Init PROVE TypeOK /\ LeaseInv
    OBVIOUS
<1> USE ConstantsAssumption DEF Init, Exports
<1>1. TypeOK
  BY DEF TypeOK, TokenOrNull, Statuses, Pcs, Causes
<1>2. LeaseInv
  BY DEF LeaseInv, Untouched, LeasedIsOpen, WorkersHaveTokens, TokensDiffer,
         FailuresCurrent, AttemptsBounded, Working, JobPcs, Claimable
<1>3. QED
  BY <1>1, <1>2

\* The inductive invariant behind the theorems: tokens of leases belong to one run,
\* a leased export is open, and a holder knows the failure count of its row.
THEOREM LeaseInvariant == Spec => [](TypeOK /\ LeaseInv)
<1>1. TypeOK /\ LeaseInv /\ [Next]_vars => (TypeOK /\ LeaseInv)'
  BY TypeStep, LeaseStep DEF LeaseInv
<1>2. QED
  BY LeaseInitial, <1>1, PTL DEF Spec

\* Every variable keeps its type: statuses, lease tokens and the workers'
\* positions stay in their vocabularies (prisma schema, exportLease.ts).
THEOREM TypeCorrect == Spec => []TypeOK
BY LeaseInvariant, PTL

\* At most one worker holds the lease of an export (exportLease.ts:108).
THEOREM MutualExclusion == Spec => []OneHolder
<1>1. TypeOK /\ LeaseInv => OneHolder
  BY DEF LeaseInv, WorkersHaveTokens, TokensDiffer, OneHolder, Fenced
<1>2. QED
  BY <1>1, LeaseInvariant, PTL

\* No export is attempted more than MaxAttempts times (exportRunner.ts:273).
THEOREM RetriesBounded == Spec => []AttemptsBounded
<1>1. TypeOK /\ LeaseInv => AttemptsBounded
  BY DEF LeaseInv
<1>2. QED
  BY <1>1, LeaseInvariant, PTL

-----------------------------------------------------------------------------
(* What becomes of a requested archive. *)

\* Only a completed export names an archive, and only a completed one expires.
FilesAreComplete ==
    \A e \in Exports : fileUrl[e] # NoToken \/ expired[e]
                           => status[e] = "complete"

Expiring == {"sweepHeld", "sweepRemove", "sweepNull"}

\* What a sweep read is about settled exports, whose fileUrl can only have been
\* cleared since; what it is going to retire has expired.
SweepsSettled ==
    \A w \in Workers :
        /\ \A b \in batch[w] : /\ status[b[1]] \in Terminal
                               /\ fileUrl[b[1]] \in {b[2], NoToken}
                               /\ pc[w] \in Expiring => expired[b[1]]
        /\ pc[w] = "sweepNull" => expired[job[w]]

SettledInv == FilesAreComplete /\ SweepsSettled

-----------------------------------------------------------------------------
(* What one step does to the rows: it moves at most one of them, and that one *)
(* in one of five ways.                                                       *)

Queue(e) == /\ status[e] = "none"
            /\ status' = [status EXCEPT ![e] = "queued"]
            /\ UNCHANGED fileUrl

Advance(e) == /\ status[e] \in Claimable
              /\ \E s \in Claimable : status' = [status EXCEPT ![e] = s]
              /\ UNCHANGED fileUrl

Refuse(e) == /\ status[e] \in Claimable
             /\ \E s \in {"failed", "cancelled"} :
                    status' = [status EXCEPT ![e] = s]
             /\ UNCHANGED fileUrl

Deliver(e, t) == /\ status[e] \in Claimable
                 /\ status' = [status EXCEPT ![e] = "complete"]
                 /\ fileUrl' = [fileUrl EXCEPT ![e] = t]

Expire(e) == /\ expired[e]
             /\ UNCHANGED status
             /\ fileUrl' = [fileUrl EXCEPT ![e] = NoToken]

RowMoves(e) == \/ Queue(e) \/ Advance(e) \/ Refuse(e) \/ Expire(e)
               \/ \E t \in Tokens : Deliver(e, t)

RowsMove == UNCHANGED <<status, fileUrl>> \/ \E e \in Exports : RowMoves(e)

\* A step moves rows in no other way.
LEMMA RowSteps ==
    ASSUME TypeOK, LeaseInv, SettledInv, [Next]_vars
    PROVE  RowsMove
<1> USE DEF TypeOK
<1>1. ASSUME NEW e \in Exports, RequestStep(e) \/ ClockStep(e) PROVE RowsMove
  <2>1. CASE CreateExport(e)
    BY <2>1 DEF CreateExport, RowsMove, RowMoves, Queue
  <2>2. CASE RequestCancellation(e)
    BY <2>2 DEF RequestCancellation, RowsMove, RowMoves, Refuse
  <2>3. CASE \E h \in BOOLEAN : SetHold(e, h)
    BY <2>3 DEF SetHold, rowVars, RowsMove
  <2>4. CASE ClockStep(e)
    BY <2>4 DEF ClockStep, LeaseLapses, BackoffEnds, Expires, Ages, rowVars,
                RowsMove
  <2>5. QED
    BY <1>1, <2>1, <2>2, <2>3, <2>4 DEF RequestStep
<1>2. ASSUME NEW w \in Workers, Publish(w), Working(w) PROVE RowsMove
  <2>1. token[w] \in Tokens /\ status[job[w]] \in Claimable
    BY <1>2, ConstantsAssumption
       DEF LeaseInv, WorkersHaveTokens, LeasedIsOpen, Publish, Fenced
  <2>2. Deliver(job[w], token[w])
    BY <1>2, <2>1 DEF Publish, Deliver
  <2>3. QED
    BY <2>1, <2>2 DEF RowsMove, RowMoves
<1>3. ASSUME NEW w \in Workers, Working(w), Fenced(w)
      PROVE  status[job[w]] \in Claimable
  BY <1>3, ConstantsAssumption
     DEF LeaseInv, WorkersHaveTokens, LeasedIsOpen, Fenced
<1>4. ASSUME NEW w \in Workers, JobStep(w) PROVE RowsMove
  <2>1. CASE SetProcessing(w)
    <3>1. Advance(job[w])
      BY <1>3, <2>1 DEF SetProcessing, Working, JobPcs, Claimable, Advance
    <3>2. QED
      BY <3>1 DEF RowsMove, RowMoves
  <2>2. CASE PublishExport(w)
    BY <1>2, <2>2 DEF PublishExport, Working, JobPcs
  <2>3. CASE FailExport(w)
    <3>1. CASE Fenced(w) /\ Retryable(w)
      <4>1. Advance(job[w])
        BY <1>3, <2>3, <3>1
           DEF FailExport, Working, JobPcs, Claimable, Advance
      <4>2. QED
        BY <4>1 DEF RowsMove, RowMoves
    <3>2. CASE Fenced(w) /\ ~Retryable(w)
      <4>1. Refuse(job[w])
        BY <1>3, <2>3, <3>2 DEF FailExport, Working, JobPcs, Refuse
      <4>2. QED
        BY <4>1 DEF RowsMove, RowMoves
    <3>3. CASE ~Fenced(w)
      BY <2>3, <3>3 DEF FailExport, RowsMove
    <3>4. QED
      BY <3>1, <3>2, <3>3
  <2>4. CASE \/ FindNextExportJob(w) \/ ClaimExport(w) \/ LoseClaim(w)
             \/ ReadRow(w) \/ FencedOut(w)
             \/ \E m \in Members, y \in BOOLEAN : ProcessMember(w, m, y)
             \/ FinishUpload(w) \/ PublishRejected(w) \/ WithdrawArchive(w)
             \/ MarkMembersWritten(w) \/ CleanUp(w) \/ EndTick(w)
    BY <2>4 DEF FindNextExportJob, ClaimExport, LoseClaim, ReadRow, FencedOut,
                ProcessMember, FinishUpload, PublishRejected, WithdrawArchive,
                MarkMembersWritten, CleanUp, EndTick, rowVars, RowsMove
  <2>5. QED
    BY <1>4, <2>1, <2>2, <2>3, <2>4 DEF JobStep
<1>5. ASSUME NEW w \in Workers, FailureStep(w) PROVE RowsMove
  <2>1. CASE PublishThrows(w) /\ Publish(w)
    BY <1>2, <2>1 DEF PublishThrows, Working, JobPcs
  <2>2. CASE UNCHANGED rowVars
    BY <2>2 DEF rowVars, RowsMove
  <2>3. QED
    BY <1>5, <2>1, <2>2 DEF FailureStep, AssemblyFails, PublishThrows,
                            MarkThrows, Crash
<1>6. ASSUME NEW w \in Workers, SweepStep(w) PROVE RowsMove
  <2>1. CASE ForgetArchive(w)
    <3>1. Expire(job[w])
      BY <2>1 DEF ForgetArchive, SettledInv, SweepsSettled, Expire
    <3>2. QED
      BY <3>1 DEF RowsMove, RowMoves
  <2>2. CASE ~ForgetArchive(w)
    BY <1>6, <2>2 DEF SweepStep, StartSweep, ReadExpired, FilterHeld,
                      RemoveExpired, ExpiredDone, ReadTerminal, RemoveOrphans,
                      SweepDone, rowVars, RowsMove
  <2>3. QED
    BY <2>1, <2>2
<1>7. CASE UNCHANGED vars
  BY <1>7 DEF vars, rowVars, RowsMove
<1>8. QED
  BY <1>1, <1>4, <1>5, <1>6, <1>7 DEF Next

\* Only a completed export expires, and it stays expired.
LEMMA ExpirySteps ==
    ASSUME TypeOK, [Next]_vars
    PROVE  \A e \in Exports : \/ expired'[e] = expired[e]
                              \/ expired'[e] /\ status[e] = "complete"
                                 /\ UNCHANGED <<status, fileUrl>>
<1> USE DEF TypeOK
<1>1. ASSUME NEW e \in Exports, RequestStep(e) \/ ClockStep(e)
      PROVE  \/ UNCHANGED expired
             \/ Expires(e)
  BY <1>1 DEF RequestStep, ClockStep, CreateExport, RequestCancellation,
              SetHold, LeaseLapses, BackoffEnds, Ages, clockVars
<1>2. ASSUME NEW w \in Workers, JobStep(w) \/ FailureStep(w)
      PROVE  UNCHANGED expired
  BY <1>2 DEF JobStep, FindNextExportJob, ClaimExport, LoseClaim, ReadRow,
              SetProcessing, FencedOut, ProcessMember, FinishUpload,
              PublishExport, PublishRejected, WithdrawArchive,
              MarkMembersWritten, CleanUp, FailExport, EndTick, FailureStep,
              AssemblyFails, PublishThrows, MarkThrows, Crash, clockVars
<1>3. ASSUME NEW w \in Workers, SweepStep(w) PROVE UNCHANGED expired
  BY <1>3 DEF SweepStep, StartSweep, ReadExpired, FilterHeld, RemoveExpired,
              ForgetArchive, ExpiredDone, ReadTerminal, RemoveOrphans,
              SweepDone, clockVars
<1>4. CASE UNCHANGED vars
  BY <1>4 DEF vars, clockVars
<1>5. ASSUME NEW e \in Exports, Expires(e)
      PROVE  \A d \in Exports : \/ expired'[d] = expired[d]
                                \/ expired'[d] /\ status[d] = "complete"
                                   /\ UNCHANGED <<status, fileUrl>>
  BY <1>5 DEF Expires, rowVars
<1>6. QED
  BY <1>1, <1>2, <1>3, <1>4, <1>5 DEF Next

\* Settled exports stay settled, their fileUrl can only go, expiry is for ever.
SettledStay ==
    \A e \in Exports :
        /\ status[e] \in Terminal
             => status'[e] = status[e] /\ fileUrl'[e] \in {fileUrl[e], NoToken}
        /\ expired[e] => expired'[e]

\* Such moves keep it so that only completed exports name an archive.
LEMMA RowsSettle ==
    ASSUME TypeOK, RowsMove, FilesAreComplete,
           \A e \in Exports : \/ expired'[e] = expired[e]
                              \/ expired'[e] /\ status[e] = "complete"
                                 /\ UNCHANGED <<status, fileUrl>>
    PROVE  FilesAreComplete' /\ SettledStay
<1>1. CASE UNCHANGED <<status, fileUrl>>
  BY <1>1 DEF FilesAreComplete, SettledStay, TypeOK
<1>2. ASSUME NEW e \in Exports, RowMoves(e)
      PROVE  FilesAreComplete' /\ SettledStay
  BY <1>2 DEF RowMoves, Queue, Advance, Refuse, Deliver, Expire, Claimable,
              Terminal, FilesAreComplete, SettledStay, TypeOK
<1>3. QED
  BY <1>1, <1>2 DEF RowsMove

-----------------------------------------------------------------------------
(* Sweeps. *)

\* A worker's page only shrinks, and it does not start to retire archives.
SweepKept(v) == /\ batch'[v] \subseteq batch[v]
                /\ pc'[v] \in Expiring => pc[v] \in Expiring
                /\ pc'[v] = "sweepNull" => /\ pc[v] = "sweepNull"
                                           /\ job'[v] = job[v]

\* The actions that read a page or choose the next archive to retire.
Reading(w) == \/ ReadExpired(w) \/ ReadTerminal(w)
              \/ \E b \in batch[w] : RemoveExpired(w, b)

\* All other actions of a worker leave the pages of every worker as they are.
LEMMA SweepsKept ==
    ASSUME TypeOK, NEW w \in Workers,
           JobStep(w) \/ FailureStep(w) \/ SweepStep(w), ~Reading(w)
    PROVE  \A v \in Workers : SweepKept(v)
<1> USE DEF TypeOK, SweepKept, Expiring, Goto, EndJob, ForgetRun, runVars
<1>1. CASE JobStep(w)
  BY <1>1 DEF JobStep, FindNextExportJob, ClaimExport, LoseClaim, ReadRow,
              SetProcessing, FencedOut, ProcessMember, BreakOff, FinishUpload,
              PublishExport, PublishRejected, WithdrawArchive,
              MarkMembersWritten, CleanUp, FailExport, EndTick
<1>2. CASE FailureStep(w)
  BY <1>2 DEF FailureStep, AssemblyFails, BreakOff, PublishThrows, MarkThrows,
              Crash
<1>3. CASE SweepStep(w)
  BY <1>3 DEF SweepStep, Reading, StartSweep, FilterHeld, ForgetArchive,
              ExpiredDone, RemoveOrphans, SweepDone
<1>4. QED
  BY <1>1, <1>2, <1>3

\* Every action keeps what sweeps have read true to the rows.
LEMMA SettledStep ==
    ASSUME TypeOK, LeaseInv, SettledInv, [Next]_vars PROVE SettledInv'
<1>1. FilesAreComplete' /\ SettledStay
  BY RowSteps, ExpirySteps, RowsSettle DEF SettledInv
<1>2. ASSUME NEW v \in Workers, SweepKept(v)
      PROVE  /\ \A b \in batch'[v] : /\ status'[b[1]] \in Terminal
                                     /\ fileUrl'[b[1]] \in {b[2], NoToken}
                                     /\ pc'[v] \in Expiring => expired'[b[1]]
             /\ pc'[v] = "sweepNull" => expired'[job'[v]]
  <2>1. ASSUME NEW b \in batch'[v]
        PROVE  /\ status'[b[1]] \in Terminal
               /\ fileUrl'[b[1]] \in {b[2], NoToken}
               /\ pc'[v] \in Expiring => expired'[b[1]]
    <3>1. b \in batch[v] /\ b[1] \in Exports
      BY <1>2, <2>1 DEF SweepKept, TypeOK
    <3>2. QED
      BY <1>1, <1>2, <3>1 DEF SweepKept, SettledInv, SweepsSettled, SettledStay
  <2>2. ASSUME pc'[v] = "sweepNull" PROVE expired'[job'[v]]
    BY <1>1, <1>2, <2>2
       DEF SweepKept, SettledInv, SweepsSettled, SettledStay, TypeOK
  <2>3. QED
    BY <2>1, <2>2
<1>3. ASSUME \A v \in Workers : SweepKept(v) PROVE SweepsSettled'
  BY <1>2, <1>3 DEF SweepsSettled
<1>4. ASSUME NEW w \in Workers, Reading(w) PROVE SweepsSettled'
  <2>1. \A v \in Workers \ {w} : SweepKept(v)
    BY <1>4 DEF Reading, ReadExpired, ReadTerminal, RemoveExpired, Goto,
                SweepKept, runVars, TypeOK
  <2>2. /\ \A b \in batch'[w] : /\ status'[b[1]] \in Terminal
                                /\ fileUrl'[b[1]] \in {b[2], NoToken}
                                /\ pc'[w] \in Expiring => expired'[b[1]]
        /\ pc'[w] = "sweepNull" => expired'[job'[w]]
    <3>1. CASE ReadExpired(w)
      <4>1. /\ UNCHANGED <<status, fileUrl, expired>>
            /\ pc'[w] # "sweepNull"
        BY <3>1 DEF ReadExpired, Goto, rowVars, clockVars, TypeOK
      <4>2. \A b \in batch'[w] :
              \E e \in Exports : b = Pair(e) /\ expired[e]
        BY <3>1 DEF ReadExpired, Page, TypeOK
      <4>3. QED
        BY <4>1, <4>2
           DEF Pair, SettledInv, FilesAreComplete, Terminal
    <3>2. CASE ReadTerminal(w)
      <4>1. /\ UNCHANGED <<status, fileUrl, expired>>
            /\ pc'[w] = "sweepList"
        BY <3>2 DEF ReadTerminal, Goto, rowVars, clockVars, TypeOK
      <4>2. \A b \in batch'[w] :
              \E e \in Exports : b = Pair(e) /\ status[e] \in Terminal
        BY <3>2 DEF ReadTerminal, Page, TypeOK
      <4>3. QED
        BY <4>1, <4>2 DEF Pair, Expiring
    <3>3. ASSUME NEW b \in batch[w], RemoveExpired(w, b)
          PROVE  <2>2!1 /\ <2>2!2
      <4>1. /\ UNCHANGED <<status, fileUrl, expired>>
            /\ pc[w] = "sweepRemove"
            /\ batch'[w] \subseteq batch[w]
            /\ pc'[w] = "sweepNull" => job'[w] = b[1]
        BY <3>3 DEF RemoveExpired, Goto, rowVars, clockVars, TypeOK
      <4>2. QED
        BY <4>1 DEF SettledInv, SweepsSettled, Expiring
    <3>4. QED
      BY <1>4, <3>1, <3>2, <3>3 DEF Reading
  <2>3. QED
    BY <1>2, <2>1, <2>2 DEF SweepsSettled
<1>5. ASSUME NEW w \in Workers, JobStep(w) \/ FailureStep(w) \/ SweepStep(w)
      PROVE  SweepsSettled'
  BY <1>3, <1>4, <1>5, SweepsKept
<1>6. ASSUME NEW e \in Exports, RequestStep(e) \/ ClockStep(e)
      PROVE  SweepsSettled'
  <2>1. UNCHANGED <<pc, job, batch>>
    BY <1>6 DEF RequestStep, ClockStep, CreateExport, RequestCancellation,
                SetHold, LeaseLapses, BackoffEnds, Expires, Ages, workVars,
                runVars
  <2>2. QED
    BY <1>3, <2>1 DEF SweepKept
<1>7. ASSUME UNCHANGED vars PROVE SweepsSettled'
  BY <1>3, <1>7 DEF vars, workVars, runVars, SweepKept
<1>8. QED
  BY <1>1, <1>5, <1>6, <1>7 DEF Next, SettledInv

\* Initially nothing is requested and no sweep runs.
LEMMA SettledInitial == Init => SettledInv
BY DEF Init, SettledInv, FilesAreComplete, SweepsSettled

\* What the requester's view rests on, beside the leases.
LEMMA SettledInvariant == Spec => [](TypeOK /\ LeaseInv /\ SettledInv)
<1>1. /\ TypeOK /\ LeaseInv
      /\ SettledInv
      /\ [Next]_vars
      => SettledInv'
  BY SettledStep
<1>2. QED
  BY SettledInitial, LeaseInvariant, <1>1, PTL DEF Spec

-----------------------------------------------------------------------------
(* The refinement. *)

Outcome == [e \in Exports |-> IF status[e] \in Claimable THEN "open"
                                                         ELSE status[e]]
Archive == [e \in Exports |-> fileUrl[e] # NoToken]

\* Every step of the rows is a step of the requester's view, or none at all.
LEMMA RowsImplement ==
    ASSUME TypeOK, TypeOK', FilesAreComplete, RowsMove
    PROVE  [Lifecycle!LifecycleNext]_<<Outcome, Archive>>
<1> USE DEF TypeOK
<1>1. CASE UNCHANGED <<status, fileUrl>>
  BY <1>1 DEF Outcome, Archive
<1>2. ASSUME NEW e \in Exports, Queue(e) PROVE Lifecycle!Open(e)
  <2>1. Outcome[e] = "none" /\ UNCHANGED Archive
    BY <1>2 DEF Queue, Outcome, Archive, Claimable
  <2>2. Outcome' = [Outcome EXCEPT ![e] = "open"]
    BY <1>2 DEF Queue, Outcome, Claimable
  <2>3. QED
    BY <2>1, <2>2 DEF Lifecycle!Open, Outcome, Archive
<1>3. ASSUME NEW e \in Exports, Advance(e)
      PROVE  UNCHANGED <<Outcome, Archive>>
  BY <1>3 DEF Advance, Outcome, Archive
<1>4. ASSUME NEW e \in Exports, Refuse(e)
      PROVE  \E o \in {"failed", "cancelled"} : Lifecycle!Settle(e, o)
  <2>1. PICK s \in {"failed", "cancelled"} :
               status' = [status EXCEPT ![e] = s]
    BY <1>4 DEF Refuse
  <2>2. status[e] \in Claimable /\ fileUrl[e] = NoToken /\ UNCHANGED fileUrl
    BY <1>4 DEF Refuse, FilesAreComplete, Claimable
  <2>3. Outcome[e] = "open" /\ Outcome' = [Outcome EXCEPT ![e] = s]
    BY <2>1, <2>2 DEF Outcome, Claimable
  <2>4. Archive' = [Archive EXCEPT ![e] = (s = "complete")]
    BY <2>2 DEF Archive
  <2>5. QED
    BY <2>3, <2>4 DEF Lifecycle!Settle, Outcome, Archive
<1>5. ASSUME NEW e \in Exports, NEW t \in Tokens, Deliver(e, t)
      PROVE  Lifecycle!Settle(e, "complete")
  <2>1. Outcome[e] = "open" /\ Outcome' = [Outcome EXCEPT ![e] = "complete"]
    BY <1>5 DEF Deliver, Outcome, Claimable
  <2>2. Archive' = [Archive EXCEPT ![e] = ("complete" = "complete")]
    BY <1>5, ConstantsAssumption DEF Deliver, Archive
  <2>3. QED
    BY <2>1, <2>2 DEF Lifecycle!Settle, Outcome, Archive
<1>6. ASSUME NEW e \in Exports, Expire(e), fileUrl[e] # NoToken
      PROVE  Lifecycle!Retire(e)
  <2>1. Outcome[e] = "complete" /\ Archive[e] /\ UNCHANGED Outcome
    BY <1>6 DEF Expire, FilesAreComplete, Outcome, Archive, Claimable
  <2>2. Archive' = [Archive EXCEPT ![e] = FALSE]
    BY <1>6 DEF Expire, Archive
  <2>3. QED
    BY <2>1, <2>2 DEF Lifecycle!Retire, Outcome, Archive
<1>7. ASSUME NEW e \in Exports, Expire(e), fileUrl[e] = NoToken
      PROVE  UNCHANGED <<Outcome, Archive>>
  BY <1>7 DEF Expire, Outcome, Archive
<1>8. ASSUME NEW e \in Exports, RowMoves(e)
      PROVE  UNCHANGED <<Outcome, Archive>> \/ Lifecycle!LifecycleStep(e)
  BY <1>2, <1>3, <1>4, <1>5, <1>6, <1>7, <1>8
     DEF RowMoves, Lifecycle!LifecycleStep, Lifecycle!Outcomes
<1>9. QED
  BY <1>1, <1>8 DEF RowsMove, Lifecycle!LifecycleNext

\* The worker implements the requester's view: a request is settled once and
\* for all, only a completed one ever offers an archive, and the archive is
\* withdrawn at most once, whatever crashes, stalls and lost answers do to the
\* workers (exportLease.ts, exportRunner.ts, exportSweeper.ts).
THEOREM LifecycleImplemented == Spec => ImplementsLifecycle
<1>1. Init => Lifecycle!LifecycleInit
  BY DEF Init, Lifecycle!LifecycleInit, Claimable
<1>2. /\ TypeOK /\ LeaseInv /\ SettledInv
      /\ (TypeOK /\ LeaseInv /\ SettledInv)'
      /\ [Next]_vars
      => [Lifecycle!LifecycleNext]_<<Outcome, Archive>>
  BY RowSteps, RowsImplement DEF SettledInv
<1>3. QED
  BY <1>1, <1>2, SettledInvariant, PTL
     DEF Spec, ImplementsLifecycle, Lifecycle!LifecycleSpec, Outcome, Archive

-----------------------------------------------------------------------------
(* The archive itself. *)

\* Until a run has published, nothing but itself refers to its token.
TokensUnpublished ==
    \A w \in Workers :
        Working(w) /\ pc[w] # "mark"
            => /\ \A e \in Exports : fileUrl[e] # token[w]
               /\ \A v \in Workers : \A b \in batch[v] : b[2] # token[w]

\* A run that may still publish has its object in place.
UploadedExists ==
    \A w \in Workers :
        pc[w] = "publish" /\ Fenced(w) => <<job[w], token[w]>> \in objects

ArchiveInv == TokensUnpublished /\ UploadedExists /\ OfferedArchiveExists

\* A run that goes on keeps its export and its token.
RunsStay ==
    \A v \in Workers :
        Working(v)' /\ pc'[v] # "mark"
            => /\ Working(v) /\ pc[v] # "mark"
               /\ job'[v] = job[v]
               /\ token'[v] = token[v]
               /\ pc'[v] = "publish" => \/ pc[v] = "publish"
                                        \/ <<job[v], token[v]>> \in objects'

\* Pages are read off the rows.
PagesStay ==
    \A v \in Workers : \A b \in batch'[v] :
        b \in batch[v] \/ \E e \in Exports : b = Pair(e)

\* No lease is granted and no archive offered.
RowsStay ==
    \A e \in Exports :
        /\ leaseToken'[e] \in {leaseToken[e], NoToken}
        /\ fileUrl'[e] \in {fileUrl[e], NoToken}
        /\ expired[e] => expired'[e]
        /\ status'[e] = "complete"
             => status[e] = "complete" \/ fileUrl'[e] = NoToken

\* Objects are deleted by the run that wrote them before it published, as the
\* archive of an expired export, or below an export's prefix for not being the
\* object its row named.
ObjectsStay ==
    \A o \in objects \ objects' :
        \/ \E v \in Workers : /\ pc[v] \in {"withdraw", "clean"}
                              /\ o = <<job[v], token[v]>>
        \/ \E v \in Workers : pc[v] \in Expiring /\ o \in batch[v]
        \/ \E v \in Workers : \E b \in batch[v] : o[1] = b[1] /\ o # b

\* A step of this kind endangers no archive.
LEMMA StayKeeps ==
    ASSUME TypeOK, LeaseInv, SettledInv, ArchiveInv,
           RunsStay, PagesStay, RowsStay, ObjectsStay
    PROVE  ArchiveInv'
<1> USE DEF TypeOK
<1>1. TokensUnpublished'
  <2> SUFFICES ASSUME NEW w \in Workers, Working(w)', pc'[w] # "mark"
               PROVE  /\ \A e \in Exports : fileUrl'[e] # token'[w]
                      /\ \A v \in Workers : \A b \in batch'[v] :
                             b[2] # token'[w]
    BY DEF TokensUnpublished
  <2>1. Working(w) /\ pc[w] # "mark" /\ token'[w] = token[w]
    BY DEF RunsStay
  <2>2. token[w] # NoToken
    BY <2>1, ConstantsAssumption DEF LeaseInv, WorkersHaveTokens
  <2>3. \A e \in Exports : fileUrl[e] # token[w]
    BY <2>1 DEF ArchiveInv, TokensUnpublished
  <2>4. \A v \in Workers : \A b \in batch[v] : b[2] # token[w]
    BY <2>1 DEF ArchiveInv, TokensUnpublished
  <2>5. QED
    BY <2>1, <2>2, <2>3, <2>4 DEF RowsStay, PagesStay, Pair
<1>2. UploadedExists'
  <2> SUFFICES ASSUME NEW w \in Workers, pc'[w] = "publish", Fenced(w)'
               PROVE  <<job'[w], token'[w]>> \in objects'
    BY DEF UploadedExists
  <2>1. /\ Working(w) /\ pc[w] # "mark"
        /\ job'[w] = job[w] /\ token'[w] = token[w]
        /\ pc[w] = "publish" \/ <<job[w], token[w]>> \in objects'
    BY DEF RunsStay, Working, JobPcs
  <2>2. token[w] # NoToken /\ token[w] \in Tokens
    BY <2>1, ConstantsAssumption DEF LeaseInv, WorkersHaveTokens
  <2>3. Fenced(w) /\ status[job[w]] \in Claimable
    BY <2>1, <2>2 DEF RowsStay, Fenced, LeaseInv, LeasedIsOpen
  <2>4. CASE pc[w] = "publish"
    <3>1. <<job[w], token[w]>> \in objects
      BY <2>3, <2>4 DEF ArchiveInv, UploadedExists
    <3>2. ASSUME NEW v \in Workers, pc[v] \in {"withdraw", "clean"}
          PROVE  token[v] # token[w]
      BY <2>1, <2>4, <3>2 DEF LeaseInv, TokensDiffer, Working, JobPcs
    <3>3. ASSUME NEW v \in Workers, NEW b \in batch[v]
          PROVE  b[1] # job[w]
      BY <2>3, <3>3 DEF SettledInv, SweepsSettled, Claimable, Terminal
    <3> DEFINE o == <<job[w], token[w]>>
    <3>4. /\ \A v \in Workers : pc[v] \in {"withdraw", "clean"}
                                => o # <<job[v], token[v]>>
          /\ \A v \in Workers : \A b \in batch[v] : o # b /\ o[1] # b[1]
      BY <3>2, <3>3
    <3> HIDE DEF o
    <3>5. o \in objects'
      BY <3>1, <3>4 DEF ObjectsStay, o
    <3>6. QED
      BY <2>1, <3>5 DEF o
  <2>5. QED
    BY <2>1, <2>4
<1>3. OfferedArchiveExists'
  <2> SUFFICES ASSUME NEW e \in Exports, Offered(e)', ~expired'[e]
               PROVE  <<e, fileUrl'[e]>> \in objects'
    BY DEF OfferedArchiveExists, Pair
  <2>1. Offered(e) /\ ~expired[e] /\ fileUrl'[e] = fileUrl[e]
    BY DEF RowsStay, Offered
  <2>2. <<e, fileUrl[e]>> \in objects
    BY <2>1 DEF ArchiveInv, OfferedArchiveExists, Pair
  <2>3. ASSUME NEW v \in Workers, pc[v] \in {"withdraw", "clean"}
        PROVE  fileUrl[e] # token[v]
    BY <2>3 DEF ArchiveInv, TokensUnpublished, Working, JobPcs
  <2>4. ASSUME NEW v \in Workers, pc[v] \in Expiring, NEW b \in batch[v]
        PROVE  b[1] # e
    BY <2>1, <2>4 DEF SettledInv, SweepsSettled
  <2>5. ASSUME NEW v \in Workers, NEW b \in batch[v], b[1] = e
        PROVE  b = <<e, fileUrl[e]>>
    BY <2>1, <2>5 DEF SettledInv, SweepsSettled, Offered
  <2> DEFINE o == <<e, fileUrl[e]>>
  <2>6. /\ \A v \in Workers : pc[v] \in {"withdraw", "clean"}
                              => o # <<job[v], token[v]>>
        /\ \A v \in Workers : pc[v] \in Expiring => o \notin batch[v]
        /\ \A v \in Workers : \A b \in batch[v] : o[1] = b[1] => o = b
    BY <2>3, <2>4, <2>5
  <2> HIDE DEF o
  <2>7. o \in objects'
    BY <2>2, <2>6 DEF ObjectsStay, o
  <2>8. QED
    BY <2>1, <2>7 DEF o
<1>4. QED
  BY <1>1, <1>2, <1>3 DEF ArchiveInv

Stays == RunsStay /\ PagesStay /\ RowsStay /\ ObjectsStay

\* Requests and clocks are such steps.
LEMMA OutsideStays ==
    ASSUME TypeOK, LeaseInv, SettledInv, NEW e \in Exports,
           RequestStep(e) \/ ClockStep(e)
    PROVE  Stays
BY DEF TypeOK, RequestStep, ClockStep, CreateExport, RequestCancellation,
       SetHold, LeaseLapses, BackoffEnds, Expires, Ages, ReleaseLease, rowVars,
       clockVars, workVars, runVars, Stays, RunsStay, PagesStay, RowsStay,
       ObjectsStay, Working

\* So is every step of a worker that neither takes a lease nor publishes.
LEMMA WorkStays ==
    ASSUME TypeOK, LeaseInv, SettledInv, ~LostAnswers, NEW w \in Workers,
           JobStep(w) \/ FailureStep(w) \/ SweepStep(w),
           ~ClaimExport(w), ~PublishExport(w)
    PROVE  Stays
<1> USE DEF TypeOK, Stays, RunsStay, PagesStay, RowsStay, ObjectsStay, Working,
            JobPcs, Goto, EndJob, ForgetRun, rowVars, clockVars, runVars
<1>1. CASE \/ FindNextExportJob(w) \/ LoseClaim(w) \/ ReadRow(w)
           \/ FencedOut(w) \/ PublishRejected(w) \/ MarkMembersWritten(w)
           \/ EndTick(w)
  BY <1>1 DEF FindNextExportJob, LoseClaim, ReadRow, FencedOut,
              PublishRejected, MarkMembersWritten, EndTick
<1>2. CASE SetProcessing(w)
  BY <1>2 DEF SetProcessing
<1>3. CASE \E m \in Members, y \in BOOLEAN : ProcessMember(w, m, y)
  BY <1>3 DEF ProcessMember, BreakOff
<1>4. CASE FinishUpload(w)
  BY <1>4 DEF FinishUpload
<1>5. CASE WithdrawArchive(w)
  BY <1>5 DEF WithdrawArchive, RemoveQuietly
<1>6. CASE CleanUp(w)
  BY <1>6 DEF CleanUp, RemoveQuietly
<1>7. CASE FailExport(w)
  BY <1>7 DEF FailExport, ReleaseLease
<1>8. CASE FailureStep(w)
  <2>1. CASE \E c \in {"error", "cap"} : AssemblyFails(w, c)
    BY <2>1 DEF AssemblyFails, BreakOff
  <2>2. CASE PublishThrows(w)
    BY <2>2 DEF PublishThrows
  <2>3. CASE Crash(w)
    BY <2>3 DEF Crash
  <2>4. QED
    BY <1>8, <2>1, <2>2, <2>3 DEF FailureStep, MarkThrows
<1>9. CASE \/ StartSweep(w) \/ FilterHeld(w) \/ ExpiredDone(w) \/ SweepDone(w)
  <2>1. CASE StartSweep(w)
    BY <2>1 DEF StartSweep
  <2>2. CASE FilterHeld(w)
    BY <2>2 DEF FilterHeld
  <2>3. CASE ExpiredDone(w) \/ SweepDone(w)
    BY <2>3 DEF ExpiredDone, SweepDone
  <2>4. QED
    BY <1>9, <2>1, <2>2, <2>3
<1>10. CASE ReadExpired(w) \/ ReadTerminal(w)
  <2>1. \A b \in batch'[w] : \E e \in Exports : b = Pair(e)
    BY <1>10 DEF ReadExpired, ReadTerminal, Page
  <2>2. \A v \in Workers \ {w} : batch'[v] = batch[v]
    BY <1>10 DEF ReadExpired, ReadTerminal
  <2>3. PagesStay
    BY <2>1, <2>2
  <2>4. RunsStay
    BY <1>10 DEF ReadExpired, ReadTerminal
  <2>5. QED
    BY <1>10, <2>3, <2>4 DEF ReadExpired, ReadTerminal
<1>11. ASSUME NEW b \in batch[w], RemoveExpired(w, b) PROVE Stays
  BY <1>11 DEF RemoveExpired, Expiring
<1>12. CASE ForgetArchive(w)
  BY <1>12 DEF ForgetArchive
<1>13. ASSUME NEW b \in batch[w], RemoveOrphans(w, b) PROVE Stays
  BY <1>13 DEF RemoveOrphans, Orphans
<1>14. QED
  BY <1>1, <1>2, <1>3, <1>4, <1>5, <1>6, <1>7, <1>8, <1>9, <1>10, <1>11,
     <1>12, <1>13 DEF JobStep, SweepStep

\* A claim draws a token that nothing refers to.
LEMMA ClaimArchive ==
    ASSUME TypeOK, LeaseInv, ArchiveInv, NEW w \in Workers, ClaimExport(w)
    PROVE  ArchiveInv'
<1> USE DEF TypeOK
<1>1. PICK t \in Tokens :
            /\ Fresh(t)
            /\ leaseToken' = [leaseToken EXCEPT ![job[w]] = t]
            /\ token' = [token EXCEPT ![w] = t]
  BY DEF ClaimExport
<1>2. /\ pc[w] = "claim" /\ pc' = [pc EXCEPT ![w] = "read"]
      /\ UNCHANGED <<status, fileUrl, expired, objects, job, batch>>
  BY DEF ClaimExport, Goto, clockVars
<1>3. TokensUnpublished'
  BY <1>1, <1>2 DEF ArchiveInv, TokensUnpublished, Fresh, Working, JobPcs
<1>4. UploadedExists'
  <2> SUFFICES ASSUME NEW v \in Workers, pc'[v] = "publish", Fenced(v)'
               PROVE  <<job'[v], token'[v]>> \in objects'
    BY DEF UploadedExists
  <2>1. v # w /\ pc[v] = "publish" /\ token'[v] = token[v]
    BY <1>1, <1>2
  <2>2. Fenced(v)
    BY <1>1, <1>2, <2>1 DEF Fenced, Fresh
  <2>3. QED
    BY <1>2, <2>1, <2>2 DEF ArchiveInv, UploadedExists
<1>5. OfferedArchiveExists'
  BY <1>2 DEF ArchiveInv, OfferedArchiveExists, Offered, Pair
<1>6. QED
  BY <1>3, <1>4, <1>5 DEF ArchiveInv

\* A publication offers the object that its run uploaded.
LEMMA PublishArchive ==
    ASSUME TypeOK, LeaseInv, ArchiveInv, NEW w \in Workers, PublishExport(w)
    PROVE  ArchiveInv'
<1> USE DEF TypeOK
<1>1. /\ pc[w] = "publish" /\ Fenced(w)
      /\ pc' = [pc EXCEPT ![w] = "mark"]
      /\ status' = [status EXCEPT ![job[w]] = "complete"]
      /\ fileUrl' = [fileUrl EXCEPT ![job[w]] = token[w]]
      /\ leaseToken' = [leaseToken EXCEPT ![job[w]] = NoToken]
      /\ UNCHANGED <<expired, objects, job, token, batch>>
  BY DEF PublishExport, Publish, ReleaseLease, Goto, clockVars, runVars
<1>2. Working(w)
  BY <1>1 DEF Working, JobPcs
<1>3. ASSUME NEW v \in Workers, Working(v)', pc'[v] # "mark"
      PROVE  /\ v # w /\ Working(v) /\ pc'[v] = pc[v] /\ token[v] # token[w]
             /\ token[v] \in Tokens
  BY <1>1, <1>2, <1>3
     DEF LeaseInv, TokensDiffer, WorkersHaveTokens, Working
<1>4. TokensUnpublished'
  BY <1>1, <1>3 DEF ArchiveInv, TokensUnpublished
<1>5. UploadedExists'
  <2> SUFFICES ASSUME NEW v \in Workers, pc'[v] = "publish", Fenced(v)'
               PROVE  <<job'[v], token'[v]>> \in objects'
    BY DEF UploadedExists
  <2>1. /\ v # w /\ pc[v] = "publish" /\ token[v] # token[w]
        /\ token[v] # NoToken
    BY <1>3, ConstantsAssumption DEF Working, JobPcs
  <2>2. Fenced(v)
    BY <1>1, <2>1 DEF Fenced
  <2>3. QED
    BY <1>1, <2>1, <2>2 DEF ArchiveInv, UploadedExists
<1>6. <<job[w], token[w]>> \in objects
  BY <1>1 DEF ArchiveInv, UploadedExists
<1>7. OfferedArchiveExists'
  <2> SUFFICES ASSUME NEW e \in Exports, Offered(e)', ~expired'[e]
               PROVE  <<e, fileUrl'[e]>> \in objects'
    BY DEF OfferedArchiveExists, Pair
  <2>1. CASE e = job[w]
    BY <1>1, <1>6, <2>1
  <2>2. CASE e # job[w]
    BY <1>1, <2>2 DEF ArchiveInv, OfferedArchiveExists, Offered, Pair
  <2>3. QED
    BY <2>1, <2>2
<1>8. QED
  BY <1>4, <1>5, <1>7 DEF ArchiveInv

\* Every action keeps the archives.
LEMMA ArchiveStep ==
    ASSUME TypeOK, LeaseInv, SettledInv, ArchiveInv, ~LostAnswers, [Next]_vars
    PROVE  ArchiveInv'
<1>1. ASSUME Stays PROVE ArchiveInv'
  BY <1>1, StayKeeps DEF Stays
<1>2. CASE UNCHANGED vars
  BY <1>2 DEF vars, rowVars, clockVars, workVars, runVars, ArchiveInv,
              TokensUnpublished, UploadedExists, OfferedArchiveExists, Offered,
              Pair, Working, Fenced
<1>3. QED
  BY <1>1, <1>2, OutsideStays, WorkStays, ClaimArchive, PublishArchive DEF Next

\* As long as the publishing statement's answer arrives and the write after it
\* succeeds (LostAnswers is false), a completed export that has not expired can
\* be downloaded: no superseded worker, failed run or sweep deletes the object
\* its fileUrl names (exportRunner.ts, exportSweeper.ts).  Otherwise the worker
\* deletes the archive it has just published.
THEOREM ArchivesStay ==
    ASSUME ~LostAnswers
    PROVE  Spec => []OfferedArchiveExists
<1>1. Init => ArchiveInv
  BY DEF Init, ArchiveInv, TokensUnpublished, UploadedExists,
         OfferedArchiveExists, Offered, Working, JobPcs
<1>2. /\ TypeOK /\ LeaseInv /\ SettledInv
      /\ ArchiveInv
      /\ [Next]_vars
      => ArchiveInv'
  BY ArchiveStep
<1>3. ArchiveInv => OfferedArchiveExists
  BY DEF ArchiveInv
<1>4. QED
  BY <1>1, <1>2, <1>3, SettledInvariant, PTL DEF Spec
=============================================================================
