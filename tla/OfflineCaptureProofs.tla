------------------------ MODULE OfflineCaptureProofs ------------------------
(***************************************************************************)
(* Proofs about what a foreman captures without a connection, for any      *)
(* captures, any number of passes at once and any bounds: it reaches the   *)
(* server once, nothing leaves the queue before the server has it, a       *)
(* docket follows its delivery, and refusals stand.                        *)
(*                                                                         *)
(* A pass acts on answers that it got earlier, beside other passes.  What  *)
(* makes that safe is that the server's side only grows: PassKnows says    *)
(* what a pass at each step may rely on, and all of it is about rows and   *)
(* evidence that are never taken back.                                     *)
(***************************************************************************)
EXTENDS OfflineCapture, TLAPS

\* What the server has for a capture, by the step its pass is at.
PassKnows(w) ==
    LET c == Capture(w) IN
    /\ worker[w].step \in {"posted", "relinked"} => Row(w)
    /\ worker[w].step \in {"uploaded", "attach", "attached", "finished", "unsent"} => ~Row(w)
    /\ (At(w, "posted") /\ worker[w].answer = "ok") \/ At(w, "relinked") => rows[c] > 0
    /\ (At(w, "attached") /\ worker[w].answer = "ok") \/ At(w, "finished") => c \in linked

PassesKnow == \A w \in Workers : PassKnows(w)

\* Only captures are worked on, and a photo and its document belong to one.
Underway ==
    /\ queue \subseteq Made
    /\ \A w \in Workers : worker[w].todo \subseteq Made
    /\ \A c \in Captures : photo[c] # NoPhoto \/ documents[c] > 0 => kind[c] # "none"

\* A photo filed under a server's row has one there.
FiledKnown == \A c \in Captures : photo[c].filed = "row" => rows[c] > 0

IInv == /\ TypeOK /\ Underway /\ PassesKnow /\ FiledKnown
        /\ CapturedOnce /\ NothingVanishes /\ DocketsFollowDeliveries

-----------------------------------------------------------------------------
(* Entries and passes. *)

LEMMA TaskParts ==
    /\ \A t \in Tasks : /\ t[1] \in Captures /\ t[2] \in {"row", "photo"}
                       /\ t = <<t[1], t[2]>>
    /\ \A c \in Captures, k \in {"row", "photo"} :
          <<c, k>> \in Tasks /\ <<c, k>>[1] = c /\ <<c, k>>[2] = k
BY DEF Tasks

LEMMA IdleTyped == Idle \in SyncPass /\ Idle.step = "idle" /\ Idle.todo = {} /\ Idle.answer = "none"
<1>1. 0 \in 0..MaxAttempts
  BY ConstantsAssumption
<1> QED BY <1>1 DEF Idle, SyncPass

\* Whose pass a step changes, and what it does to the pass of the worker.
Moved(w) ==
    /\ worker' \in [Workers -> SyncPass]
    /\ \A x \in Workers \ {w} : worker'[x] = worker[x]
    /\ worker'[w].todo \subseteq worker[w].todo \cup queue
    /\ worker'[w].step # "idle" => worker'[w].task \in worker'[w].todo

LEMMA PassMoves ==
    ASSUME TypeOK, NEW w \in Workers, NEW todo \in SUBSET (worker[w].todo \cup queue), Pass(w, todo)
    PROVE  Moved(w) /\ worker'[w].step \in {"idle", "visit"}
<1>1. todo \subseteq Tasks /\ worker \in [Workers -> SyncPass]
  BY DEF TypeOK, SyncPass
<1>2. CASE worker' = [worker EXCEPT ![w] = Idle]
  BY <1>1, <1>2, IdleTyped DEF Moved
<1>3. CASE \E t \in Oldest(todo) : worker' = [worker EXCEPT ![w] =
              [Idle EXCEPT !.step = "visit", !.todo = todo, !.task = t]]
  <2>1. PICK t \in todo : worker' = [worker EXCEPT ![w] =
              [Idle EXCEPT !.step = "visit", !.todo = todo, !.task = t]]
    BY <1>3 DEF Oldest
  <2> DEFINE p == [Idle EXCEPT !.step = "visit", !.todo = todo, !.task = t]
  <2>2. p \in SyncPass /\ p.step = "visit" /\ p.todo = todo /\ p.task = t
    <3>1. 0 \in 0..MaxAttempts /\ t \in Tasks
      BY <1>1, ConstantsAssumption
    <3> QED BY <1>1, <3>1 DEF Idle, SyncPass
  <2>3. worker' = [worker EXCEPT ![w] = p]
    BY <2>1
  <2> HIDE DEF p
  <2> QED BY <1>1, <2>2, <2>3 DEF Moved
<1> QED BY <1>2, <1>3 DEF Pass

LEMMA AdvanceMoves ==
    ASSUME TypeOK, NEW w \in Workers, Advance(w)
    PROVE  Moved(w) /\ worker'[w].step \in {"idle", "visit"}
BY PassMoves DEF Advance

\* A step of the pass within one entry.
Within(w, step, answer) ==
    /\ worker'[w].todo = worker[w].todo /\ worker'[w].task = worker[w].task
    /\ worker'[w].step = step /\ worker'[w].answer = answer

Steps == {"posted", "relinked", "uploaded", "attach", "attached", "finished", "failing", "unsent"}

LEMMA GoesMoves ==
    ASSUME TypeOK, NEW w \in Workers, ~At(w, "idle"), NEW step \in Steps,
           NEW answer \in {"none", "ok", "error", "refused"}, Goes(w, step, answer)
    PROVE  Moved(w) /\ Within(w, step, answer)
<1>1. worker[w] \in SyncPass /\ worker \in [Workers -> SyncPass] /\ worker[w].task \in worker[w].todo
  BY DEF TypeOK, Task
<1> QED BY <1>1 DEF Goes, Moved, Within, SyncPass, Steps

LEMMA ReadMoves ==
    ASSUME TypeOK, NEW w \in Workers, ~At(w, "idle"), NEW step \in {"failing", "unsent"},
           ReadAttempts(w, step)
    PROVE  Moved(w) /\ Within(w, step, "none")
<1>1. worker[w] \in SyncPass /\ worker \in [Workers -> SyncPass] /\ worker[w].task \in worker[w].todo
  BY DEF TypeOK, Task
<1>2. attempts[Task(w)] \in 0..MaxAttempts
  BY <1>1 DEF TypeOK, SyncPass, Task
<1> QED BY <1>1, <1>2 DEF ReadAttempts, Moved, Within, SyncPass

\* What a pass at work is at: an entry of its copy, so a capture.
LEMMA AtWork ==
    ASSUME TypeOK, NEW w \in Workers, ~At(w, "idle")
    PROVE  /\ Task(w) \in worker[w].todo /\ Task(w) \in Tasks
           /\ Capture(w) \in Captures
           /\ Row(w) => Task(w) = <<Capture(w), "row">>
           /\ ~Row(w) => Task(w) = <<Capture(w), "photo">>
<1>1. Task(w) \in worker[w].todo /\ Task(w) \in Tasks
  BY DEF TypeOK, SyncPass
<1> QED BY <1>1, TaskParts DEF Capture, Row

LEMMA InitIInv == Init => IInv
<1> SUFFICES ASSUME Init PROVE IInv
  OBVIOUS
<1>1. 0 \in 0..MaxAttempts /\ 0 \in 0..MaxClosings /\ NoPhoto \in Photos
  BY ConstantsAssumption DEF NoPhoto, Photos
<1>2. TypeOK
  BY <1>1, IdleTyped DEF Init, TypeOK, At
<1>3. Underway
  BY IdleTyped DEF Init, Underway
<1>4. PassesKnow
  BY IdleTyped DEF Init, PassesKnow, PassKnows, At
<1>5. FiledKnown /\ CapturedOnce /\ NothingVanishes /\ DocketsFollowDeliveries
  BY DEF Init, FiledKnown, CapturedOnce, NothingVanishes, DocketsFollowDeliveries, NoPhoto
<1> QED BY <1>2, <1>3, <1>4, <1>5 DEF IInv

-----------------------------------------------------------------------------
(* What a step of a pass may do to the entries, the photos and the server. *)

\* An entry leaves when the server has its row or its evidence, or the photo is gone.
EntriesStep ==
    /\ queue' \subseteq queue /\ UNCHANGED ahead
    /\ attempts' \in [Tasks -> 0..MaxAttempts] /\ terminal' \subseteq queue'
    /\ \A c \in Captures :
          /\ <<c, "row">> \in queue \ queue' => rows[c] > 0
          /\ <<c, "photo">> \in queue \ queue' => c \in linked \/ ~Stored(c)

\* A stored photo stays one, and is filed or synced when the server knows.
PhotoStep ==
    /\ photo' \in [Captures -> Photos]
    /\ \A c \in Captures : photo'[c] # photo[c] =>
          /\ Stored(c) /\ photo'[c].state \in {"pending", "error", "synced"}
          /\ photo'[c].state = "synced" => c \in linked
          /\ photo'[c].filed = "row" => rows[c] > 0

\* The server only gains.
ServerStep ==
    /\ rows' \in [Captures -> Nat] /\ documents' \in [Captures -> Nat] /\ linked' \subseteq Captures
    /\ linked \subseteq linked'
    /\ \A c \in Captures :
          /\ rows[c] > 0 => rows'[c] > 0
          /\ rows'[c] <= 1 /\ documents'[c] <= 1
          /\ documents'[c] > 0 => kind[c] # "none" /\ (kind[c] = "delivery" => rows[c] > 0)

LEMMA EntriesKept ==
    ASSUME IInv, UNCHANGED entries
    PROVE  EntriesStep
BY DEF IInv, TypeOK, entries, EntriesStep

LEMMA EntriesRefused ==
    ASSUME IInv, NEW t \in Tasks, Refused(t)
    PROVE  EntriesStep
<1>1. MaxAttempts \in 0..MaxAttempts
  BY ConstantsAssumption
<1> QED BY <1>1 DEF IInv, TypeOK, Refused, Queued, EntriesStep

LEMMA EntriesRemoved ==
    ASSUME IInv, NEW w \in Workers, ~At(w, "idle"), Removed(Task(w)),
           Row(w) => rows[Capture(w)] > 0,
           ~Row(w) => Capture(w) \in linked \/ ~Stored(Capture(w))
    PROVE  EntriesStep
<1>1. /\ Task(w) \in Tasks
      /\ Row(w) => Task(w) = <<Capture(w), "row">>
      /\ ~Row(w) => Task(w) = <<Capture(w), "photo">>
  BY AtWork DEF IInv
<1>2. /\ queue' = queue \ {Task(w)} /\ UNCHANGED ahead
      /\ attempts' \in [Tasks -> 0..MaxAttempts] /\ terminal' \subseteq queue'
  BY <1>1, ConstantsAssumption DEF Removed, IInv, TypeOK
<1>3. ASSUME NEW c \in Captures
      PROVE  /\ <<c, "row">> \in queue \ queue' => rows[c] > 0
             /\ <<c, "photo">> \in queue \ queue' => c \in linked \/ ~Stored(c)
  <2>1. <<c, "row">> \in queue \ queue' => Row(w) /\ Capture(w) = c
    BY <1>1, <1>2
  <2>2. <<c, "photo">> \in queue \ queue' => ~Row(w) /\ Capture(w) = c
    BY <1>1, <1>2
  <2> QED BY <2>1, <2>2
<1> QED BY <1>2, <1>3 DEF EntriesStep

LEMMA PhotosKept ==
    ASSUME IInv, UNCHANGED photo
    PROVE  PhotoStep
BY DEF IInv, TypeOK, PhotoStep

LEMMA PhotoMarked ==
    ASSUME IInv, NEW c \in Captures, NEW state \in {"error", "synced"}, MarkPhoto(c, state),
           state = "synced" => c \in linked
    PROVE  PhotoStep
<1>1. photo \in [Captures -> Photos]
  BY DEF IInv, TypeOK
<1>2. photo' \in [Captures -> Photos] /\ photo'[c].filed = photo[c].filed
      /\ (photo'[c].state = IF Stored(c) THEN state ELSE photo[c].state)
      /\ (~Stored(c) => photo'[c] = photo[c])
      /\ \A d \in Captures \ {c} : photo'[d] = photo[d]
  BY <1>1 DEF MarkPhoto, Photos
<1> QED BY <1>2 DEF PhotoStep, IInv, FiledKnown

LEMMA ServerKept ==
    ASSUME IInv, UNCHANGED server
    PROVE  ServerStep
BY DEF IInv, TypeOK, server, ServerStep, CapturedOnce, DocketsFollowDeliveries, Underway

\* A step of one pass that keeps to all this keeps the invariant.
LEMMA PassStep ==
    ASSUME IInv, NEW w \in Workers, Moved(w), PassKnows(w)', UNCHANGED kind,
           EntriesStep, PhotoStep, ServerStep, closings' \in 0..MaxClosings
    PROVE  IInv'
<1>1. TypeOK'
  BY DEF IInv, TypeOK, Moved, EntriesStep, PhotoStep, ServerStep, At, Task
<1>2. Underway'
  <2>1. Made' = Made
    <3>1. \A c \in Captures : photo'[c].state = "none" <=> photo[c].state = "none"
      BY DEF PhotoStep, Stored
    <3> QED BY <3>1, TaskParts DEF Made
  <2>2. \A x \in Workers : worker'[x].todo \subseteq Made
    BY DEF Moved, IInv, Underway
  <2>3. ASSUME NEW c \in Captures, photo'[c] # NoPhoto \/ documents'[c] > 0
        PROVE  kind'[c] # "none"
    <3>1. photo[c] = NoPhoto => ~Stored(c)
      BY DEF NoPhoto, Stored
    <3> QED BY <2>3, <3>1 DEF PhotoStep, ServerStep, IInv, Underway
  <2> QED BY <2>1, <2>2, <2>3 DEF IInv, Underway, EntriesStep
<1>3. PassesKnow'
  <2>1. ASSUME NEW x \in Workers, x # w PROVE PassKnows(x)'
    <3>1. worker'[x] = worker[x] /\ PassKnows(x)
      BY <2>1 DEF Moved, IInv, PassesKnow
    <3>2. CASE At(x, "idle")
      BY <3>1, <3>2 DEF PassKnows, At
    <3>3. CASE ~At(x, "idle")
      <4>1. Capture(x) \in Captures
        BY <3>3, AtWork DEF IInv
      <4> QED BY <3>1, <4>1 DEF PassKnows, At, Capture, Row, Task, ServerStep
    <3> QED BY <3>2, <3>3
  <2> QED BY <2>1 DEF PassesKnow
<1>4. FiledKnown' /\ CapturedOnce' /\ DocketsFollowDeliveries'
  BY DEF IInv, FiledKnown, CapturedOnce, DocketsFollowDeliveries, PhotoStep, ServerStep
<1>5. NothingVanishes'
  <2> SUFFICES ASSUME NEW c \in Captures
               PROVE  /\ kind'[c] # "none" /\ <<c, "row">> \notin queue' => rows'[c] > 0
                      /\ photo'[c].state \in {"pending", "error"} =>
                            <<c, "photo">> \in queue' \/ c \in linked'
                      /\ photo'[c].state = "synced" => c \in linked'
    BY DEF NothingVanishes, Queued
  <2>1. /\ kind[c] # "none" /\ <<c, "row">> \notin queue => rows[c] > 0
        /\ photo[c].state \in {"pending", "error"} => <<c, "photo">> \in queue \/ c \in linked
        /\ photo[c].state = "synced" => c \in linked
    BY DEF IInv, NothingVanishes, Queued
  <2>2. kind'[c] # "none" /\ <<c, "row">> \notin queue' => rows'[c] > 0
    BY <2>1 DEF EntriesStep, ServerStep
  <2>3. photo'[c].state = "synced" => c \in linked'
    BY <2>1 DEF PhotoStep, ServerStep
  <2>4. photo'[c].state \in {"pending", "error"} => <<c, "photo">> \in queue' \/ c \in linked'
    BY <2>1 DEF EntriesStep, PhotoStep, ServerStep, Stored
  <2> QED BY <2>2, <2>3, <2>4
<1> QED BY <1>1, <1>2, <1>3, <1>4, <1>5 DEF IInv

-----------------------------------------------------------------------------
(* Each step of a pass. *)

\* At these steps a pass relies on nothing.
LEMMA NothingToKnow ==
    ASSUME NEW w \in Workers, worker'[w].step \in {"idle", "visit", "failing"}
    PROVE  PassKnows(w)'
BY DEF PassKnows, At

LEMMA BeginKeeps ==
    ASSUME IInv, NEW w \in Workers, Begin(w)
    PROVE  IInv'
<1>1. Moved(w) /\ worker'[w].step \in {"idle", "visit"}
  <2> DEFINE live == {t \in queue : ~Dead(t)}
  <2>1. Pass(w, live) /\ live \in SUBSET (worker[w].todo \cup queue)
    BY DEF Begin
  <2> HIDE DEF live
  <2> QED BY <2>1, PassMoves DEF IInv
<1>2. UNCHANGED entries /\ UNCHANGED photo /\ UNCHANGED server /\ UNCHANGED closings /\ UNCHANGED kind
  BY DEF Begin
<1>3. closings' \in 0..MaxClosings
  BY <1>2 DEF IInv, TypeOK
<1> QED BY <1>1, <1>2, <1>3, NothingToKnow, EntriesKept, PhotosKept, ServerKept, PassStep

LEMMA PostRowKeeps ==
    ASSUME IInv, NEW w \in Workers, PostRow(w)
    PROVE  IInv'
<1>1. ~At(w, "idle") /\ Row(w) /\ Capture(w) \in Captures
  BY AtWork DEF PostRow, At, IInv
<1>2. PICK answer \in Answers :
        /\ Goes(w, "posted", answer)
        /\ \E done \in Done(answer) :
              rows' = [rows EXCEPT ![Capture(w)] = IF done THEN Kept(@) ELSE @]
  BY DEF PostRow
<1>3. answer \in {"ok", "error", "refused"}
  BY DEF Answers
<1>4. PICK done \in Done(answer) :
        rows' = [rows EXCEPT ![Capture(w)] = IF done THEN Kept(@) ELSE @]
  BY <1>2
<1>5. Moved(w) /\ Within(w, "posted", answer)
  BY <1>1, <1>2, <1>3, GoesMoves DEF Steps, IInv
<1>6. answer = "ok" => done
  BY DEF Done
<1>7. ServerStep /\ (done => rows'[Capture(w)] > 0)
  BY <1>1, <1>4 DEF PostRow, IInv, TypeOK, ServerStep, CapturedOnce, DocketsFollowDeliveries,
                    Underway, Kept
<1>8. PassKnows(w)'
  BY <1>1, <1>5, <1>6, <1>7 DEF PassKnows, At, Within, Capture, Row, Task
<1>9. /\ UNCHANGED entries /\ UNCHANGED photo /\ UNCHANGED kind
      /\ closings' \in 0..MaxClosings
  BY DEF PostRow, IInv, TypeOK
<1> QED BY <1>5, <1>7, <1>8, <1>9, EntriesKept, PhotosKept, PassStep

LEMMA RelinkPhotoKeeps ==
    ASSUME IInv, NEW w \in Workers, RelinkPhoto(w)
    PROVE  IInv'
<1> DEFINE c == Capture(w)
<1>1. ~At(w, "idle") /\ c \in Captures /\ Row(w) /\ rows[c] > 0
  BY AtWork DEF RelinkPhoto, At, IInv, PassesKnow, PassKnows
<1>2. Moved(w) /\ Within(w, "relinked", "ok")
  BY <1>1, GoesMoves DEF RelinkPhoto, Steps, IInv
<1>3. PhotoStep
  <2>1. photo \in [Captures -> Photos]
    BY DEF IInv, TypeOK
  <2>2. photo' = [photo EXCEPT ![c].filed = IF Stored(c) THEN "row" ELSE @]
    BY DEF RelinkPhoto
  <2>3. /\ photo' \in [Captures -> Photos] /\ photo'[c].state = photo[c].state
        /\ (~Stored(c) => photo'[c] = photo[c])
        /\ \A d \in Captures \ {c} : photo'[d] = photo[d]
    BY <1>1, <2>1, <2>2 DEF Photos
  <2> HIDE DEF c
  <2> QED BY <1>1, <2>3 DEF PhotoStep, Stored, IInv, NothingVanishes
<1>4. /\ UNCHANGED entries /\ UNCHANGED server /\ UNCHANGED kind
      /\ closings' \in 0..MaxClosings
  BY DEF RelinkPhoto, IInv, TypeOK
<1>5. PassKnows(w)'
  BY <1>1, <1>2, <1>4 DEF PassKnows, At, Within, Capture, Row, Task, server
<1> QED BY <1>2, <1>3, <1>4, <1>5, EntriesKept, ServerKept, PassStep

LEMMA FinishRowKeeps ==
    ASSUME IInv, NEW w \in Workers, FinishRow(w)
    PROVE  IInv'
<1>1. ~At(w, "idle") /\ Row(w) /\ rows[Capture(w)] > 0
  BY DEF FinishRow, At, IInv, PassesKnow, PassKnows
<1>2. Moved(w) /\ worker'[w].step \in {"idle", "visit"}
  BY AdvanceMoves DEF FinishRow, IInv
<1>3. EntriesStep
  BY <1>1, EntriesRemoved DEF FinishRow
<1>4. /\ UNCHANGED photo /\ UNCHANGED server /\ UNCHANGED kind
      /\ closings' \in 0..MaxClosings
  BY DEF FinishRow, IInv, TypeOK
<1> QED BY <1>2, <1>3, <1>4, NothingToKnow, PhotosKept, ServerKept, PassStep

\* A failure that is to be counted, or a refusal that is marked.
LEMMA UnsettledMoves ==
    ASSUME IInv, NEW w \in Workers, ~At(w, "idle"), NEW step \in {"failing", "unsent"},
           step = "unsent" => ~Row(w), Unsettled(w, step)
    PROVE  Moved(w) /\ PassKnows(w)' /\ EntriesStep
<1>1. CASE worker[w].answer = "refused"
  <2>1. Refused(Task(w)) /\ Advance(w) /\ Task(w) \in Tasks
    BY <1>1, AtWork DEF Unsettled, IInv
  <2> QED BY <2>1, AdvanceMoves, NothingToKnow, EntriesRefused DEF IInv
<1>2. CASE worker[w].answer # "refused"
  <2>1. ReadAttempts(w, step) /\ UNCHANGED entries
    BY <1>2 DEF Unsettled
  <2>2. Moved(w) /\ Within(w, step, "none")
    BY <2>1, ReadMoves DEF IInv
  <2>3. PassKnows(w)'
    BY <2>2 DEF PassKnows, At, Within, Capture, Row, Task
  <2> QED BY <2>1, <2>2, <2>3, EntriesKept
<1> QED BY <1>1, <1>2

LEMMA RowFailedKeeps ==
    ASSUME IInv, NEW w \in Workers, RowFailed(w)
    PROVE  IInv'
<1>1. Moved(w) /\ PassKnows(w)' /\ EntriesStep
  BY UnsettledMoves DEF RowFailed, At
<1>2. /\ UNCHANGED photo /\ UNCHANGED server /\ UNCHANGED kind
      /\ closings' \in 0..MaxClosings
  BY DEF RowFailed, IInv, TypeOK
<1> QED BY <1>1, <1>2, PhotosKept, ServerKept, PassStep

LEMMA MarkFailedKeeps ==
    ASSUME IInv, NEW w \in Workers, MarkFailed(w)
    PROVE  IInv'
<1>1. ~At(w, "idle") /\ Task(w) \in Tasks /\ Capture(w) \in Captures
  BY AtWork DEF MarkFailed, At, IInv
<1>2. Moved(w) /\ worker'[w].step \in {"idle", "visit"}
  BY AdvanceMoves DEF MarkFailed, IInv
<1>3. EntriesStep
  <2>1. worker[w].count \in 0..MaxAttempts
    BY DEF IInv, TypeOK, SyncPass
  <2>2. Counted(Task(w), worker[w].count) \in 0..MaxAttempts
    BY <2>1, ConstantsAssumption DEF Counted
  <2>3. attempts' \in [Tasks -> 0..MaxAttempts]
    BY <1>1, <2>2 DEF MarkFailed, IInv, TypeOK
  <2> QED BY <2>3 DEF MarkFailed, IInv, TypeOK, EntriesStep
<1>4. PhotoStep
  <2>1. CASE At(w, "unsent")
    BY <1>1, <2>1, PhotoMarked DEF MarkFailed
  <2>2. CASE ~At(w, "unsent")
    BY <2>2, PhotosKept DEF MarkFailed
  <2> QED BY <2>1, <2>2
<1>5. UNCHANGED server /\ UNCHANGED kind /\ closings' \in 0..MaxClosings
  BY DEF MarkFailed, IInv, TypeOK
<1> QED BY <1>2, <1>3, <1>4, <1>5, NothingToKnow, ServerKept, PassStep

LEMMA PhotoGoneKeeps ==
    ASSUME IInv, NEW w \in Workers, PhotoGone(w)
    PROVE  IInv'
<1>1. Moved(w) /\ worker'[w].step \in {"idle", "visit"}
  BY AdvanceMoves DEF PhotoGone, IInv
<1>2. EntriesStep
  BY EntriesRemoved DEF PhotoGone, At
<1>3. /\ UNCHANGED photo /\ UNCHANGED server /\ UNCHANGED kind
      /\ closings' \in 0..MaxClosings
  BY DEF PhotoGone, IInv, TypeOK
<1> QED BY <1>1, <1>2, <1>3, NothingToKnow, PhotosKept, ServerKept, PassStep

LEMMA WaitForRowKeeps ==
    ASSUME IInv, NEW w \in Workers, WaitForRow(w)
    PROVE  IInv'
<1>1. Moved(w) /\ worker'[w].step = "failing"
  BY ReadMoves DEF WaitForRow, At, IInv, Within
<1>2. /\ UNCHANGED entries /\ UNCHANGED photo /\ UNCHANGED server /\ UNCHANGED kind
      /\ closings' \in 0..MaxClosings
  BY DEF WaitForRow, IInv, TypeOK
<1> QED BY <1>1, <1>2, NothingToKnow, EntriesKept, PhotosKept, ServerKept, PassStep

\* What the pass reads of the photo goes with it.
LEMMA PhotoRead ==
    ASSUME IInv, NEW w \in Workers, ~At(w, "idle"), NEW step \in Steps,
           NEW filed \in {"device", "row"}, NEW answer \in {"none", "ok", "error", "refused"},
           worker' = [worker EXCEPT ![w].step = step, ![w].filed = filed, ![w].answer = answer]
    PROVE  Moved(w) /\ Within(w, step, answer)
<1>1. worker[w] \in SyncPass /\ worker \in [Workers -> SyncPass] /\ worker[w].task \in worker[w].todo
  BY DEF IInv, TypeOK, Task
<1> QED BY <1>1 DEF Moved, Within, SyncPass, Steps

LEMMA UploadKeeps ==
    ASSUME IInv, NEW w \in Workers, Upload(w)
    PROVE  IInv'
<1> DEFINE c == Capture(w)
<1>1. ~At(w, "idle") /\ ~Row(w) /\ c \in Captures /\ ~MustWait(c)
  BY AtWork DEF Upload, Ready, At, IInv
<1>2. PICK answer \in Answers :
        /\ worker' = [worker EXCEPT ![w].step = "uploaded", ![w].filed = photo[c].filed,
                                    ![w].answer = answer]
        /\ \E done \in Done(answer) :
              documents' = [documents EXCEPT ![c] = IF done THEN Kept(@) ELSE @]
  BY DEF Upload
<1>3. PICK done \in Done(answer) :
        documents' = [documents EXCEPT ![c] = IF done THEN Kept(@) ELSE @]
  BY <1>2
<1>4. Moved(w) /\ Within(w, "uploaded", answer)
  <2>1. answer \in {"none", "ok", "error", "refused"} /\ photo[c].filed \in {"device", "row"}
    BY <1>1 DEF Answers, IInv, TypeOK, Photos
  <2> HIDE DEF c
  <2> QED BY <1>1, <1>2, <2>1, PhotoRead DEF Steps
<1>5. ServerStep
  <2>1. kind[c] = "delivery" => rows[c] > 0
    BY <1>1 DEF MustWait, IInv, TypeOK, Photos, FiledKnown
  <2>2. kind[c] # "none"
    BY <1>1 DEF Upload, Ready, Stored, IInv, Underway, NoPhoto
  <2>3. rows' = rows /\ linked' = linked /\ kind' = kind
    BY DEF Upload
  <2> HIDE DEF c
  <2> QED BY <1>1, <1>3, <2>1, <2>2, <2>3
          DEF IInv, TypeOK, ServerStep, CapturedOnce, DocketsFollowDeliveries, Underway, Kept
<1>6. PassKnows(w)'
  BY <1>1, <1>4 DEF PassKnows, At, Within, Capture, Row, Task
<1>7. /\ UNCHANGED entries /\ UNCHANGED photo /\ UNCHANGED kind
      /\ closings' \in 0..MaxClosings
  BY DEF Upload, IInv, TypeOK
<1> QED BY <1>4, <1>5, <1>6, <1>7, EntriesKept, PhotosKept, PassStep

LEMMA SkipUploadKeeps ==
    ASSUME IInv, NEW w \in Workers, SkipUpload(w)
    PROVE  IInv'
<1>1. ~At(w, "idle") /\ ~Row(w) /\ Capture(w) \in Captures
  BY AtWork DEF SkipUpload, Ready, At, IInv
<1>2. worker' = [worker EXCEPT ![w].step = "attach", ![w].filed = photo[Capture(w)].filed]
  BY DEF SkipUpload
<1>3. photo[Capture(w)].filed \in {"device", "row"} /\ worker[w] \in SyncPass
      /\ worker \in [Workers -> SyncPass] /\ worker[w].task \in worker[w].todo
  BY <1>1 DEF IInv, TypeOK, Photos, Task
<1>4. Moved(w) /\ Within(w, "attach", worker[w].answer)
  BY <1>2, <1>3 DEF Moved, Within, SyncPass
<1>5. PassKnows(w)'
  BY <1>1, <1>4 DEF PassKnows, At, Within, Capture, Row, Task
<1>6. /\ UNCHANGED entries /\ UNCHANGED photo /\ UNCHANGED server /\ UNCHANGED kind
      /\ closings' \in 0..MaxClosings
  BY DEF SkipUpload, IInv, TypeOK
<1> QED BY <1>4, <1>5, <1>6, EntriesKept, PhotosKept, ServerKept, PassStep

LEMMA RememberDocumentKeeps ==
    ASSUME IInv, NEW w \in Workers, RememberDocument(w)
    PROVE  IInv'
<1> DEFINE c == Capture(w)
<1>1. ~At(w, "idle") /\ ~Row(w) /\ c \in Captures
  BY AtWork DEF RememberDocument, At, IInv, PassesKnow, PassKnows
<1>2. Moved(w) /\ Within(w, "attach", "none")
  BY <1>1, GoesMoves DEF RememberDocument, Steps, IInv
<1>3. PassKnows(w)'
  BY <1>1, <1>2 DEF PassKnows, At, Within, Capture, Row, Task
<1>4. PhotoStep
  <2>1. photo \in [Captures -> Photos]
    BY DEF IInv, TypeOK
  <2>2. photo' = IF Stored(c)
                 THEN [photo EXCEPT ![c].document = TRUE, ![c].state = "pending"] ELSE photo
    BY DEF RememberDocument
  <2>3. /\ photo' \in [Captures -> Photos] /\ photo'[c].filed = photo[c].filed
        /\ (Stored(c) => photo'[c].state = "pending")
        /\ (~Stored(c) => photo'[c] = photo[c])
        /\ \A d \in Captures \ {c} : photo'[d] = photo[d]
    <3> HIDE DEF c
    <3> QED BY <1>1, <2>1, <2>2 DEF Photos
  <2> HIDE DEF c
  <2> QED BY <2>3 DEF PhotoStep, IInv, FiledKnown
<1>5. /\ UNCHANGED entries /\ UNCHANGED server /\ UNCHANGED kind
      /\ closings' \in 0..MaxClosings
  BY DEF RememberDocument, IInv, TypeOK
<1> QED BY <1>2, <1>3, <1>4, <1>5, EntriesKept, ServerKept, PassStep

LEMMA UploadFailedKeeps ==
    ASSUME IInv, NEW w \in Workers, UploadFailed(w)
    PROVE  IInv'
<1>1. ~At(w, "idle") /\ ~Row(w) /\ Capture(w) \in Captures
  BY AtWork DEF UploadFailed, At, IInv, PassesKnow, PassKnows
<1>2. Moved(w) /\ PassKnows(w)' /\ EntriesStep
  BY <1>1, UnsettledMoves DEF UploadFailed
<1>3. PhotoStep
  <2>1. CASE worker[w].answer = "refused"
    BY <1>1, <2>1, PhotoMarked DEF UploadFailed
  <2>2. CASE worker[w].answer # "refused"
    BY <2>2, PhotosKept DEF UploadFailed
  <2> QED BY <2>1, <2>2
<1>4. UNCHANGED server /\ UNCHANGED kind /\ closings' \in 0..MaxClosings
  BY DEF UploadFailed, IInv, TypeOK
<1> QED BY <1>2, <1>3, <1>4, ServerKept, PassStep

LEMMA AttachKeeps ==
    ASSUME IInv, NEW w \in Workers, Attach(w)
    PROVE  IInv'
<1> DEFINE c == Capture(w)
           known == worker[w].filed = "row"
<1>1. ~At(w, "idle") /\ ~Row(w) /\ c \in Captures
  BY AtWork DEF Attach, At, IInv, PassesKnow, PassKnows
<1>2. PICK answer \in IF known THEN Answers ELSE {"error"} :
        /\ Goes(w, "attached", answer)
        /\ \E done \in Done(answer) : linked' = IF done /\ known THEN linked \cup {c} ELSE linked
  BY DEF Attach
<1>3. PICK done \in Done(answer) : linked' = IF done /\ known THEN linked \cup {c} ELSE linked
  BY <1>2
<1>4. answer \in {"ok", "error", "refused"} /\ (answer = "ok" => done /\ known)
  BY DEF Answers, Done
<1>5. Moved(w) /\ Within(w, "attached", answer)
  BY <1>1, <1>2, <1>4, GoesMoves DEF Steps, IInv
<1>6. linked \subseteq linked' /\ linked' \subseteq Captures /\ (answer = "ok" => c \in linked')
  BY <1>1, <1>3, <1>4 DEF IInv, TypeOK
<1>7. ServerStep
  BY <1>6 DEF Attach, IInv, TypeOK, ServerStep, CapturedOnce, DocketsFollowDeliveries, Underway
<1>8. PassKnows(w)'
  BY <1>1, <1>5, <1>6 DEF PassKnows, At, Within, Capture, Row, Task
<1>9. /\ UNCHANGED entries /\ UNCHANGED photo /\ UNCHANGED kind
      /\ closings' \in 0..MaxClosings
  BY DEF Attach, IInv, TypeOK
<1> QED BY <1>5, <1>7, <1>8, <1>9, EntriesKept, PhotosKept, PassStep

LEMMA FinishPhotoKeeps ==
    ASSUME IInv, NEW w \in Workers, FinishPhoto(w)
    PROVE  IInv'
<1>1. ~At(w, "idle") /\ ~Row(w) /\ Capture(w) \in linked
  BY DEF FinishPhoto, Settles, At, IInv, PassesKnow, PassKnows
<1>2. Moved(w) /\ Within(w, "finished", "none")
  BY <1>1, GoesMoves DEF FinishPhoto, Steps, IInv
<1>3. EntriesStep
  BY <1>1, EntriesRemoved DEF FinishPhoto
<1>4. /\ UNCHANGED photo /\ UNCHANGED server /\ UNCHANGED kind
      /\ closings' \in 0..MaxClosings
  BY DEF FinishPhoto, IInv, TypeOK
<1>5. PassKnows(w)'
  BY <1>1, <1>2, <1>4 DEF PassKnows, At, Within, Capture, Row, Task, server
<1> QED BY <1>2, <1>3, <1>4, <1>5, PhotosKept, ServerKept, PassStep

LEMMA MarkPhotoSyncedKeeps ==
    ASSUME IInv, NEW w \in Workers, MarkPhotoSynced(w)
    PROVE  IInv'
<1>1. ~At(w, "idle") /\ Capture(w) \in linked /\ Capture(w) \in Captures
  BY AtWork DEF MarkPhotoSynced, At, IInv, PassesKnow, PassKnows
<1>2. Moved(w) /\ worker'[w].step \in {"idle", "visit"}
  BY AdvanceMoves DEF MarkPhotoSynced, IInv
<1>3. PhotoStep
  BY <1>1, PhotoMarked DEF MarkPhotoSynced
<1>4. /\ UNCHANGED entries /\ UNCHANGED server /\ UNCHANGED kind
      /\ closings' \in 0..MaxClosings
  BY DEF MarkPhotoSynced, IInv, TypeOK
<1> QED BY <1>2, <1>3, <1>4, NothingToKnow, EntriesKept, ServerKept, PassStep

LEMMA KeepQueuedKeeps ==
    ASSUME IInv, NEW w \in Workers, KeepQueued(w)
    PROVE  IInv'
<1>1. Moved(w) /\ worker'[w].step = "failing"
  BY ReadMoves DEF KeepQueued, At, IInv, Within
<1>2. /\ UNCHANGED entries /\ UNCHANGED photo /\ UNCHANGED server /\ UNCHANGED kind
      /\ closings' \in 0..MaxClosings
  BY DEF KeepQueued, IInv, TypeOK
<1> QED BY <1>1, <1>2, NothingToKnow, EntriesKept, PhotosKept, ServerKept, PassStep

LEMMA CloseKeeps ==
    ASSUME IInv, NEW w \in Workers, Close(w)
    PROVE  IInv'
<1>1. Moved(w) /\ worker'[w].step = "idle"
  BY IdleTyped DEF Close, Moved, IInv, TypeOK
<1>2. /\ UNCHANGED entries /\ UNCHANGED photo /\ UNCHANGED server /\ UNCHANGED kind
      /\ closings' \in 0..MaxClosings
  BY ConstantsAssumption DEF Close, IInv, TypeOK
<1> QED BY <1>1, <1>2, NothingToKnow, EntriesKept, PhotosKept, ServerKept, PassStep

-----------------------------------------------------------------------------
(* The user's steps. *)

LEMMA CaptureRowKeeps ==
    ASSUME IInv, NEW c \in Captures, CaptureRow(c)
    PROVE  IInv'
<1>1. PICK k \in {"ncr", "delivery"} : kind' = [kind EXCEPT ![c] = k]
  BY DEF CaptureRow
<1>2. /\ kind[c] = "none" /\ kind'[c] # "none"
      /\ \A d \in Captures \ {c} : kind'[d] = kind[d]
      /\ queue' = queue \cup {<<c, "row">>} /\ <<c, "row">> \in Tasks
  BY <1>1, TaskParts DEF CaptureRow, Enqueue, IInv, TypeOK
<1>3. TypeOK'
  <2>1. ahead' = [ahead EXCEPT ![<<c, "row">>] = Made] /\ Made \subseteq Tasks
    BY DEF CaptureRow, Enqueue, Made
  <2> QED BY <1>1, <1>2, <2>1 DEF CaptureRow, IInv, TypeOK, server, At, Task
<1>4. Underway'
  <2>1. Made \subseteq Made' /\ <<c, "row">> \in Made'
    <3>1. photo' = photo
      BY DEF CaptureRow
    <3> QED BY <1>2, <3>1, TaskParts DEF Made
  <2> QED BY <1>2, <2>1 DEF CaptureRow, server, IInv, Underway
<1>5. PassesKnow' /\ FiledKnown' /\ CapturedOnce'
  BY DEF CaptureRow, server, IInv, PassesKnow, PassKnows, At, Capture, Row, Task, FiledKnown,
         CapturedOnce
<1>6. NothingVanishes'
  BY <1>2 DEF CaptureRow, server, IInv, NothingVanishes, Queued
<1>7. DocketsFollowDeliveries'
  BY <1>2 DEF CaptureRow, server, IInv, DocketsFollowDeliveries, Underway
<1> QED BY <1>3, <1>4, <1>5, <1>6, <1>7 DEF IInv

LEMMA CapturePhotoKeeps ==
    ASSUME IInv, NEW c \in Captures, CapturePhoto(c)
    PROVE  IInv'
<1>1. PICK filed \in {"device", "row"} :
        /\ photo' = [photo EXCEPT ![c].state = "pending", ![c].filed = filed]
        /\ filed = "row" => rows[c] > 0
  BY DEF CapturePhoto
<1>2. /\ kind[c] # "none" /\ photo[c].state = "none"
      /\ photo' \in [Captures -> Photos]
      /\ photo'[c].state = "pending" /\ photo'[c].filed = filed
      /\ \A d \in Captures \ {c} : photo'[d] = photo[d]
      /\ queue' = queue \cup {<<c, "photo">>} /\ <<c, "photo">> \in Tasks
  <2>1. kind[c] # "none" /\ photo[c].state = "none"
    BY DEF CapturePhoto, NoPhoto
  <2>2. queue' = queue \cup {<<c, "photo">>} /\ <<c, "photo">> \in Tasks
    BY TaskParts DEF CapturePhoto, Enqueue
  <2>3. photo \in [Captures -> Photos]
    BY DEF IInv, TypeOK
  <2> QED BY <1>1, <2>1, <2>2, <2>3 DEF Photos
<1>3. TypeOK'
  <2>1. ahead' = [ahead EXCEPT ![<<c, "photo">>] = Made] /\ Made \subseteq Tasks
    BY DEF CapturePhoto, Enqueue, Made
  <2> QED BY <1>2, <2>1 DEF CapturePhoto, IInv, TypeOK, server, At, Task
<1>4. Underway'
  <2>1. Made \subseteq Made' /\ <<c, "photo">> \in Made'
    <3>1. kind' = kind
      BY DEF CapturePhoto
    <3> QED BY <1>2, <3>1, TaskParts DEF Made
  <2> QED BY <1>2, <2>1 DEF CapturePhoto, server, IInv, Underway
<1>5. PassesKnow' /\ CapturedOnce' /\ DocketsFollowDeliveries'
  BY DEF CapturePhoto, server, IInv, PassesKnow, PassKnows, At, Capture, Row, Task, CapturedOnce,
         DocketsFollowDeliveries
<1>6. FiledKnown'
  BY <1>1, <1>2 DEF CapturePhoto, server, IInv, FiledKnown
<1>7. NothingVanishes'
  BY <1>2 DEF CapturePhoto, server, IInv, NothingVanishes, Queued
<1> QED BY <1>3, <1>4, <1>5, <1>6, <1>7 DEF IInv

LEMMA RetryKeeps ==
    ASSUME IInv, Retry
    PROVE  IInv'
<1>1. TypeOK'
  BY ConstantsAssumption DEF Retry, IInv, TypeOK, server, At, Task
<1>2. UNCHANGED <<queue, photo, server, worker, kind>>
  BY DEF Retry
<1> QED BY <1>1, <1>2 DEF server, IInv, Underway, Made, PassesKnow, PassKnows, At, Capture, Row, Task,
         FiledKnown, CapturedOnce, NothingVanishes, Queued, DocketsFollowDeliveries

LEMMA RemovePhotoKeeps ==
    ASSUME IInv, NEW c \in Captures, RemovePhoto(c)
    PROVE  IInv'
<1>1. /\ photo' \in [Captures -> Photos]
      /\ photo[c].state # "none" /\ photo'[c].state = "removed" /\ photo'[c].filed = photo[c].filed
      /\ \A d \in Captures \ {c} : photo'[d] = photo[d]
  BY DEF RemovePhoto, IInv, TypeOK, Photos
<1>2. UNCHANGED <<entries, server, worker, closings, kind>>
  BY DEF RemovePhoto
<1>3. TypeOK'
  BY <1>1, <1>2 DEF IInv, TypeOK, entries, server, At, Task
<1>4. Underway'
  <2>1. Made' = Made
    <3>1. \A d \in Captures : photo'[d].state = "none" <=> photo[d].state = "none"
      BY <1>1
    <3> QED BY <1>2, <3>1, TaskParts DEF Made
  <2>2. photo[c] # NoPhoto
    BY <1>1 DEF NoPhoto
  <2> QED BY <1>1, <1>2, <2>1, <2>2 DEF entries, server, IInv, Underway
<1>5. PassesKnow' /\ FiledKnown' /\ CapturedOnce' /\ DocketsFollowDeliveries'
  BY <1>1, <1>2 DEF server, IInv, PassesKnow, PassKnows, At, Capture, Row, Task, FiledKnown,
         CapturedOnce, DocketsFollowDeliveries
<1>6. NothingVanishes'
  BY <1>1, <1>2 DEF entries, server, IInv, NothingVanishes, Queued
<1> QED BY <1>3, <1>4, <1>5, <1>6 DEF IInv

-----------------------------------------------------------------------------
(* What the system keeps. *)

LEMMA StepIInv == IInv /\ [Next]_vars => IInv'
<1> SUFFICES ASSUME IInv, [Next]_vars PROVE IInv'
  OBVIOUS
<1>1. CASE User
  BY <1>1, CaptureRowKeeps, CapturePhotoKeeps, RetryKeeps, RemovePhotoKeeps DEF User
<1>2. ASSUME NEW w \in Workers, Begin(w) \/ Close(w) PROVE IInv'
  BY <1>2, BeginKeeps, CloseKeeps
<1>3. ASSUME NEW w \in Workers, Asks(w) PROVE IInv'
  BY <1>3, PostRowKeeps, PhotoGoneKeeps, WaitForRowKeeps, UploadKeeps, SkipUploadKeeps, AttachKeeps
     DEF Asks
<1>4. ASSUME NEW w \in Workers, Answered(w) PROVE IInv'
  BY <1>4, RelinkPhotoKeeps, FinishRowKeeps, RowFailedKeeps, RememberDocumentKeeps, UploadFailedKeeps,
     FinishPhotoKeeps, MarkPhotoSyncedKeeps, KeepQueuedKeeps, MarkFailedKeeps DEF Answered
<1>5. CASE UNCHANGED vars
  BY <1>5 DEF vars, server, IInv, TypeOK, Underway, Made, PassesKnow, PassKnows, At, Capture, Row, Task,
       FiledKnown, CapturedOnce, NothingVanishes, Queued, DocketsFollowDeliveries
<1> QED BY <1>1, <1>2, <1>3, <1>4, <1>5 DEF Next

LEMMA SpecIInv == Spec => []IInv
BY InitIInv, StepIInv, PTL DEF Spec

\* Every variable keeps its type, and refused entries are in the queue.
THEOREM TypeCorrect == Spec => []TypeOK
<1>1. IInv => TypeOK
  BY DEF IInv
<1> QED BY <1>1, SpecIInv, PTL

\* A capture makes one row and one document on the server, however often its
\* requests are repeated and whichever passes make them.
THEOREM CapturesArriveOnce == Spec => []CapturedOnce
<1>1. IInv => CapturedOnce
  BY DEF IInv
<1> QED BY <1>1, SpecIInv, PTL

\* A row leaves the queue when the server has it, a photo when it is evidence of
\* its row or the user took it away.
THEOREM NothingIsLost == Spec => []NothingVanishes
<1>1. IInv => NothingVanishes
  BY DEF IInv
<1> QED BY <1>1, SpecIInv, PTL

\* The server has a docket's file only when it has the docket's delivery.
THEOREM DocketsComeSecond == Spec => []DocketsFollowDeliveries
<1>1. IInv => DocketsFollowDeliveries
  BY DEF IInv
<1> QED BY <1>1, SpecIInv, PTL

-----------------------------------------------------------------------------
(* Refusals. *)

\* What a step may do to the attempts: it counts the failure of a pass that was
\* about to, marks a refusal, forgets what left the queue, or revives what the
\* server did not refuse.
LEMMA AttemptsChange ==
    ASSUME IInv, [Next]_vars, NEW t \in Tasks, t \in terminal, Queued(t)'
    PROVE  t \in terminal' /\ (attempts'[t] \in {attempts[t], MaxAttempts} \/ Overtaken(t))
<1>1. attempts \in [Tasks -> 0..MaxAttempts]
  BY DEF IInv, TypeOK
<1>2. CASE UNCHANGED entries
  BY <1>2 DEF entries
<1>3. ASSUME NEW u \in Tasks, Removed(u)
      PROVE  t \in terminal' /\ attempts'[t] = attempts[t]
  BY <1>1, <1>3 DEF Removed, Queued
<1>4. ASSUME NEW u \in Tasks, Refused(u)
      PROVE  t \in terminal' /\ attempts'[t] \in {attempts[t], MaxAttempts}
  BY <1>1, <1>4 DEF Refused
<1>5. ASSUME NEW w \in Workers, FinishRow(w) \/ PhotoGone(w) \/ FinishPhoto(w)
      PROVE  Removed(Task(w)) /\ Task(w) \in Tasks
  BY <1>5, AtWork DEF FinishRow, PhotoGone, FinishPhoto, At, IInv
<1>6. ASSUME NEW w \in Workers, RowFailed(w) \/ UploadFailed(w)
      PROVE  UNCHANGED entries \/ (Refused(Task(w)) /\ Task(w) \in Tasks)
  BY <1>6, AtWork DEF RowFailed, UploadFailed, Unsettled, At, IInv
<1>7. ASSUME NEW w \in Workers, MarkFailed(w)
      PROVE  t \in terminal' /\ (attempts'[t] = attempts[t] \/ Overtaken(t))
  <2>1. Task(w) \in Tasks
    BY <1>7, AtWork DEF MarkFailed, At, IInv
  <2>2. t = Task(w) => Overtaken(t)
    BY <1>7 DEF MarkFailed, Overtaken
  <2> QED BY <1>1, <1>7, <2>1, <2>2 DEF MarkFailed
<1>8. CASE User
  <2>1. CASE Retry
    BY <1>1, <2>1 DEF Retry, Revivable
  <2>2. ASSUME NEW c \in Captures, CaptureRow(c) \/ CapturePhoto(c) \/ RemovePhoto(c)
        PROVE  UNCHANGED attempts /\ UNCHANGED terminal
    BY <2>2 DEF CaptureRow, CapturePhoto, RemovePhoto, entries
  <2> QED BY <1>8, <2>1, <2>2 DEF User
<1>9. ASSUME NEW w \in Workers, Begin(w) \/ Close(w) \/ Asks(w) \/ Answered(w)
      PROVE  t \in terminal' /\ (attempts'[t] \in {attempts[t], MaxAttempts} \/ Overtaken(t))
  <2>1. CASE Begin(w) \/ Close(w)
    BY <1>2, <2>1 DEF Begin, Close
  <2>2. CASE Asks(w)
    BY <1>2, <1>3, <1>5, <2>2 DEF Asks, PostRow, WaitForRow, Upload, SkipUpload, Attach
  <2>3. CASE Answered(w)
    BY <1>2, <1>3, <1>4, <1>5, <1>6, <1>7, <2>3
       DEF Answered, RelinkPhoto, RememberDocument, MarkPhotoSynced, KeepQueued
  <2> QED BY <1>9, <2>1, <2>2, <2>3
<1>10. CASE UNCHANGED vars
  BY <1>2, <1>10 DEF vars, entries
<1> QED BY <1>8, <1>9, <1>10 DEF Next

\* No retry of the user's and no pass revives what the server refused, but for
\* one of another tab that read its attempts before the refusal was marked.
THEOREM RefusalsAreKept == Spec => RefusalsStand
<1>1. IInv /\ [Next]_vars =>
        \A t \in Tasks : t \in terminal /\ Queued(t)' =>
          t \in terminal' /\ (Dead(t) => Dead(t)' \/ Overtaken(t))
  <2> SUFFICES ASSUME IInv, [Next]_vars, NEW t \in Tasks, t \in terminal, Queued(t)'
               PROVE  t \in terminal' /\ (Dead(t) => Dead(t)' \/ Overtaken(t))
    OBVIOUS
  <2>1. t \in terminal' /\ (attempts'[t] \in {attempts[t], MaxAttempts} \/ Overtaken(t))
    BY AttemptsChange
  <2> QED BY <2>1, ConstantsAssumption DEF Dead
<1> QED BY <1>1, SpecIInv, PTL DEF Spec, RefusalsStand

\* Where the browser has locks there is one pass at a time.  What it refused is
\* out of its copy, so nothing can take the refusal back.
OnePass == \A v, w \in Workers : v = w

RefusedForGood ==
    \A t \in terminal : Dead(t) /\ \A w \in Workers : t \notin worker[w].todo

\* The entries that a new copy takes.
Live == {t \in queue : ~Dead(t)}

LEMMA CopyTaken ==
    ASSUME TypeOK, NEW w \in Workers, NEW todo \in SUBSET Tasks, Pass(w, todo)
    PROVE  /\ worker'[w].todo \subseteq todo
           /\ \A x \in Workers \ {w} : worker'[x] = worker[x]
<1>1. worker \in [Workers -> SyncPass]
  BY DEF TypeOK
<1>2. CASE worker' = [worker EXCEPT ![w] = Idle]
  BY <1>1, <1>2, IdleTyped
<1>3. CASE \E t \in Oldest(todo) : worker' = [worker EXCEPT ![w] =
              [Idle EXCEPT !.step = "visit", !.todo = todo, !.task = t]]
  <2>1. PICK t \in todo : worker' = [worker EXCEPT ![w] =
              [Idle EXCEPT !.step = "visit", !.todo = todo, !.task = t]]
    BY <1>3 DEF Oldest
  <2> DEFINE p == [Idle EXCEPT !.step = "visit", !.todo = todo, !.task = t]
  <2>2. p.todo = todo
    BY DEF Idle
  <2>3. worker' = [worker EXCEPT ![w] = p]
    BY <2>1
  <2> HIDE DEF p
  <2> QED BY <1>1, <2>2, <2>3
<1> QED BY <1>2, <1>3 DEF Pass

LEMMA CopyLeft ==
    ASSUME IInv, NEW w \in Workers, ~At(w, "idle"), Advance(w)
    PROVE  /\ worker'[w].todo \subseteq worker[w].todo \ {Task(w)}
           /\ \A x \in Workers \ {w} : worker'[x] = worker[x]
<1>1. worker[w].todo \subseteq Tasks
  BY DEF IInv, TypeOK, SyncPass
<1> QED BY <1>1, CopyTaken DEF Advance, IInv

LEMMA CopiesShrink ==
    ASSUME IInv, [Next]_vars, NEW x \in Workers
    PROVE  worker'[x].todo \subseteq worker[x].todo \cup Live
<1>1. worker \in [Workers -> SyncPass] /\ queue \subseteq Tasks
  BY DEF IInv, TypeOK
<1>2. CASE UNCHANGED worker
  BY <1>2
<1>3. ASSUME NEW w \in Workers, Begin(w)
      PROVE  worker'[x].todo \subseteq worker[x].todo \cup Live
  <2>1. Pass(w, Live) /\ Live \subseteq Tasks
    BY <1>1, <1>3 DEF Begin, Live
  <2> QED BY <2>1, CopyTaken DEF IInv
<1>4. ASSUME NEW w \in Workers, ~At(w, "idle"), Advance(w)
      PROVE  worker'[x].todo \subseteq worker[x].todo
  BY <1>4, CopyLeft
<1>5. ASSUME NEW w \in Workers, NEW step, NEW answer, Goes(w, step, answer) \/ ReadAttempts(w, step)
      PROVE  worker'[x].todo = worker[x].todo
  BY <1>1, <1>5 DEF Goes, ReadAttempts, SyncPass
<1>6. ASSUME NEW w \in Workers, Upload(w) \/ SkipUpload(w)
      PROVE  worker'[x].todo = worker[x].todo
  BY <1>1, <1>6 DEF Upload, SkipUpload, SyncPass
<1>7. ASSUME NEW w \in Workers, Close(w)
      PROVE  worker'[x].todo \subseteq worker[x].todo
  BY <1>1, <1>7 DEF Close, Idle
<1>8. CASE User \/ UNCHANGED vars
  BY <1>2, <1>8 DEF User, CaptureRow, CapturePhoto, Retry, RemovePhoto, vars
<1>9. ASSUME NEW w \in Workers, Asks(w)
      PROVE  worker'[x].todo \subseteq worker[x].todo
  BY <1>4, <1>5, <1>6, <1>9 DEF Asks, PostRow, PhotoGone, WaitForRow, Attach, At
<1>10. ASSUME NEW w \in Workers, Answered(w)
       PROVE  worker'[x].todo \subseteq worker[x].todo
  <2>1. CASE RelinkPhoto(w) \/ RememberDocument(w) \/ FinishPhoto(w) \/ KeepQueued(w)
    BY <1>5, <2>1 DEF RelinkPhoto, RememberDocument, FinishPhoto, KeepQueued
  <2>2. CASE FinishRow(w) \/ MarkPhotoSynced(w) \/ MarkFailed(w)
    BY <1>4, <2>2 DEF FinishRow, MarkPhotoSynced, MarkFailed, At
  <2>3. CASE RowFailed(w) \/ UploadFailed(w)
    BY <1>4, <1>5, <2>3 DEF RowFailed, UploadFailed, Unsettled, At
  <2> QED BY <1>10, <2>1, <2>2, <2>3 DEF Answered
<1> QED BY <1>3, <1>7, <1>8, <1>9, <1>10 DEF Next

\* An entry is refused by the pass that works on it, which then leaves it.
LEMMA RefusedByItsPass ==
    ASSUME IInv, [Next]_vars, NEW t \in terminal' \ terminal
    PROVE  /\ attempts'[t] = MaxAttempts
           /\ \E w \in Workers : t \notin worker'[w].todo
<1>1. \A w \in Workers : ~Removed(Task(w)) /\ terminal' # terminal
  BY DEF Removed
<1>2. ~UNCHANGED entries
  BY DEF entries
<1>3. ~User /\ ~UNCHANGED vars
  BY <1>2 DEF User, CaptureRow, CapturePhoto, Retry, RemovePhoto, vars, entries
<1>4. \A w \in Workers : ~Begin(w) /\ ~Close(w) /\ ~Asks(w)
  BY <1>1, <1>2 DEF Begin, Close, Asks, PostRow, PhotoGone, WaitForRow, Upload, SkipUpload, Attach
<1>5. PICK w \in Workers : Answered(w)
  BY <1>3, <1>4 DEF Next
<1>6. RowFailed(w) \/ UploadFailed(w)
  BY <1>1, <1>2, <1>5 DEF Answered, RelinkPhoto, FinishRow, RememberDocument, FinishPhoto,
                          MarkPhotoSynced, KeepQueued, MarkFailed
<1>7. Refused(Task(w)) /\ Advance(w) /\ ~At(w, "idle")
  BY <1>2, <1>6 DEF RowFailed, UploadFailed, Unsettled, At
<1>8. t = Task(w) /\ attempts' = [attempts EXCEPT ![t] = MaxAttempts] /\ t \in Tasks
  BY <1>7, AtWork DEF Refused, IInv
<1> QED BY <1>7, <1>8, CopyLeft DEF IInv, TypeOK

LEMMA RefusedStays ==
    ASSUME OnePass, IInv, RefusedForGood, [Next]_vars
    PROVE  RefusedForGood'
<1> SUFFICES ASSUME NEW t \in terminal'
             PROVE  Dead(t)' /\ \A w \in Workers : t \notin worker'[w].todo
  BY DEF RefusedForGood
<1>1. t \in queue' /\ t \in Tasks
  BY StepIInv DEF IInv, TypeOK
<1>2. CASE t \in terminal
  <2>1. \A w \in Workers : t \notin worker[w].todo
    BY <1>2 DEF RefusedForGood
  <2>2. ~Overtaken(t)
    BY <2>1 DEF Overtaken, IInv, TypeOK, At
  <2>3. Dead(t)'
    BY <1>1, <1>2, <2>2, AttemptsChange, ConstantsAssumption DEF RefusedForGood, Dead, Queued
  <2>4. t \notin Live
    BY <1>2 DEF RefusedForGood, Live
  <2> QED BY <2>1, <2>3, <2>4, CopiesShrink
<1>3. CASE t \notin terminal
  BY <1>3, RefusedByItsPass, ConstantsAssumption DEF OnePass, Dead
<1> QED BY <1>2, <1>3

\* Where passes hold the lock, what the server refused for good is never offered
\* to it again: no pass has it in its copy, and none will take it into one.
THEOREM RefusalsAreFinal == OnePass => (Spec => []RefusedForGood)
<1> SUFFICES ASSUME OnePass PROVE Spec => []RefusedForGood
  OBVIOUS
<1>1. Init => RefusedForGood
  BY DEF Init, RefusedForGood
<1>2. IInv /\ RefusedForGood /\ [Next]_vars => RefusedForGood'
  BY RefusedStays
<1> QED BY <1>1, <1>2, SpecIInv, PTL DEF Spec
=============================================================================
