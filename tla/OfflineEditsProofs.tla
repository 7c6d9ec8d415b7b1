------------------------- MODULE OfflineEditsProofs -------------------------
(***************************************************************************)
(* Proofs about offline ticks and lot edits, for any number of things,     *)
(* passes, moves and attempts: the variables keep their types, and a tick  *)
(* that reaches the server replaces the completion that its user saw.      *)
(* That needs to know that a queued tick, and every copy of one that a     *)
(* pass works from, carries as its base the version that the user saw when *)
(* making it (Honest), whatever was replaced or retried since.             *)
(*                                                                         *)
(* And, where one pass runs at a time, that a lot edit is not sent over a  *)
(* foreign version that the device can tell from the one its user saw.     *)
(* That rests on what the device keeps beside an edit (Rooted): a version  *)
(* no newer than the one seen, unless the device itself wrote it.          *)
(***************************************************************************)
EXTENDS OfflineEdits, TLAPS

\* A queued tick's base is what its user saw.
Honest(t, e) == e.edit <= moves[t] /\ saw[t][e.edit] = e.base

\* A row whose version is not known shows an edit of this device.
Known(t, row) ==
    /\ kind[t] = "tick" => row.sync # "conflict"
    /\ kind[t] = "tick" \/ row.edit = 0 => row.seen \in Nat

LocalOK == local \in [Things -> Locals] /\ \A t \in Things : Known(t, local[t])

Pages == [open : BOOLEAN, known : Nat \cup {None}, shows : Nat]
PageOK == page \in [Things -> Pages] /\ \A t \in Things : kind[t] = "tick" => ~page[t].open

Fits(t, e) ==
    e # None =>
        /\ kind[t] = "tick" => ~e.force /\ Honest(t, e)
        /\ kind[t] = "lot" /\ e.terminal => Dead(e)

EntryOK == entry \in [Things -> Entries \cup {None}] /\ \A t \in Things : Fits(t, entry[t])

MovesOK == moves \in [Things -> 0..MaxMoves] /\ saw \in [Things -> [1..MaxMoves -> Nat]]

RestOK ==
    /\ kind \in [Things -> {"tick", "lot"}]
    /\ server \in [Things -> Rows]
    /\ closings \in 0..MaxClosings

Passes ==
    [step : Steps, todo : SUBSET Things, copies : [Things -> Entries \cup {None}],
     task : Things \cup {None}, held : Locals, read : Rows,
     answer : {"none", "ok", "error", "refused", "stale"}]

StepFits(t, step) ==
    /\ step \in {"tick", "post", "posted", "reconciled"} => kind[t] = "tick"
    /\ step \in {"lot", "check", "patch", "patched"} => kind[t] = "lot"

Copied(copies) ==
    \A t \in Things : copies[t] # None /\ kind[t] = "tick" => Honest(t, copies[t])

\* A pass is at one of the things it still has to do, with a copy of each.
PassFits(p) ==
    /\ p.step \notin {"idle", "next"} => p.task \in p.todo /\ StepFits(p.task, p.step)
    /\ \A t \in p.todo : p.copies[t] # None
    /\ Copied(p.copies)

WorkerOK == worker \in [Workers -> Passes] /\ \A w \in Workers : PassFits(worker[w])

IInv == LocalOK /\ PageOK /\ EntryOK /\ MovesOK /\ RestOK /\ WorkerOK

LEMMA IInvType == IInv => TypeOK
BY DEF IInv, LocalOK, Known, PageOK, Pages, EntryOK, Fits, MovesOK, RestOK, WorkerOK, Passes,
   TypeOK, Queued

-----------------------------------------------------------------------------
(* Writes of one row. *)

\* What a step leaves of the user's moves.
Quiet == UNCHANGED <<kind, moves, saw>>

LEMMA WriteLocal ==
    ASSUME LocalOK, NEW t \in Things, NEW row \in Locals, Known(t, row), kind' = kind,
           local' = [local EXCEPT ![t] = row]
    PROVE  LocalOK'
BY DEF LocalOK, Known

LEMMA WritePage ==
    ASSUME PageOK, NEW t \in Things, NEW row \in Pages, kind[t] = "tick" => ~row.open, kind' = kind,
           page' = [page EXCEPT ![t] = row]
    PROVE  PageOK'
BY DEF PageOK

LEMMA WriteEntry ==
    ASSUME EntryOK, NEW t \in Things, NEW e \in Entries \cup {None}, Fits(t, e)', kind' = kind,
           \A u \in Things, d \in Entries : Honest(u, d) => Honest(u, d)',
           entry' = [entry EXCEPT ![t] = e]
    PROVE  EntryOK'
<1>1. entry' \in [Things -> Entries \cup {None}]
  BY DEF EntryOK
<1>2. ASSUME NEW u \in Things PROVE Fits(u, entry[u])'
  <2>1. CASE u = t
    BY <2>1 DEF EntryOK
  <2>2. CASE u # t
    <3>1. entry'[u] = entry[u] /\ entry[u] \in Entries \cup {None} /\ Fits(u, entry[u])
      BY <2>2 DEF EntryOK
    <3> QED BY <3>1 DEF Fits, Dead
  <2> QED BY <2>1, <2>2
<1> QED BY <1>1, <1>2 DEF EntryOK

LEMMA KeepEntry ==
    ASSUME EntryOK, kind' = kind, entry' = entry,
           \A u \in Things, d \in Entries : Honest(u, d) => Honest(u, d)'
    PROVE  EntryOK'
<1> SUFFICES ASSUME NEW u \in Things PROVE Fits(u, entry[u])'
  BY DEF EntryOK
<1>1. entry[u] \in Entries \cup {None} /\ Fits(u, entry[u])
  BY DEF EntryOK
<1> QED BY <1>1 DEF Fits, Dead

LEMMA QuietHonest ==
    ASSUME Quiet
    PROVE  \A u \in Things, d \in Entries : Honest(u, d) => Honest(u, d)'
BY DEF Quiet, Honest

\* A move is numbered, remembers what it was made from, and leaves the
\* others' memory alone.
LEMMA MoveStep ==
    ASSUME MovesOK, NEW t \in Things, NEW v \in Nat, Move(t, v)
    PROVE  /\ MovesOK' /\ moves'[t] = moves[t] + 1 /\ moves'[t] \in 1..MaxMoves
           /\ saw'[t][moves'[t]] = v
           /\ \A u \in Things, d \in Entries : Honest(u, d) => Honest(u, d)'
<1>1. /\ moves[t] \in 0..MaxMoves /\ moves[t] < MaxMoves /\ MaxMoves \in Nat
      /\ moves' = [moves EXCEPT ![t] = @ + 1] /\ saw' = [saw EXCEPT ![t][moves'[t]] = v]
  BY ConstantsAssumption DEF MovesOK, Move
<1>2. moves'[t] = moves[t] + 1 /\ moves'[t] \in 1..MaxMoves
  BY <1>1 DEF MovesOK
<1>3. MovesOK'
  BY <1>1, <1>2 DEF MovesOK
<1>4. saw'[t][moves'[t]] = v
  BY <1>1, <1>2 DEF MovesOK
<1>5. ASSUME NEW u \in Things, NEW d \in Entries, Honest(u, d) PROVE Honest(u, d)'
  <2>1. d.edit \in 1..MaxMoves /\ d.edit <= moves[u] /\ moves[u] \in 0..MaxMoves
        /\ saw[u][d.edit] = d.base
    BY <1>5 DEF Honest, Entries, MovesOK
  <2>2. CASE u # t
    BY <1>1, <2>1, <2>2 DEF Honest, MovesOK
  <2>3. CASE u = t
    <3>1. d.edit # moves'[t] /\ d.edit <= moves'[t]
      BY <1>1, <1>2, <2>1, <2>3
    <3>2. saw'[t][d.edit] = saw[t][d.edit]
      BY <1>1, <2>1, <2>3, <3>1 DEF MovesOK
    <3> QED BY <2>1, <2>3, <3>1, <3>2 DEF Honest
  <2> QED BY <2>2, <2>3
<1> QED BY <1>2, <1>3, <1>4, <1>5

\* Passes are not disturbed by what leaves them alone.
LEMMA KeepWorkers ==
    ASSUME WorkerOK, worker' = worker, kind' = kind,
           \A u \in Things, d \in Entries : Honest(u, d) => Honest(u, d)'
    PROVE  WorkerOK'
<1> SUFFICES ASSUME NEW w \in Workers PROVE PassFits(worker[w])'
  BY DEF WorkerOK
<1>1. worker[w] \in Passes /\ PassFits(worker[w])
  BY DEF WorkerOK
<1>2. \A t \in Things : worker[w].copies[t] \in Entries \cup {None}
  BY <1>1 DEF Passes
<1> QED BY <1>1, <1>2 DEF PassFits, Copied, StepFits

LEMMA WriteWorker ==
    ASSUME WorkerOK, NEW w \in Workers, NEW p \in Passes, PassFits(p), Quiet,
           worker' = [worker EXCEPT ![w] = p]
    PROVE  WorkerOK'
<1>1. worker' \in [Workers -> Passes]
  BY DEF WorkerOK
<1>2. \A q : PassFits(q)' <=> PassFits(q)
  BY DEF PassFits, Copied, StepFits, Honest, Quiet
<1>3. \A x \in Workers : worker'[x] = p \/ worker'[x] = worker[x]
  BY DEF WorkerOK
<1> QED BY <1>1, <1>2, <1>3 DEF WorkerOK

-----------------------------------------------------------------------------
(* The rows that the steps write. *)

LEMMA Numbers ==
    /\ MaxAttempts \in Nat \ {0} /\ MaxMoves \in Nat /\ MaxVersion \in Nat /\ MaxClosings \in Nat
    /\ 0 \in 0..MaxMoves /\ 0 \in 0..MaxAttempts /\ MaxAttempts \in 0..MaxAttempts
BY ConstantsAssumption

LEMMA IdleFits == Idle \in Passes /\ PassFits(Idle)
<1>1. NoLocal \in Locals /\ NoRow \in Rows
  BY Numbers DEF NoLocal, NoRow, Locals, Rows
<1> QED BY <1>1 DEF Idle, Passes, Steps, PassFits, Copied

LEMMA PassFitsNext ==
    ASSUME NEW todo \in SUBSET Things, NEW copies \in [Things -> Entries \cup {None}],
           \A t \in todo : copies[t] # None, Copied(copies)
    PROVE  Pass(todo, copies) \in Passes /\ PassFits(Pass(todo, copies))
<1>1. CASE todo = {}
  BY <1>1, IdleFits DEF Pass
<1>2. CASE todo # {}
  <2> DEFINE p == [Idle EXCEPT !.step = "next", !.todo = todo, !.copies = copies]
  <2>1. Pass(todo, copies) = p
    BY <1>2 DEF Pass
  <2>2. p \in Passes /\ p.step = "next" /\ p.todo = todo /\ p.copies = copies
    BY IdleFits DEF Idle, Passes, Steps
  <2> HIDE DEF p
  <2> QED BY <2>1, <2>2 DEF PassFits
<1> QED BY <1>1, <1>2

\* Advancing a pass.
LEMMA AdvanceOK ==
    ASSUME WorkerOK, NEW w \in Workers, Quiet, Advance(w)
    PROVE  WorkerOK'
<1> DEFINE p == worker[w]
           q == Pass(p.todo \ {p.task}, p.copies)
<1>1. p \in Passes /\ PassFits(p)
  BY DEF WorkerOK
<1>2. p.todo \ {p.task} \in SUBSET Things /\ p.copies \in [Things -> Entries \cup {None}]
      /\ Copied(p.copies) /\ \A t \in p.todo \ {p.task} : p.copies[t] # None
  BY <1>1 DEF Passes, PassFits
<1>3. q \in Passes /\ PassFits(q)
  BY <1>2, PassFitsNext
<1>4. worker' = [worker EXCEPT ![w] = q]
  BY DEF Advance
<1> HIDE DEF q, p
<1> QED BY <1>3, <1>4, WriteWorker

\* Going on with the thing at hand.
LEMMA GoOn ==
    ASSUME WorkerOK, NEW w \in Workers, Quiet, worker[w].step \notin {"idle", "next"},
           NEW q \in Passes, StepFits(q.task, q.step),
           q.todo = worker[w].todo, q.task = worker[w].task, q.copies = worker[w].copies,
           worker' = [worker EXCEPT ![w] = q]
    PROVE  WorkerOK'
<1>1. PassFits(worker[w])
  BY DEF WorkerOK
<1>2. PassFits(q)
  BY <1>1 DEF PassFits
<1> QED BY <1>2, WriteWorker

LEMMA GoesOn ==
    ASSUME WorkerOK, NEW w \in Workers, Quiet, worker[w].step \notin {"idle", "next"},
           NEW step \in Steps, StepFits(worker[w].task, step),
           NEW answer \in {"none", "ok", "error", "refused", "stale"}, Goes(w, step, answer)
    PROVE  WorkerOK'
<1> DEFINE q == [[worker[w] EXCEPT !.step = step] EXCEPT !.answer = answer]
<1>1. worker[w] \in Passes
  BY DEF WorkerOK
<1>2. /\ q \in Passes /\ q.step = step /\ q.todo = worker[w].todo /\ q.task = worker[w].task
      /\ q.copies = worker[w].copies
  BY <1>1 DEF Passes
<1>3. worker' = [worker EXCEPT ![w] = q]
  BY DEF Goes, WorkerOK
<1> HIDE DEF q
<1> QED BY <1>2, <1>3, GoOn

\* Where a pass is working.
LEMMA AtWork ==
    ASSUME WorkerOK, NEW w \in Workers, worker[w].step \notin {"idle", "next"}
    PROVE  /\ Task(w) \in Things /\ Copy(w) \in Entries /\ StepFits(Task(w), worker[w].step)
           /\ kind[Task(w)] = "tick" => Honest(Task(w), Copy(w))
<1>1. worker[w] \in Passes /\ PassFits(worker[w])
  BY DEF WorkerOK
<1>2. worker[w].task \in worker[w].todo /\ worker[w].todo \subseteq Things
      /\ worker[w].copies \in [Things -> Entries \cup {None}]
  BY <1>1 DEF Passes, PassFits
<1>3. Task(w) \in Things /\ Copy(w) \in Entries \cup {None} /\ Copy(w) # None
  BY <1>1, <1>2 DEF Task, Copy, PassFits
<1> QED BY <1>1, <1>3 DEF PassFits, Copied, Task, Copy

-----------------------------------------------------------------------------
(* The queue, as a pass changes it. *)

\* Marking an entry changes nothing of what it carries.
LEMMA MarkEntry ==
    ASSUME EntryOK, Quiet, NEW t \in Things, NEW e \in Entries, entry[t] = e, e # None,
           NEW n \in 0..MaxAttempts, NEW b \in BOOLEAN,
           kind[t] = "lot" /\ b => n = MaxAttempts,
           entry' = [entry EXCEPT ![t] = [e EXCEPT !.attempts = n, !.terminal = b]]
    PROVE  EntryOK'
<1> DEFINE f == [e EXCEPT !.attempts = n, !.terminal = b]
<1>1. /\ f \in Entries /\ f.edit = e.edit /\ f.base = e.base /\ f.force = e.force
      /\ f.attempts = n /\ f.terminal = b
  BY DEF Entries
<1>2. entry' = [entry EXCEPT ![t] = f]
  OBVIOUS
<1> HIDE DEF f
<1>3. Fits(t, e) /\ UNCHANGED <<kind, moves, saw>>
  BY DEF EntryOK, Quiet
<1>4. kind[t] = "tick" => ~f.force /\ Honest(t, f)
  BY <1>1, <1>3 DEF Fits, Honest
<1>5. kind[t] = "lot" /\ f.terminal => Dead(f)
  BY <1>1, Numbers DEF Dead
<1>6. Fits(t, f)'
  BY <1>3, <1>4, <1>5 DEF Fits, Dead, Honest
<1>7. \A u \in Things, d \in Entries : Honest(u, d) => Honest(u, d)'
  BY QuietHonest
<1> QED BY <1>1, <1>2, <1>3, <1>6, <1>7, WriteEntry

\* A pass removes an entry or marks it; it never changes what it carries.
LEMMA ChangeOK ==
    ASSUME EntryOK, NEW w \in Workers, Task(w) \in Things, Quiet,
           Removed(w) \/ Failed(w) \/ Refused(w)
    PROVE  EntryOK'
<1>1. PICK t \in Things : t = Task(w)
  OBVIOUS
<1>2. PICK e \in Entries \cup {None} : e = entry[t]
  BY DEF EntryOK
<1>3. Fits(t, e) /\ kind' = kind
  BY <1>2 DEF EntryOK, Quiet
<1>4. \A u \in Things, d \in Entries : Honest(u, d) => Honest(u, d)'
  BY QuietHonest
<1>5. CASE entry' = entry
  BY <1>3, <1>4, <1>5, KeepEntry
<1>6. CASE e = None
  BY <1>1, <1>2, <1>5, <1>6 DEF Removed, Failed, Refused, Change, Same, Queued
<1>7. CASE e # None /\ entry' # entry
  <2>1. CASE Removed(w)
    <3>1. entry' = [entry EXCEPT ![t] = None]
      BY <1>1, <1>7, <2>1 DEF Removed, Change
    <3>2. Fits(t, None)'
      BY DEF Fits
    <3> QED BY <1>3, <1>4, <3>1, <3>2, WriteEntry
  <2>2. CASE Failed(w)
    <3> DEFINE n == IF Dead(e) THEN e.attempts ELSE e.attempts + 1
    <3>1. n \in 0..MaxAttempts /\ e.terminal \in BOOLEAN /\ (Dead(e) => n = MaxAttempts)
      BY <1>7, Numbers DEF Dead, Entries
    <3>2. entry' = [entry EXCEPT ![t] = [e EXCEPT !.attempts = n]]
      BY <1>1, <1>2, <1>7, <2>2 DEF Failed, Change
    <3>3. [e EXCEPT !.attempts = n] = [e EXCEPT !.attempts = n, !.terminal = e.terminal]
      BY <1>7 DEF Entries
    <3>4. kind[t] = "lot" /\ e.terminal => n = MaxAttempts
      BY <1>3, <1>7, <3>1 DEF Fits
    <3>5. PICK k \in 0..MaxAttempts : k = n
      BY <3>1
    <3>6. entry' = [entry EXCEPT ![t] = [e EXCEPT !.attempts = k, !.terminal = e.terminal]]
      BY <3>2, <3>3, <3>5
    <3>7. PICK b \in BOOLEAN : b = e.terminal
      BY <3>1
    <3>8. entry' = [entry EXCEPT ![t] = [e EXCEPT !.attempts = k, !.terminal = b]]
      BY <3>6, <3>7
    <3> QED BY <1>2, <1>7, <3>4, <3>5, <3>7, <3>8, MarkEntry
  <2>3. CASE Refused(w)
    <3>1. entry' = [entry EXCEPT ![t] = [e EXCEPT !.attempts = MaxAttempts, !.terminal = TRUE]]
      BY <1>1, <1>2, <1>7, <2>3 DEF Refused, Change
    <3> QED BY <1>2, <1>7, <3>1, Numbers, MarkEntry
  <2> QED BY <2>1, <2>2, <2>3
<1> QED BY <1>5, <1>6, <1>7

-----------------------------------------------------------------------------
LEMMA InitIInv == Init => IInv
<1> SUFFICES ASSUME Init PROVE IInv
  OBVIOUS
<1>1. NoLocal \in Locals /\ NoRow \in Rows /\ NoPage \in Pages
  BY Numbers DEF NoLocal, NoRow, NoPage, Locals, Rows, Pages
<1>2. LocalOK
  BY <1>1 DEF Init, LocalOK, Known, NoLocal
<1>3. PageOK
  BY <1>1 DEF Init, PageOK, NoPage
<1>4. EntryOK
  BY DEF Init, EntryOK, Fits
<1>5. MovesOK
  BY Numbers DEF Init, MovesOK
<1>6. RestOK
  BY <1>1, Numbers DEF Init, RestOK
<1>7. WorkerOK
  BY IdleFits DEF Init, WorkerOK
<1> QED BY <1>2, <1>3, <1>4, <1>5, <1>6, <1>7 DEF IInv

(* The users. *)

\* A new entry rests on the version that the device's row rests on.
LEMMA NewEntry ==
    ASSUME LocalOK, MovesOK, NEW t \in Things, NEW force \in BOOLEAN, moves[t] < MaxMoves
    PROVE  /\ New(t, force) \in Entries
           /\ New(t, force).edit = moves[t] + 1 /\ New(t, force).base = local[t].seen
           /\ New(t, force).force = force /\ New(t, force).terminal = FALSE
<1>1. moves[t] + 1 \in 1..MaxMoves
  BY Numbers DEF MovesOK
<1>2. local[t].seen \in Nat \cup {None}
  BY DEF LocalOK, Locals
<1> QED BY <1>1, <1>2, Numbers DEF New, Entries

\* A lot's entry need only be of its type and alive.
LEMMA LotFits ==
    ASSUME NEW t \in Things, NEW e \in Entries, kind[t] = "lot", kind' = kind, ~e.terminal
    PROVE  Fits(t, e)'
BY DEF Fits

LEMMA UserStep ==
    ASSUME IInv, NEW t \in Things, User(t)
    PROVE  IInv'
<1>0. /\ LocalOK /\ PageOK /\ EntryOK /\ MovesOK /\ RestOK /\ WorkerOK
      /\ local[t] \in Locals /\ Known(t, local[t]) /\ page[t] \in Pages /\ kind[t] \in {"tick", "lot"}
      /\ server[t] \in Rows /\ entry[t] \in Entries \cup {None} /\ Fits(t, entry[t])
  BY DEF IInv, LocalOK, PageOK, RestOK, EntryOK
<1>1. ASSUME TickItem(t) PROVE IInv'
  <2> DEFINE row == [[local[t] EXCEPT !.edit = moves'[t]] EXCEPT !.sync = "pending"]
  <2>1. /\ kind[t] = "tick" /\ Move(t, local[t].seen) /\ entry' = [entry EXCEPT ![t] = Enqueued(t)]
        /\ local' = [local EXCEPT ![t] = row]
        /\ UNCHANGED <<kind, server, page, closings, worker>>
    BY <1>0, <1>1 DEF TickItem, LocalOK
  <2>2. local[t].seen \in Nat
    BY <1>0, <2>1 DEF Known
  <2>3. /\ MovesOK' /\ moves'[t] = moves[t] + 1 /\ moves'[t] \in 1..MaxMoves
        /\ saw'[t][moves'[t]] = local[t].seen
        /\ \A u \in Things, d \in Entries : Honest(u, d) => Honest(u, d)'
    BY <1>0, <2>1, <2>2, MoveStep
  <2>4. row \in Locals /\ row.sync = "pending" /\ row.seen = local[t].seen
    <3>1. moves'[t] \in 0..MaxMoves
      BY <2>3, Numbers
    <3> QED BY <1>0, <3>1 DEF Locals
  <2>5. Known(t, row)
    BY <2>2, <2>4 DEF Known
  <2> HIDE DEF row
  <2>6. LocalOK'
    BY <1>0, <2>1, <2>4, <2>5, WriteLocal
  <2>7. moves[t] < MaxMoves
    BY <2>1 DEF Move
  <2>8. PICK n \in Entries : /\ n = New(t, FALSE) /\ n.edit = moves'[t] /\ n.base = local[t].seen
                             /\ n.force = FALSE /\ n.terminal = FALSE
    BY <1>0, <2>3, <2>7, NewEntry
  <2>9. PICK e \in Entries : /\ e = Enqueued(t) /\ e.edit = n.edit /\ e.base = n.base
                             /\ e.force = FALSE
    <3>1. CASE ~Queued(t)
      BY <2>8, <3>1 DEF Enqueued
    <3>2. CASE Queued(t)
      <4>1. entry[t] \in Entries
        BY <1>0, <3>2 DEF Queued
      <4>2. entry[t].id \in 1..MaxMoves /\ entry[t].terminal \in BOOLEAN
        BY <4>1 DEF Entries
      <4>3. Enqueued(t) = [[n EXCEPT !.id = entry[t].id] EXCEPT !.terminal = entry[t].terminal]
        BY <2>8, <3>2 DEF Enqueued
      <4> QED BY <2>8, <4>2, <4>3 DEF Entries
    <3> QED BY <3>1, <3>2
  <2>10. Honest(t, e)'
    <3>1. moves'[t] <= moves'[t]
      BY <2>3
    <3> QED BY <2>3, <2>8, <2>9, <3>1 DEF Honest
  <2>11. Fits(t, e)'
    BY <2>1, <2>9, <2>10 DEF Fits
  <2>12. EntryOK'
    BY <1>0, <2>1, <2>3, <2>9, <2>11, WriteEntry
  <2>13. WorkerOK'
    BY <1>0, <2>1, <2>3, KeepWorkers
  <2>14. PageOK' /\ RestOK'
    BY <1>0, <2>1 DEF PageOK, RestOK
  <2> QED BY <2>3, <2>6, <2>12, <2>13, <2>14 DEF IInv
<1>2. ASSUME NEW row \in Locals, Known(t, row), local' = [local EXCEPT ![t] = row],
             NEW form \in Pages, kind[t] = "tick" => ~form.open, page' = [page EXCEPT ![t] = form],
             NEW e \in Entries \cup {None}, Fits(t, e)', entry' = [entry EXCEPT ![t] = e],
             \A u \in Things, d \in Entries : Honest(u, d) => Honest(u, d)',
             MovesOK', UNCHANGED <<kind, server, closings, worker>>
      PROVE  IInv'
  <2>1. LocalOK'
    BY <1>0, <1>2, WriteLocal
  <2>2. PageOK'
    BY <1>0, <1>2, WritePage
  <2>3. EntryOK'
    BY <1>0, <1>2, WriteEntry
  <2>4. WorkerOK' /\ RestOK'
    BY <1>0, <1>2, KeepWorkers DEF RestOK
  <2> QED BY <1>2, <2>1, <2>2, <2>3, <2>4 DEF IInv
<1>3. ASSUME NEW row \in Locals, Known(t, row), local' = [local EXCEPT ![t] = row],
             NEW form \in Pages, kind[t] = "tick" => ~form.open, page' = [page EXCEPT ![t] = form],
             UNCHANGED <<kind, server, entry, moves, saw, closings, worker>>
      PROVE  IInv'
  <2>1. \A u \in Things, d \in Entries : Honest(u, d) => Honest(u, d)'
    BY <1>3, QuietHonest DEF Quiet
  <2>2. LocalOK'
    BY <1>0, <1>3, WriteLocal
  <2>3. PageOK'
    BY <1>0, <1>3, WritePage
  <2>4. EntryOK'
    BY <1>0, <1>3, <2>1, KeepEntry
  <2>5. WorkerOK' /\ RestOK' /\ MovesOK'
    BY <1>0, <1>3, <2>1, KeepWorkers DEF RestOK, MovesOK
  <2> QED BY <2>2, <2>3, <2>4, <2>5 DEF IInv
<1>4. page = [page EXCEPT ![t] = page[t]] /\ local = [local EXCEPT ![t] = local[t]]
      /\ (kind[t] = "tick" => ~page[t].open)
  BY <1>0 DEF PageOK, LocalOK
<1>5. server[t].version \in Nat /\ server[t].edit \in 0..MaxMoves
  BY <1>0 DEF Rows
<1>6. ASSUME RefreshItem(t) PROVE IInv'
  <2> DEFINE row == [[local[t] EXCEPT !.edit = server[t].edit] EXCEPT !.seen = server[t].version]
  <2>1. /\ kind[t] = "tick" /\ local' = [local EXCEPT ![t] = row] /\ page' = page
        /\ UNCHANGED <<kind, server, entry, moves, saw, closings, worker>>
    BY <1>0, <1>6 DEF RefreshItem, LocalOK
  <2>2. row \in Locals /\ row.seen \in Nat /\ row.sync = local[t].sync
    BY <1>0, <1>5 DEF Locals
  <2>3. Known(t, row)
    BY <1>0, <2>2 DEF Known
  <2> HIDE DEF row
  <2>4. page' = [page EXCEPT ![t] = page[t]] /\ page[t] \in Pages
    BY <1>0, <1>4, <2>1
  <2>5. PICK form \in Pages : form = page[t]
    BY <1>0
  <2> QED BY <1>3, <1>4, <2>1, <2>2, <2>3, <2>4, <2>5
<1>7. ASSUME OpenLot(t) PROVE IInv'
  <2> DEFINE row == [NoLocal EXCEPT !.edit = server[t].edit, !.seen = server[t].version]
             form == [open |-> TRUE, known |-> server[t].version, shows |-> server[t].version]
  <2>1. /\ kind[t] = "lot" /\ local' = [local EXCEPT ![t] = row] /\ page' = [page EXCEPT ![t] = form]
        /\ UNCHANGED <<kind, server, entry, moves, saw, closings, worker>>
    BY <1>7 DEF OpenLot
  <2>2. row \in Locals /\ row.seen \in Nat /\ row.sync = "synced" /\ form \in Pages
    BY <1>5 DEF NoLocal, Locals, Pages
  <2>3. Known(t, row)
    BY <2>1, <2>2 DEF Known
  <2> HIDE DEF row, form
  <2> QED BY <1>3, <2>1, <2>2, <2>3
<1>8. ASSUME ReopenLot(t) PROVE IInv'
  <2> DEFINE form == [open |-> TRUE, known |-> None, shows |-> Rests(t)]
  <2>1. /\ kind[t] = "lot" /\ page' = [page EXCEPT ![t] = form] /\ local' = local
        /\ UNCHANGED <<kind, server, entry, moves, saw, closings, worker>>
    BY <1>8 DEF ReopenLot
  <2>2. Rests(t) \in Nat
    <3>1. CASE local[t].edit = 0
      BY <1>0, <3>1 DEF Rests, Known
    <3>2. CASE local[t].edit # 0
      <4>1. local[t].edit \in 1..MaxMoves
        BY <1>0, <3>2, Numbers DEF Locals
      <4> QED BY <1>0, <3>2, <4>1 DEF Rests, MovesOK
    <3> QED BY <3>1, <3>2
  <2>3. form \in Pages
    BY <2>2 DEF Pages
  <2> HIDE DEF form
  <2>4. PICK row \in Locals : row = local[t]
    BY <1>0
  <2>5. local' = [local EXCEPT ![t] = row] /\ Known(t, row)
    BY <1>0, <1>4, <2>1, <2>4
  <2> QED BY <1>3, <2>1, <2>3, <2>5
<1>9. ASSUME SaveLot(t) PROVE IInv'
  <2> DEFINE row == [NoLocal EXCEPT !.edit = moves'[t], !.sync = "pending", !.seen = page[t].known]
  <2>1. /\ page[t].open /\ Move(t, page[t].shows) /\ local' = [local EXCEPT ![t] = row]
        /\ page' = [page EXCEPT ![t] = NoPage]
        /\ entry' = [entry EXCEPT ![t] = IF Queued(t) /\ entry[t].force THEN entry[t] ELSE New(t, FALSE)]
        /\ UNCHANGED <<kind, server, closings, worker>>
    BY <1>0, <1>9 DEF SaveLot, EntryOK
  <2>2. kind[t] = "lot"
    BY <1>0, <1>4, <2>1
  <2>3. page[t].shows \in Nat /\ page[t].known \in Nat \cup {None}
    BY <1>0 DEF Pages
  <2>4. /\ MovesOK' /\ moves'[t] = moves[t] + 1 /\ moves'[t] \in 1..MaxMoves
        /\ \A u \in Things, d \in Entries : Honest(u, d) => Honest(u, d)'
    BY <1>0, <2>1, <2>3, MoveStep
  <2>5. row \in Locals /\ row.edit = moves'[t] /\ row.edit # 0
    <3>1. moves'[t] \in 0..MaxMoves /\ moves'[t] # 0
      BY <2>4, Numbers
    <3> QED BY <2>3, <3>1, Numbers DEF NoLocal, Locals
  <2> HIDE DEF row
  <2>6. Known(t, row)
    BY <2>2, <2>5 DEF Known
  <2>7. NoPage \in Pages /\ ~NoPage.open
    BY DEF NoPage, Pages
  <2>8. moves[t] < MaxMoves
    BY <2>1 DEF Move
  <2>9. PICK n \in Entries : n = New(t, FALSE) /\ ~n.terminal
    BY <1>0, <2>8, NewEntry
  <2>10. PICK e \in Entries \cup {None} :
            e = IF Queued(t) /\ entry[t].force THEN entry[t] ELSE New(t, FALSE)
    BY <1>0, <2>9
  <2>11. Fits(t, e)'
    <3>1. CASE e = n
      BY <2>1, <2>2, <2>9, <3>1, LotFits
    <3>2. CASE e = entry[t]
      BY <1>0, <2>1, <2>2, <3>2 DEF Fits, Dead
    <3> QED BY <2>9, <2>10, <3>1, <3>2
  <2>12. entry' = [entry EXCEPT ![t] = e]
    BY <2>1, <2>10
  <2> QED BY <1>2, <2>1, <2>4, <2>5, <2>6, <2>7, <2>11, <2>12
<1>10. ASSUME KeepMine(t) PROVE IInv'
  <2> DEFINE row == [[local[t] EXCEPT !.sync = "pending"] EXCEPT !.edit = moves'[t]]
  <2>1. /\ local[t].sync = "conflict" /\ Move(t, local[t].other) /\ local' = [local EXCEPT ![t] = row]
        /\ entry' = [entry EXCEPT ![t] = New(t, TRUE)] /\ page' = page
        /\ UNCHANGED <<kind, server, closings, worker>>
    BY <1>0, <1>10 DEF KeepMine, LocalOK
  <2>2. kind[t] = "lot" /\ local[t].other \in Nat
    BY <1>0, <2>1 DEF Known, Locals
  <2>3. /\ MovesOK' /\ moves'[t] = moves[t] + 1 /\ moves'[t] \in 1..MaxMoves
        /\ \A u \in Things, d \in Entries : Honest(u, d) => Honest(u, d)'
    BY <1>0, <2>1, <2>2, MoveStep
  <2>4. row \in Locals /\ row.edit = moves'[t] /\ row.edit # 0
    <3>1. moves'[t] \in 0..MaxMoves /\ moves'[t] # 0
      BY <2>3, Numbers
    <3> QED BY <1>0, <3>1 DEF Locals
  <2> HIDE DEF row
  <2>5. Known(t, row)
    BY <2>2, <2>4 DEF Known
  <2>6. moves[t] < MaxMoves
    BY <2>1 DEF Move
  <2>7. PICK e \in Entries : e = New(t, TRUE) /\ ~e.terminal
    BY <1>0, <2>6, NewEntry
  <2>8. Fits(t, e)'
    BY <2>1, <2>2, <2>7, LotFits
  <2>9. entry' = [entry EXCEPT ![t] = e]
    BY <2>1, <2>7
  <2>10. PICK form \in Pages : form = page[t]
    BY <1>0
  <2>11. page' = [page EXCEPT ![t] = form] /\ (kind[t] = "tick" => ~form.open)
    BY <1>4, <2>1, <2>10
  <2> QED BY <1>2, <2>1, <2>3, <2>4, <2>5, <2>8, <2>9, <2>11
<1>11. ASSUME TakeTheirs(t) PROVE IInv'
  <2> DEFINE row == [NoLocal EXCEPT !.seen = local[t].other]
  <2>1. /\ local[t].sync = "conflict" /\ local' = [local EXCEPT ![t] = row]
        /\ entry' = [entry EXCEPT ![t] = None] /\ page' = page
        /\ UNCHANGED <<kind, server, moves, saw, closings, worker>>
    BY <1>11 DEF TakeTheirs
  <2>2. row \in Locals /\ row.seen \in Nat /\ row.sync = "synced"
    BY <1>0, Numbers DEF Locals, NoLocal
  <2> HIDE DEF row
  <2>3. Known(t, row)
    BY <2>2 DEF Known
  <2>4. \A u \in Things, d \in Entries : Honest(u, d) => Honest(u, d)'
    BY <2>1, QuietHonest DEF Quiet
  <2>5. Fits(t, None)' /\ MovesOK'
    BY <1>0, <2>1 DEF Fits, MovesOK
  <2>6. PICK form \in Pages : form = page[t]
    BY <1>0
  <2>7. page' = [page EXCEPT ![t] = form] /\ (kind[t] = "tick" => ~form.open)
    BY <1>4, <2>1, <2>6
  <2>8. PICK e \in Entries \cup {None} : e = None
    OBVIOUS
  <2> QED BY <1>2, <2>1, <2>2, <2>3, <2>4, <2>5, <2>7, <2>8
<1>12. ASSUME Retry(t) PROVE IInv'
  <2>1. PICK e \in Entries : e = entry[t] /\ e # None /\ ~e.terminal
    BY <1>0, <1>12 DEF Retry, Queued
  <2>2. /\ entry' = [entry EXCEPT ![t] = [e EXCEPT !.attempts = 0]]
        /\ UNCHANGED <<kind, server, local, page, moves, saw, closings, worker>>
    BY <1>12, <2>1 DEF Retry
  <2>3. [e EXCEPT !.attempts = 0] = [e EXCEPT !.attempts = 0, !.terminal = FALSE]
    BY <2>1 DEF Entries
  <2>4. PICK n \in 0..MaxAttempts, b \in BOOLEAN : n = 0 /\ b = FALSE
    BY Numbers
  <2>5. entry' = [entry EXCEPT ![t] = [e EXCEPT !.attempts = n, !.terminal = b]]
    BY <2>2, <2>3, <2>4
  <2>6. Quiet
    BY <2>2 DEF Quiet
  <2>7. EntryOK'
    BY <1>0, <2>1, <2>4, <2>5, <2>6, MarkEntry
  <2>8. WorkerOK'
    BY <1>0, <2>2, <2>6, QuietHonest, KeepWorkers
  <2>9. LocalOK' /\ PageOK' /\ MovesOK' /\ RestOK'
    BY <1>0, <2>2 DEF LocalOK, Known, PageOK, MovesOK, RestOK
  <2> QED BY <2>7, <2>8, <2>9 DEF IInv
<1> QED BY <1>1, <1>6, <1>7, <1>8, <1>9, <1>10, <1>11, <1>12 DEF User

LEMMA OtherStep ==
    ASSUME IInv, NEW t \in Things, OtherWrites(t)
    PROVE  IInv'
<1>1. /\ UNCHANGED <<kind, device, worker>> /\ server[t].version \in Nat
      /\ server' = [server EXCEPT ![t] = [version |-> server[t].version + 1, edit |-> 0]]
  BY DEF OtherWrites, IInv, RestOK, Rows
<1>2. UNCHANGED <<kind, local, page, entry, moves, saw, closings, worker>>
  BY <1>1 DEF device
<1>3. server' \in [Things -> Rows]
  BY <1>1, Numbers DEF IInv, RestOK, Rows
<1>4. \A u \in Things, d \in Entries : Honest(u, d) => Honest(u, d)'
  BY <1>2, QuietHonest DEF Quiet
<1>5. EntryOK' /\ WorkerOK'
  BY <1>2, <1>4, KeepEntry, KeepWorkers DEF IInv
<1> QED BY <1>2, <1>3, <1>5 DEF IInv, LocalOK, Known, PageOK, MovesOK, RestOK

(* The passes. *)

LEMMA Assemble ==
    ASSUME IInv, Quiet, UNCHANGED <<page, closings>>, server' \in [Things -> Rows],
           LocalOK', EntryOK', WorkerOK'
    PROVE  IInv'
BY DEF IInv, Quiet, PageOK, MovesOK, RestOK

LEMMA KeepLocal ==
    ASSUME LocalOK, Quiet, local' = local
    PROVE  LocalOK'
BY DEF LocalOK, Known, Quiet

LEMMA KeepQueue ==
    ASSUME EntryOK, Quiet, entry' = entry
    PROVE  EntryOK'
BY QuietHonest, KeepEntry DEF Quiet

LEMMA SetSync ==
    ASSUME LocalOK, Quiet, NEW t \in Things, NEW s \in {"synced", "pending", "error"},
           local' = [local EXCEPT ![t].sync = s]
    PROVE  LocalOK'
<1>1. PICK row \in Locals : row = local[t] /\ Known(t, row)
  BY DEF LocalOK
<1>2. /\ [row EXCEPT !.sync = s] \in Locals /\ [row EXCEPT !.sync = s].sync = s
      /\ [row EXCEPT !.sync = s].edit = row.edit /\ [row EXCEPT !.sync = s].seen = row.seen
  BY DEF Locals
<1>3. local' = [local EXCEPT ![t] = [row EXCEPT !.sync = s]]
  BY <1>1
<1>4. PICK q \in Locals : /\ q = [row EXCEPT !.sync = s] /\ q.sync = s /\ q.edit = row.edit
                          /\ q.seen = row.seen
  BY <1>2
<1>5. local' = [local EXCEPT ![t] = q]
  BY <1>3, <1>4
<1>6. Known(t, q)
  BY <1>1, <1>4 DEF Known
<1> QED BY <1>4, <1>5, <1>6, WriteLocal DEF Quiet

LEMMA LotErrorStep ==
    ASSUME IInv, NEW w \in Workers, NEW answer, Task(w) \in Things, Quiet, MarkLotError(w, answer)
    PROVE  LocalOK' /\ EntryOK' /\ WorkerOK'
<1>1. LocalOK /\ EntryOK /\ WorkerOK
  BY DEF IInv
<1>2. /\ Refused(w) \/ Failed(w)
      /\ local' = [local EXCEPT ![Task(w)].sync = "error"]
      /\ Advance(w)
  BY DEF MarkLotError, Unsettled
<1>3. PICK t \in Things : t = Task(w)
  OBVIOUS
<1>4. local' = [local EXCEPT ![t].sync = "error"]
  BY <1>2, <1>3
<1> QED BY <1>1, <1>2, <1>4, SetSync, ChangeOK, AdvanceOK

LEMMA TickWork ==
    ASSUME IInv, NEW w \in Workers,
           \/ FetchItem(w) \/ PostTick(w) \/ TickLanded(w) \/ MarkTickSynced(w)
           \/ TickFailed(w) \/ Reconcile(w) \/ SettleTick(w)
    PROVE  IInv'
<1>1. /\ LocalOK /\ EntryOK /\ WorkerOK /\ server \in [Things -> Rows] /\ worker[w] \in Passes
  BY DEF IInv, WorkerOK, RestOK
<1>2. worker[w].step \in {"tick", "post", "posted", "landed", "reconciled"} /\ Quiet
      /\ UNCHANGED <<page, closings>>
  BY DEF FetchItem, PostTick, TickLanded, MarkTickSynced, TickFailed, Reconcile, SettleTick, At,
     Quiet, device
<1>3. PICK t \in Things : t = Task(w) /\ Copy(w) \in Entries /\ StepFits(t, worker[w].step)
  BY <1>1, <1>2, AtWork
<1>4. t = worker[w].task /\ Task(w) \in Things /\ worker[w].step \notin {"idle", "next"}
  BY <1>2, <1>3 DEF Task
<1>5. ASSUME NEW row \in Locals, row.seen \in Nat, row.sync = "synced",
             local' = [local EXCEPT ![t] = row]
      PROVE  LocalOK'
  BY <1>1, <1>2, <1>5, WriteLocal DEF Known, Quiet
<1>6. CASE FetchItem(w)
  <2>1. server' = server /\ local' = local /\ At(w, "tick")
    BY <1>6 DEF FetchItem
  <2>2. LocalOK'
    BY <1>1, <1>2, <2>1, KeepLocal
  <2>3. CASE /\ worker' = [worker EXCEPT ![w].step = "post", ![w].read = server[Task(w)]]
             /\ UNCHANGED entry
    <3> DEFINE q == [[worker[w] EXCEPT !.step = "post"] EXCEPT !.read = server[Task(w)]]
    <3>1. server[Task(w)] \in Rows
      BY <1>1, <1>3
    <3>2. /\ q \in Passes /\ q.step = "post" /\ q.task = worker[w].task /\ q.todo = worker[w].todo
          /\ q.copies = worker[w].copies
      BY <1>1, <3>1 DEF Passes, Steps
    <3>3. worker' = [worker EXCEPT ![w] = q]
      BY <1>1, <2>3 DEF WorkerOK
    <3>4. StepFits(q.task, q.step)
      BY <1>3, <1>4, <2>1, <3>2 DEF StepFits, At
    <3> HIDE DEF q
    <3>5. WorkerOK'
      BY <1>1, <1>2, <1>4, <3>2, <3>3, <3>4, GoOn
    <3>6. EntryOK'
      BY <1>1, <1>2, <2>3, KeepQueue
    <3> QED BY <1>1, <1>2, <2>1, <2>2, <3>5, <3>6, Assemble
  <2>4. CASE Failed(w) /\ Advance(w)
    <3>1. EntryOK' /\ WorkerOK'
      BY <1>1, <1>2, <1>4, <2>4, ChangeOK, AdvanceOK
    <3> QED BY <1>1, <1>2, <2>1, <2>2, <3>1, Assemble
  <2> QED BY <1>6, <2>3, <2>4 DEF FetchItem
<1>7. CASE PostTick(w)
  <2>1. /\ At(w, "post") /\ UNCHANGED <<local, entry>>
        /\ \E answer \in {"ok", "error", "refused", "stale"} : Goes(w, "posted", answer)
        /\ server' = server
           \/ server' = [server EXCEPT ![t] = [version |-> server[t].version + 1, edit |-> Copy(w).edit]]
    BY <1>1, <1>3, <1>7 DEF PostTick, Answers, device
  <2>2. Copy(w).edit \in 0..MaxMoves /\ server[t].version + 1 \in Nat
    BY <1>1, <1>3, Numbers DEF Entries, Rows
  <2>3. server' \in [Things -> Rows]
    BY <1>1, <2>1, <2>2 DEF Rows
  <2>4. StepFits(worker[w].task, "posted") /\ "posted" \in Steps
    BY <1>3, <1>4, <2>1 DEF StepFits, At, Steps
  <2>5. PICK answer \in {"none", "ok", "error", "refused", "stale"} : Goes(w, "posted", answer)
    BY <2>1
  <2>6. WorkerOK'
    BY <1>1, <1>2, <1>4, <2>4, <2>5, GoesOn
  <2> QED BY <1>1, <1>2, <2>1, <2>3, <2>6, KeepLocal, KeepQueue, Assemble
<1>8. CASE TickLanded(w)
  <2>1. Removed(w) /\ Goes(w, "landed", "ok") /\ UNCHANGED <<server, local>>
    BY <1>8 DEF TickLanded
  <2>2. StepFits(worker[w].task, "landed") /\ "landed" \in Steps
    BY DEF StepFits, Steps
  <2>3. WorkerOK' /\ EntryOK'
    BY <1>1, <1>2, <1>4, <2>1, <2>2, GoesOn, ChangeOK
  <2> QED BY <1>1, <1>2, <2>1, <2>3, KeepLocal, Assemble
<1>9. CASE MarkTickSynced(w)
  <2>1. local' = [local EXCEPT ![t].sync = "synced"] /\ Advance(w) /\ UNCHANGED <<server, entry>>
    BY <1>3, <1>9 DEF MarkTickSynced
  <2>2. LocalOK' /\ WorkerOK' /\ EntryOK'
    BY <1>1, <1>2, <2>1, SetSync, AdvanceOK, KeepQueue
  <2> QED BY <1>1, <1>2, <2>1, <2>2, Assemble
<1>10. CASE TickFailed(w)
  <2>1. Failed(w) /\ Advance(w) /\ UNCHANGED <<server, local>>
    BY <1>10 DEF TickFailed
  <2>2. LocalOK' /\ WorkerOK' /\ EntryOK'
    BY <1>1, <1>2, <1>4, <2>1, KeepLocal, AdvanceOK, ChangeOK
  <2> QED BY <1>1, <1>2, <2>1, <2>2, Assemble
<1>11. CASE Reconcile(w)
  <2> DEFINE row == [NoLocal EXCEPT !.edit = worker[w].read.edit, !.seen = worker[w].read.version]
  <2>1. /\ At(w, "posted") /\ worker[w].answer \in {"stale", "refused"}
        /\ local' = [local EXCEPT ![t] = row]
        /\ Goes(w, "reconciled", worker[w].answer) /\ UNCHANGED <<server, entry>>
    BY <1>3, <1>11 DEF Reconcile
  <2>2. worker[w].read.edit \in 0..MaxMoves /\ worker[w].read.version \in Nat
    BY <1>1 DEF Passes, Rows
  <2>3. row \in Locals /\ row.seen \in Nat /\ row.sync = "synced"
    BY <2>2 DEF NoLocal, Locals
  <2> HIDE DEF row
  <2>4. LocalOK'
    BY <1>5, <2>1, <2>3
  <2>5. StepFits(worker[w].task, "reconciled") /\ "reconciled" \in Steps
    BY <1>3, <1>4, <2>1 DEF StepFits, At, Steps
  <2>6. PICK answer \in {"none", "ok", "error", "refused", "stale"} : answer = worker[w].answer
    BY <2>1
  <2>7. Goes(w, "reconciled", answer)
    BY <2>1, <2>6
  <2>8. WorkerOK' /\ EntryOK'
    BY <1>1, <1>2, <1>4, <2>1, <2>5, <2>7, GoesOn, KeepQueue
  <2> QED BY <1>1, <1>2, <2>1, <2>4, <2>8, Assemble
<1>12. CASE SettleTick(w)
  <2>1. (Removed(w) \/ Refused(w)) /\ Advance(w) /\ UNCHANGED <<server, local>>
    BY <1>12 DEF SettleTick
  <2>2. LocalOK' /\ WorkerOK' /\ EntryOK'
    BY <1>1, <1>2, <1>4, <2>1, KeepLocal, AdvanceOK, ChangeOK
  <2> QED BY <1>1, <1>2, <2>1, <2>2, Assemble
<1> QED BY <1>6, <1>7, <1>8, <1>9, <1>10, <1>11, <1>12

LEMMA LotWork ==
    ASSUME IInv, NEW w \in Workers,
           \/ DropStale(w) \/ FetchLot(w) \/ CheckLot(w) \/ PatchLot(w)
           \/ LotLanded(w) \/ MarkLotSynced(w) \/ LotFailed(w)
    PROVE  IInv'
<1>1. /\ LocalOK /\ EntryOK /\ WorkerOK /\ server \in [Things -> Rows] /\ worker[w] \in Passes
  BY DEF IInv, WorkerOK, RestOK
<1>2. worker[w].step \in {"lot", "check", "patch", "patched", "landed"} /\ Quiet
      /\ UNCHANGED <<page, closings>>
  BY DEF DropStale, FetchLot, CheckLot, PatchLot, LotLanded, MarkLotSynced, LotFailed, At,
     Quiet, device
<1>3. PICK t \in Things : t = Task(w) /\ Copy(w) \in Entries /\ StepFits(t, worker[w].step)
  BY <1>1, <1>2, AtWork
<1>4. t = worker[w].task /\ Task(w) \in Things /\ worker[w].step \notin {"idle", "next"}
  BY <1>2, <1>3 DEF Task
<1>5. PICK row \in Locals : row = local[t] /\ Known(t, row)
  BY <1>1 DEF LocalOK
<1>6. worker[w].read \in Rows /\ worker[w].held \in Locals
  BY <1>1 DEF Passes
<1>7. CASE DropStale(w)
  <2>1. Removed(w) /\ Advance(w) /\ UNCHANGED <<server, local>>
    BY <1>7 DEF DropStale
  <2>2. LocalOK' /\ WorkerOK' /\ EntryOK'
    BY <1>1, <1>2, <1>4, <2>1, KeepLocal, AdvanceOK, ChangeOK
  <2> QED BY <1>1, <1>2, <2>1, <2>2, Assemble
<1>8. CASE FetchLot(w)
  <2>1. At(w, "lot") /\ server' = server
    BY <1>8 DEF FetchLot
  <2>2. CASE \E answer : MarkLotError(w, answer)
    <3>1. LocalOK' /\ EntryOK' /\ WorkerOK'
      BY <1>2, <1>4, <2>2, LotErrorStep
    <3> QED BY <1>1, <1>2, <2>1, <3>1, Assemble
  <2>3. CASE /\ worker' = [worker EXCEPT ![w].step = "check", ![w].read = server[Task(w)]]
             /\ UNCHANGED <<local, entry>>
    <3> DEFINE q == [[worker[w] EXCEPT !.step = "check"] EXCEPT !.read = server[Task(w)]]
    <3>1. server[Task(w)] \in Rows
      BY <1>1, <1>3
    <3>2. /\ q \in Passes /\ q.step = "check" /\ q.task = worker[w].task /\ q.todo = worker[w].todo
          /\ q.copies = worker[w].copies
      BY <1>1, <3>1 DEF Passes, Steps
    <3>3. worker' = [worker EXCEPT ![w] = q]
      BY <1>1, <2>3 DEF WorkerOK
    <3>4. StepFits(q.task, q.step)
      BY <1>3, <1>4, <2>1, <3>2 DEF StepFits, At
    <3> HIDE DEF q
    <3>5. WorkerOK'
      BY <1>1, <1>2, <1>4, <3>2, <3>3, <3>4, GoOn
    <3> QED BY <1>1, <1>2, <2>1, <2>3, <3>5, KeepLocal, KeepQueue, Assemble
  <2> QED BY <1>8, <2>2, <2>3 DEF FetchLot
<1>9. CASE CheckLot(w)
  <2>1. At(w, "check") /\ server' = server
    BY <1>9 DEF CheckLot
  <2>2. kind[t] = "lot"
    BY <1>3, <2>1 DEF StepFits, At
  <2>3. CASE /\ local' = [local EXCEPT ![Task(w)].sync = "conflict",
                                      ![Task(w)].other = worker[w].read.version]
             /\ Removed(w) /\ Advance(w)
    <3> DEFINE q == [[row EXCEPT !.sync = "conflict"] EXCEPT !.other = worker[w].read.version]
    <3>1. worker[w].read.version \in Nat
      BY <1>6 DEF Rows
    <3>2. q \in Locals /\ q.edit = row.edit /\ q.seen = row.seen
      BY <3>1 DEF Locals
    <3>3. local' = [local EXCEPT ![t] = q]
      BY <1>1, <1>3, <1>5, <2>3 DEF LocalOK
    <3> HIDE DEF q
    <3>4. Known(t, q)
      BY <1>5, <2>2, <3>2 DEF Known
    <3>5. LocalOK'
      BY <1>1, <1>2, <3>2, <3>3, <3>4, WriteLocal DEF Quiet
    <3>6. EntryOK' /\ WorkerOK'
      BY <1>1, <1>2, <1>4, <2>3, ChangeOK, AdvanceOK
    <3> QED BY <1>1, <1>2, <2>1, <3>5, <3>6, Assemble
  <2>4. CASE Goes(w, "patch", "none") /\ UNCHANGED <<local, entry>>
    <3>1. StepFits(worker[w].task, "patch") /\ "patch" \in Steps
      BY <1>4, <2>2 DEF StepFits, Steps
    <3>2. WorkerOK'
      BY <1>1, <1>2, <1>4, <2>4, <3>1, GoesOn
    <3> QED BY <1>1, <1>2, <2>1, <2>4, <3>2, KeepLocal, KeepQueue, Assemble
  <2> QED BY <1>9, <2>3, <2>4 DEF CheckLot
<1>10. CASE PatchLot(w)
  <2>1. PICK answer \in {"ok", "error", "refused"} :
        /\ server' = server
           \/ server' = [server EXCEPT ![t] = [version |-> server[t].version + 1,
                                               edit |-> worker[w].held.edit]]
        /\ worker' = [worker EXCEPT ![w].step = "patched", ![w].answer = answer,
                                    ![w].read = server'[t]]
    BY <1>1, <1>3, <1>10 DEF PatchLot, Answers
  <2>2. At(w, "patch") /\ UNCHANGED <<local, entry>>
    BY <1>10 DEF PatchLot, device
  <2>3. worker[w].held.edit \in 0..MaxMoves /\ server[t].version + 1 \in Nat
    BY <1>1, <1>6 DEF Locals, Rows
  <2>4. server' \in [Things -> Rows]
    BY <1>1, <2>1, <2>3 DEF Rows
  <2> DEFINE q == [[[worker[w] EXCEPT !.step = "patched"] EXCEPT !.answer = answer]
                      EXCEPT !.read = server'[t]]
  <2>5. /\ q \in Passes /\ q.step = "patched" /\ q.task = worker[w].task /\ q.todo = worker[w].todo
        /\ q.copies = worker[w].copies
    BY <1>1, <2>4 DEF Passes, Steps
  <2>6. worker' = [worker EXCEPT ![w] = q]
    BY <1>1, <2>1 DEF WorkerOK
  <2>7. StepFits(q.task, q.step)
    BY <1>3, <1>4, <2>2, <2>5 DEF StepFits, At
  <2> HIDE DEF q
  <2>8. WorkerOK'
    BY <1>1, <1>2, <1>4, <2>5, <2>6, <2>7, GoOn
  <2> QED BY <1>1, <1>2, <2>2, <2>4, <2>8, KeepLocal, KeepQueue, Assemble
<1>11. CASE LotLanded(w)
  <2>1. Removed(w) /\ Goes(w, "landed", "ok") /\ UNCHANGED <<server, local>>
    BY <1>11 DEF LotLanded
  <2>2. StepFits(worker[w].task, "landed") /\ "landed" \in Steps
    BY DEF StepFits, Steps
  <2>3. WorkerOK' /\ EntryOK'
    BY <1>1, <1>2, <1>4, <2>1, <2>2, GoesOn, ChangeOK
  <2> QED BY <1>1, <1>2, <2>1, <2>3, KeepLocal, Assemble
<1>12. CASE MarkLotSynced(w)
  <2> DEFINE q == [[row EXCEPT !.sync = "synced"] EXCEPT !.seen = worker[w].read.version]
  <2>1. /\ local' = [local EXCEPT ![t].sync = "synced", ![t].seen = worker[w].read.version]
        /\ Advance(w) /\ UNCHANGED <<server, entry>>
    BY <1>3, <1>12 DEF MarkLotSynced
  <2>2. worker[w].read.version \in Nat
    BY <1>6 DEF Rows
  <2>3. q \in Locals /\ q.seen \in Nat /\ q.sync = "synced"
    BY <2>2 DEF Locals
  <2>4. local' = [local EXCEPT ![t] = q]
    BY <1>1, <1>5, <2>1 DEF LocalOK
  <2> HIDE DEF q
  <2>5. Known(t, q)
    BY <2>3 DEF Known
  <2>6. LocalOK'
    BY <1>1, <1>2, <2>3, <2>4, <2>5, WriteLocal DEF Quiet
  <2>7. EntryOK' /\ WorkerOK'
    BY <1>1, <1>2, <2>1, KeepQueue, AdvanceOK
  <2> QED BY <1>1, <1>2, <2>1, <2>6, <2>7, Assemble
<1>13. CASE LotFailed(w)
  <2>1. MarkLotError(w, worker[w].answer) /\ server' = server
    BY <1>13 DEF LotFailed
  <2>2. LocalOK' /\ EntryOK' /\ WorkerOK'
    BY <1>2, <1>4, <2>1, LotErrorStep
  <2> QED BY <1>1, <1>2, <2>1, <2>2, Assemble
<1> QED BY <1>7, <1>8, <1>9, <1>10, <1>11, <1>12, <1>13

LEMMA PassStep ==
    ASSUME IInv, NEW w \in Workers, Begin(w) \/ Visit(w) \/ Close(w)
    PROVE  IInv'
<1>1. /\ LocalOK /\ EntryOK /\ WorkerOK /\ PageOK /\ MovesOK /\ RestOK
      /\ worker[w] \in Passes /\ PassFits(worker[w])
  BY DEF IInv, WorkerOK
<1>2. UNCHANGED <<kind, server, local, page, entry, moves, saw>> /\ closings' \in 0..MaxClosings
  <2>1. /\ UNCHANGED <<kind, server, local, page, entry, moves, saw>>
        /\ \/ closings' = closings
           \/ closings < MaxClosings /\ closings' = closings + 1
    <3>1. CASE Begin(w) \/ Visit(w)
      BY <3>1 DEF Begin, Visit, device
    <3>2. CASE Close(w)
      BY <3>2 DEF Close
    <3> QED BY <3>1, <3>2
  <2>2. closings \in 0..MaxClosings
    BY <1>1 DEF RestOK
  <2> QED BY <2>1, <2>2, Numbers
<1>3. Quiet
  BY <1>2 DEF Quiet
<1>4. CASE Begin(w)
  <2> DEFINE live == {t \in Things : Queued(t) /\ ~Dead(entry[t])}
             q == Pass(live, entry)
  <2>1. /\ live \in SUBSET Things /\ entry \in [Things -> Entries \cup {None}]
        /\ \A t \in live : entry[t] # None
    BY <1>1 DEF EntryOK, Queued
  <2>2. Copied(entry)
    BY <1>1 DEF EntryOK, Fits, Copied
  <2>3. worker' = [worker EXCEPT ![w] = q]
    BY <1>4 DEF Begin
  <2> HIDE DEF live
  <2>4. q \in Passes /\ PassFits(q)
    BY <2>1, <2>2, PassFitsNext
  <2> HIDE DEF q
  <2>5. WorkerOK'
    BY <1>1, <1>3, <2>3, <2>4, WriteWorker
  <2> QED BY <1>1, <1>2, <1>3, <2>5, KeepLocal, KeepQueue DEF IInv, PageOK, MovesOK, RestOK
<1>5. CASE Visit(w)
  <2>1. PICK t \in worker[w].todo :
          worker' = [worker EXCEPT ![w].task = t, ![w].step = kind[t], ![w].held = local[t]]
    BY <1>5 DEF Visit
  <2> DEFINE q == [[[worker[w] EXCEPT !.task = t] EXCEPT !.step = kind[t]] EXCEPT !.held = local[t]]
  <2>2. t \in Things /\ kind[t] \in {"tick", "lot"} /\ local[t] \in Locals
    BY <1>1 DEF Passes, RestOK, LocalOK
  <2>3. /\ q \in Passes /\ q.step = kind[t] /\ q.task = t /\ q.todo = worker[w].todo
        /\ q.copies = worker[w].copies
    BY <1>1, <2>2 DEF Passes, Steps
  <2>4. worker' = [worker EXCEPT ![w] = q]
    BY <1>1, <2>1 DEF WorkerOK
  <2> HIDE DEF q
  <2>5. PassFits(q)
    BY <1>1, <2>2, <2>3 DEF PassFits, StepFits
  <2>6. WorkerOK'
    BY <1>1, <1>3, <2>3, <2>4, <2>5, WriteWorker
  <2> QED BY <1>1, <1>2, <1>3, <2>6, KeepLocal, KeepQueue DEF IInv, PageOK, MovesOK, RestOK
<1>6. CASE Close(w)
  <2>1. worker' = [worker EXCEPT ![w] = Idle]
    BY <1>6 DEF Close
  <2>2. WorkerOK'
    BY <1>1, <1>3, <2>1, IdleFits, WriteWorker
  <2> QED BY <1>1, <1>2, <1>3, <2>2, KeepLocal, KeepQueue DEF IInv, PageOK, MovesOK, RestOK
<1> QED BY <1>4, <1>5, <1>6

LEMMA StepIInv == IInv /\ [Next]_vars => IInv'
<1> SUFFICES ASSUME IInv, [Next]_vars PROVE IInv'
  OBVIOUS
<1>1. CASE UNCHANGED vars
  <2>1. Quiet /\ UNCHANGED <<server, local, page, entry, closings, worker>>
    BY <1>1 DEF vars, device, Quiet
  <2>2. \A u \in Things, d \in Entries : Honest(u, d) => Honest(u, d)'
    BY <2>1, QuietHonest
  <2>3. WorkerOK'
    BY <2>1, <2>2, KeepWorkers DEF IInv, Quiet
  <2> QED BY <2>1, <2>3, KeepLocal, KeepQueue, Assemble DEF IInv, RestOK
<1>2. CASE Next
  BY <1>2, OtherStep, UserStep, TickWork, LotWork, PassStep DEF Next, Work
<1> QED BY <1>1, <1>2

LEMMA SpecIInv == Spec => []IInv
<1>1. IInv /\ [Next]_vars => IInv'
  BY StepIInv
<1> QED BY InitIInv, <1>1, PTL DEF Spec

-----------------------------------------------------------------------------
\* Every row, entry, page and pass keeps its type; ticks are never forced nor
\* in conflict, and a lot's entry that the server refused is not retried.
THEOREM TypeCorrect == Spec => []TypeOK
BY SpecIInv, IInvType, PTL

\* A tick that reaches the server replaces the completion its user was looking
\* at, whatever was queued, replaced, retried or lost on the way
\* (assertExpectedPreviousItpCompletion, enqueueItpCompletionSync).
THEOREM TicksReplaceTheSeen == Spec => TicksReplaceWhatWasSeen
<1> DEFINE Replaces == \A t \in Things : kind[t] = "tick" =>
          \A e \in 1..MaxMoves : server'[t] # server[t] /\ server'[t].edit = e =>
              saw[t][e] = server[t].version
<1>1. IInv /\ [Next]_vars => [Replaces]_vars
  <2> SUFFICES ASSUME IInv, [Next]_vars, NEW t \in Things, kind[t] = "tick",
                      NEW e \in 1..MaxMoves, server'[t] # server[t], server'[t].edit = e
               PROVE  saw[t][e] = server[t].version
    OBVIOUS
  <2>0. /\ server \in [Things -> Rows] /\ e # 0 /\ EntryOK /\ WorkerOK
    BY Numbers DEF IInv, RestOK
  <2>1. ASSUME NEW u \in Things PROVE ~OtherWrites(u)
    BY <2>0 DEF OtherWrites
  <2>2. ASSUME NEW u \in Things PROVE ~User(u)
    BY DEF User, TickItem, RefreshItem, OpenLot, ReopenLot, SaveLot, KeepMine, TakeTheirs, Retry
  <2>3. PICK w \in Workers : PostTick(w) \/ PatchLot(w)
    BY <2>1, <2>2 DEF Next, vars, Work, Begin, Visit, FetchItem, TickLanded, MarkTickSynced,
       TickFailed, Reconcile, SettleTick, DropStale, FetchLot, CheckLot, LotLanded, MarkLotSynced,
       LotFailed, Close
  <2>4. /\ worker[w].step \in {"post", "patch"} /\ worker[w].step \notin {"idle", "next"}
    BY <2>3 DEF PostTick, PatchLot, At
  <2>5. /\ Task(w) \in Things /\ Copy(w) \in Entries /\ StepFits(Task(w), worker[w].step)
        /\ kind[Task(w)] = "tick" => Honest(Task(w), Copy(w))
    BY <2>0, <2>4, AtWork
  <2>6. CASE PatchLot(w)
    <3>1. kind[Task(w)] = "lot"
      BY <2>5, <2>6 DEF StepFits, PatchLot, At
    <3>2. \A u \in Things : u # Task(w) => server'[u] = server[u]
      BY <2>0, <2>6 DEF PatchLot
    <3> QED BY <3>1, <3>2
  <2>7. CASE PostTick(w)
    <3>1. \/ server' = server
          \/ /\ Base(w) = server[Task(w)].version
             /\ server' = [server EXCEPT ![Task(w)] = [version |-> server[Task(w)].version + 1,
                                                       edit |-> Copy(w).edit]]
      BY <2>0, <2>5, <2>7 DEF PostTick
    <3>2. t = Task(w) /\ e = Copy(w).edit /\ Base(w) = server[t].version
      BY <2>0, <3>1
    <3> QED BY <2>5, <3>2 DEF Honest, Base
  <2> QED BY <2>3, <2>6, <2>7
<1>2. Spec => [][Replaces]_vars
  BY <1>1, SpecIInv, PTL DEF Spec
<1> QED BY <1>2 DEF TicksReplaceWhatWasSeen

-----------------------------------------------------------------------------
(* Foreign versions that the device knows of, where one pass runs at a time. *)

OnePass == \A w, x \in Workers : w = x

\* A version of the past, or one that this device wrote.
Own(t, v) == v <= server[t].version /\ (v = server[t].version => server[t].edit # 0)

\* The version that the device has beside an edit is not newer than the one its
\* user saw, unless the device wrote it.
Rooted(t, row) ==
    row.edit # 0 /\ row.seen # None =>
        row.seen <= saw[t][row.edit] \/ Own(t, row.seen)

\* An entry that the server's version may still stop.
Eager(t) == Queued(t) /\ ~entry[t].force

LotOK(t) ==
    /\ server[t].edit <= moves[t] /\ local[t].edit <= moves[t]
    /\ \A m \in 1..MaxMoves : saw[t][m] <= server[t].version
    /\ local[t].seen # None => local[t].seen <= server[t].version
    /\ local[t].other <= server[t].version
    /\ page[t].shows <= server[t].version
    /\ page[t].known \in {None, page[t].shows}
    /\ local[t].sync = "conflict" => local[t].seen # None /\ local[t].seen <= local[t].other
    /\ Eager(t) /\ local[t].sync # "synced" => Rooted(t, local[t])

\* What a pass meets when it comes to a lot, and leaves when it marks it in error.
InTodo(p, t) ==
    ~(t = p.task /\ p.step = "landed") =>
        /\ ~p.copies[t].force /\ local[t].sync # "synced" => Rooted(t, local[t])
        /\ p.copies[t].force /\ Eager(t) => Rooted(t, local[t])

\* What the version read tells of the row that the pass first read.
Based(t, held, read) ==
    held.edit # 0 /\ held.seen # None =>
        /\ held.seen <= read.version /\ saw[t][held.edit] <= read.version
        /\ held.seen <= saw[t][held.edit] \/ (read.version = held.seen => read.edit # 0)

Asked(t, held, read) ==
    held.edit # 0 /\ read.edit = 0 /\ saw[t][held.edit] # read.version =>
        held.seen = None \/ local[t] # held

AtTask(p, t) ==
    /\ p.held.edit <= moves[t]
    /\ p.step # "lot" => p.read.version <= server[t].version
    /\ p.step # "lot" => p.copies[t].force \/ Unsent(p.held)
    /\ p.step # "landed" /\ ~p.copies[t].force /\ Unsent(p.held) =>
        /\ Rooted(t, local[t])
        /\ p.step = "lot" => Rooted(t, p.held)
        /\ p.step = "check" => Based(t, p.held, p.read)
        /\ p.step = "patch" => Asked(t, p.held, p.read)

LotsOK == \A t \in Things : kind[t] = "lot" => LotOK(t)

PassOK(p) ==
    /\ \A t \in p.todo : kind[t] = "lot" => InTodo(p, t)
    /\ p.step \in {"lot", "check", "patch", "patched", "landed"} /\ kind[p.task] = "lot" =>
          AtTask(p, p.task)

Roots == LotsOK /\ \A w \in Workers : PassOK(worker[w])

LEMMA RootsAsk == IInv /\ Roots => KnownConflictsSurface
<1> SUFFICES ASSUME IInv, Roots, NEW w \in Workers, Blind(w)
             PROVE  worker[w].held.seen = None \/ local[Task(w)] # worker[w].held
  BY DEF KnownConflictsSurface
<1>1. worker[w].step = "patch" /\ Task(w) = worker[w].task /\ ~worker[w].copies[Task(w)].force
  BY DEF Blind, At, Task, Copy
<1>2. kind[Task(w)] = "lot"
  BY <1>1, AtWork DEF IInv, StepFits
<1>3. AtTask(worker[w], Task(w))
  BY <1>1, <1>2 DEF Roots, PassOK
<1>4. Asked(Task(w), worker[w].held, worker[w].read)
  BY <1>1, <1>3 DEF AtTask
<1> QED BY <1>4 DEF Asked, Blind

-----------------------------------------------------------------------------
(* What a step leaves alone, and what grows. *)

Untouched(u) ==
    /\ server'[u] = server[u] /\ local'[u] = local[u] /\ page'[u] = page[u]
    /\ entry'[u] = entry[u] /\ moves'[u] = moves[u] /\ saw'[u] = saw[u]

LEMMA UntouchedKeeps ==
    ASSUME NEW u, Untouched(u)
    PROVE  /\ LotOK(u) => LotOK(u)'
           /\ \A p : InTodo(p, u) => InTodo(p, u)'
           /\ \A p : AtTask(p, u) => AtTask(p, u)'
<1>1. \A row : Rooted(u, row)' <=> Rooted(u, row)
  BY DEF Untouched, Rooted, Own
<1>2. Eager(u)' <=> Eager(u)
  BY DEF Untouched, Eager, Queued
<1>3. \A held, read : (Based(u, held, read)' <=> Based(u, held, read))
                      /\ (Asked(u, held, read)' <=> Asked(u, held, read))
  BY DEF Untouched, Based, Asked
<1>4. LotOK(u) => LotOK(u)'
  BY <1>1, <1>2 DEF Untouched, LotOK
<1>5. ASSUME NEW p, InTodo(p, u) PROVE InTodo(p, u)'
  BY <1>1, <1>2, <1>5 DEF Untouched, InTodo
<1>6. ASSUME NEW p, AtTask(p, u) PROVE AtTask(p, u)'
  BY <1>1, <1>3, <1>6 DEF Untouched, AtTask
<1> QED BY <1>4, <1>5, <1>6

\* The server's version only grows, and what a move was made from stays known.
Later(t) ==
    /\ server'[t] = server[t] \/ server'[t].version > server[t].version
    /\ moves[t] <= moves'[t]
    /\ \A m \in 1..MaxMoves : m <= moves[t] => saw'[t][m] = saw[t][m]

LEMMA RootedLater ==
    ASSUME RestOK, MovesOK, NEW t \in Things, Later(t), server'[t] \in Rows,
           NEW row \in Locals, row.edit <= moves[t], Rooted(t, row)
    PROVE  Rooted(t, row)'
<1>1. /\ server[t].version \in Nat /\ server'[t].version \in Nat
      /\ row.edit # 0 => row.edit \in 1..MaxMoves
      /\ row.seen \in Nat \cup {None}
  BY Numbers DEF RestOK, Rows, Locals
<1>2. row.edit # 0 => saw'[t][row.edit] = saw[t][row.edit]
  BY <1>1 DEF Later
<1>3. \A v \in Nat : Own(t, v) => Own(t, v)'
  BY <1>1 DEF Later, Own
<1> QED BY <1>1, <1>2, <1>3 DEF Rooted

\* At a lot that a pass is working on.
LEMMA AtTaskLater ==
    ASSUME RestOK, MovesOK, NEW t \in Things, Later(t), server'[t] \in Rows, moves'[t] \in Nat,
           NEW p \in Passes, AtTask(p, t),
           \/ Rooted(t, local[t])'
           \/ local'[t] = local[t] /\ local[t] \in Locals /\ local[t].edit <= moves[t],
           local'[t] = local[t] \/ local'[t].sync = "synced" \/ local'[t].edit > moves[t]
    PROVE  AtTask(p, t)'
<1>1. /\ server[t].version \in Nat /\ server'[t].version \in Nat /\ server[t].version <= server'[t].version
      /\ p.held \in Locals /\ p.read \in Rows /\ moves[t] \in Nat
      /\ p.held.edit # 0 => p.held.edit \in 1..MaxMoves
  <2>1. p.held \in Locals /\ p.read \in Rows
    BY DEF Passes
  <2>2. moves[t] \in Nat /\ server[t].version \in Nat /\ server'[t].version \in Nat
    BY Numbers DEF RestOK, MovesOK, Rows
  <2>3. p.held.edit # 0 => p.held.edit \in 1..MaxMoves
    BY <2>1, Numbers DEF Locals
  <2> QED BY <2>1, <2>2, <2>3 DEF Later
<1>2. p.held.edit <= moves[t] /\ p.held.edit \in Nat /\ p.read.version \in Nat
  BY <1>1 DEF AtTask, Locals, Rows
<1>3. p.held.edit # 0 => saw'[t][p.held.edit] = saw[t][p.held.edit]
  BY <1>1, <1>2 DEF Later
<1>4. p.held.edit <= moves'[t] /\ (p.step # "lot" => p.read.version <= server'[t].version)
  BY <1>1, <1>2 DEF AtTask, Later
<1>5. p.step # "lot" => p.copies[t].force \/ Unsent(p.held)
  BY DEF AtTask
<1>6. ASSUME p.step # "landed", ~p.copies[t].force, Unsent(p.held)
      PROVE  /\ Rooted(t, local[t])'
             /\ p.step = "lot" => Rooted(t, p.held)'
             /\ p.step = "check" => Based(t, p.held, p.read)'
             /\ p.step = "patch" => Asked(t, p.held, p.read)'
  <2>1. /\ Rooted(t, local[t])
        /\ p.step = "lot" => Rooted(t, p.held)
        /\ p.step = "check" => Based(t, p.held, p.read)
        /\ p.step = "patch" => Asked(t, p.held, p.read)
    BY <1>6 DEF AtTask
  <2>2. Rooted(t, local[t])'
    <3>1. CASE Rooted(t, local[t])'
      BY <3>1
    <3>2. CASE local'[t] = local[t] /\ local[t] \in Locals /\ local[t].edit <= moves[t]
      <4>1. PICK row \in Locals : row = local[t]
        BY <3>2
      <4>2. Rooted(t, row)'
        BY <2>1, <3>2, <4>1, RootedLater
      <4> QED BY <3>2, <4>1, <4>2 DEF Rooted
    <3> QED BY <3>1, <3>2
  <2>3. p.step = "lot" => Rooted(t, p.held)'
    BY <1>1, <1>2, <2>1, RootedLater
  <2>4. p.step = "check" => Based(t, p.held, p.read)'
    BY <1>3, <2>1 DEF Based
  <2>5. p.step = "patch" => Asked(t, p.held, p.read)'
    <3>1. local'[t] = local[t] \/ local'[t] # p.held
      BY <1>2, <1>6, <1>1, Numbers DEF Unsent, MovesOK
    <3> QED BY <1>3, <2>1, <3>1 DEF Asked
  <2> QED BY <2>2, <2>3, <2>4, <2>5
<1> QED BY <1>4, <1>5, <1>6 DEF AtTask

\* A lot that its user, or another one, changed.
LEMMA LotChanged ==
    ASSUME IInv, IInv', Roots, NEW t \in Things, kind[t] = "lot", UNCHANGED <<kind, worker>>,
           \A u \in Things \ {t} : Untouched(u), Later(t), LotOK(t)',
           \/ local'[t] = local[t] /\ (Eager(t)' => Eager(t))
           \/ Rooted(t, local[t])' /\ (local'[t].sync = "synced" \/ local'[t].edit > moves[t])
    PROVE  Roots'
<1>1. /\ RestOK /\ MovesOK /\ server'[t] \in Rows /\ moves'[t] \in Nat
      /\ local[t] \in Locals /\ local[t].edit <= moves[t]
      /\ \A w \in Workers : worker[w] \in Passes /\ worker'[w] = worker[w]
  <2>1. /\ RestOK /\ MovesOK /\ server'[t] \in Rows /\ moves'[t] \in 0..MaxMoves
    BY DEF IInv, RestOK, MovesOK
  <2>2. local[t] \in Locals /\ \A w \in Workers : worker[w] \in Passes /\ worker'[w] = worker[w]
    BY DEF IInv, LocalOK, WorkerOK
  <2>3. local[t].edit <= moves[t]
    BY DEF Roots, LotsOK, LotOK
  <2> QED BY <2>1, <2>2, <2>3, Numbers
<1>2. LotsOK'
  BY UntouchedKeeps DEF Roots, LotsOK
<1>3. ASSUME NEW w \in Workers PROVE PassOK(worker[w])'
  <2>0. PICK p \in Passes : p = worker[w]
    BY <1>1
  <2>1. PassOK(p) /\ worker'[w] = p /\ p.todo \subseteq Things
    BY <1>1, <2>0 DEF Roots, Passes
  <2>2. p.step \notin {"idle", "next"} => p.task \in Things
    BY <2>0, AtWork DEF IInv, Task
  <2>3. ASSUME NEW u \in p.todo, kind[u] = "lot" PROVE InTodo(p, u)'
    <3>1. InTodo(p, u)
      BY <2>1, <2>3 DEF PassOK
    <3>2. CASE u # t
      BY <2>1, <3>1, <3>2, UntouchedKeeps
    <3>3. CASE u = t /\ Rooted(t, local[t])'
      BY <3>3 DEF InTodo
    <3>4. CASE u = t /\ local'[t] = local[t] /\ (Eager(t)' => Eager(t))
      <4>1. PICK row \in Locals : row = local[t]
        BY <1>1
      <4>2. Rooted(t, local[t]) => Rooted(t, local[t])'
        <5>1. Rooted(t, row) => Rooted(t, row)'
          BY <1>1, <4>1, RootedLater
        <5> QED BY <3>4, <4>1, <5>1 DEF Rooted
      <4> QED BY <3>1, <3>4, <4>2 DEF InTodo
    <3> QED BY <3>2, <3>3, <3>4
  <2>4. ASSUME p.step \in {"lot", "check", "patch", "patched", "landed"}, kind[p.task] = "lot"
        PROVE  AtTask(p, p.task)'
    <3>1. AtTask(p, p.task) /\ p.task \in Things
      BY <2>1, <2>2, <2>4 DEF PassOK
    <3>2. CASE p.task # t
      BY <3>1, <3>2, UntouchedKeeps
    <3>3. CASE p.task = t
      <4>1. AtTask(p, t)'
        BY <1>1, <2>1, <3>1, <3>3, AtTaskLater
      <4> QED BY <3>3, <4>1
    <3> QED BY <3>2, <3>3
  <2>5. PassOK(p)'
    BY <2>3, <2>4 DEF PassOK
  <2> QED BY <2>1, <2>5
<1> QED BY <1>2, <1>3 DEF Roots

\* The rows of a lot, with their types.
LEMMA LotFacts ==
    ASSUME IInv, Roots, NEW t \in Things, kind[t] = "lot"
    PROVE  /\ LotOK(t) /\ server[t] \in Rows /\ local[t] \in Locals /\ page[t] \in Pages
           /\ entry[t] \in Entries \cup {None} /\ moves[t] \in 0..MaxMoves
           /\ saw[t] \in [1..MaxMoves -> Nat]
BY DEF IInv, RestOK, LocalOK, PageOK, EntryOK, MovesOK, Roots, LotsOK

LEMMA OthersWriteLot ==
    ASSUME IInv, IInv', Roots, NEW t \in Things, kind[t] = "lot", OtherWrites(t)
    PROVE  Roots'
<1>1. /\ server' = [server EXCEPT ![t] = [version |-> server[t].version + 1, edit |-> 0]]
      /\ UNCHANGED <<kind, local, page, entry, moves, saw, worker>>
  BY DEF OtherWrites, device
<1>2. /\ LotOK(t) /\ server[t] \in Rows /\ local[t] \in Locals /\ moves[t] \in 0..MaxMoves
      /\ saw[t] \in [1..MaxMoves -> Nat] /\ page[t] \in Pages
  BY LotFacts
<1>3. server'[t] = [version |-> server[t].version + 1, edit |-> 0]
      /\ \A u \in Things \ {t} : server'[u] = server[u]
  BY <1>1 DEF IInv, RestOK
<1>4. server[t].version \in Nat /\ server'[t].version = server[t].version + 1 /\ server'[t].edit = 0
  BY <1>2, <1>3 DEF Rows
<1>5. Later(t) /\ \A u \in Things \ {t} : Untouched(u)
  BY <1>1, <1>2, <1>3, <1>4 DEF Later, Untouched
<1>6. Rooted(t, local[t]) => Rooted(t, local[t])'
  <2>1. PICK row \in Locals : row = local[t]
    BY <1>2
  <2>2. RestOK /\ MovesOK /\ server'[t] \in Rows /\ row.edit <= moves[t]
    BY <1>2, <2>1 DEF IInv, RestOK, LotOK
  <2>3. Rooted(t, row) => Rooted(t, row)'
    BY <1>5, <2>2, RootedLater
  <2> QED BY <1>1, <2>1, <2>3 DEF Rooted
<1>7. LotOK(t)'
  <2>1. moves[t] \in Nat /\ local[t].other \in Nat /\ page[t].shows \in Nat
        /\ local[t].seen \in Nat \cup {None} /\ \A m \in 1..MaxMoves : saw[t][m] \in Nat
    BY <1>2, Numbers DEF Locals, Pages
  <2>2. Eager(t)' <=> Eager(t)
    BY <1>1 DEF Eager, Queued
  <2> QED BY <1>1, <1>2, <1>4, <1>6, <2>1, <2>2 DEF LotOK
<1>8. local'[t] = local[t] /\ (Eager(t)' => Eager(t))
  BY <1>1 DEF Eager, Queued
<1> QED BY <1>1, <1>5, <1>7, <1>8, LotChanged

\* A step of the user leaves the server and the other things alone.
LEMMA UserLeaves ==
    ASSUME IInv, NEW t \in Things, User(t)
    PROVE  /\ UNCHANGED <<kind, server, worker>>
           /\ \A u \in Things \ {t} : Untouched(u)
<1>1. UNCHANGED <<kind, server, worker>>
  BY DEF User, TickItem, RefreshItem, OpenLot, ReopenLot, SaveLot, KeepMine, TakeTheirs, Retry
<1>2. ASSUME NEW u \in Things, u # t PROVE Untouched(u)
  BY <1>1, <1>2 DEF User, TickItem, RefreshItem, OpenLot, ReopenLot, SaveLot, KeepMine, TakeTheirs,
     Retry, Move, Untouched, IInv, LocalOK, PageOK, EntryOK, MovesOK
<1> QED BY <1>1, <1>2

\* A move is made from a version that is there, and no earlier one is forgotten.
LEMMA MoveLater ==
    ASSUME IInv, Roots, NEW t \in Things, kind[t] = "lot", NEW v \in Nat, Move(t, v),
           server' = server, v <= server[t].version
    PROVE  /\ Later(t) /\ moves'[t] = moves[t] + 1 /\ moves'[t] \in 1..MaxMoves
           /\ moves[t] \in Nat /\ saw'[t][moves'[t]] = v
           /\ \A m \in 1..MaxMoves : saw'[t][m] <= server[t].version
<1>1. MovesOK /\ LotOK(t) /\ moves[t] \in 0..MaxMoves /\ saw[t] \in [1..MaxMoves -> Nat]
  BY LotFacts DEF IInv
<1>2. moves'[t] = moves[t] + 1 /\ moves'[t] \in 1..MaxMoves /\ saw'[t][moves'[t]] = v
  BY <1>1, MoveStep
<1>3. \A m \in 1..MaxMoves : m # moves'[t] => saw'[t][m] = saw[t][m]
  BY <1>1, <1>2 DEF Move, MovesOK
<1>4. moves[t] \in Nat /\ \A m \in 1..MaxMoves : m <= moves[t] => m # moves'[t]
  BY <1>1, <1>2
<1>5. Later(t)
  BY <1>2, <1>3, <1>4 DEF Later
<1> QED BY <1>1, <1>2, <1>3, <1>4, <1>5 DEF LotOK

LEMMA LotOpened ==
    ASSUME IInv, IInv', Roots, NEW t \in Things, OpenLot(t) PROVE Roots'
<1> DEFINE v == server[t].version
           new == [NoLocal EXCEPT !.edit = server[t].edit, !.seen = v]
<1>1. /\ kind[t] = "lot"
      /\ local' = [local EXCEPT ![t] = new]
      /\ page' = [page EXCEPT ![t] = [open |-> TRUE, known |-> v, shows |-> v]]
      /\ UNCHANGED <<kind, server, worker, moves, saw>>
  BY DEF OpenLot
<1>2. /\ LotOK(t) /\ server[t] \in Rows /\ moves[t] \in 0..MaxMoves /\ v \in Nat
      /\ saw[t] \in [1..MaxMoves -> Nat] /\ \A u \in Things \ {t} : Untouched(u)
  BY <1>1, LotFacts, UserLeaves DEF Rows, User
<1>3. /\ local'[t].edit = server[t].edit /\ local'[t].seen = v /\ local'[t].sync = "synced"
      /\ local'[t].other = 0
      /\ page'[t].known = v /\ page'[t].shows = v
  BY <1>1 DEF IInv, LocalOK, PageOK, NoLocal
<1>4. Later(t)
  BY <1>1, <1>2 DEF Later
<1>5. Rooted(t, local[t])'
  BY <1>1, <1>2, <1>3 DEF Rooted, Own
<1>6. LotOK(t)'
  BY <1>1, <1>2, <1>3, <1>5 DEF LotOK
<1> QED BY <1>1, <1>2, <1>3, <1>4, <1>5, <1>6, LotChanged

LEMMA LotReopened ==
    ASSUME IInv, IInv', Roots, NEW t \in Things, ReopenLot(t) PROVE Roots'
<1>1. /\ kind[t] = "lot"
      /\ page' = [page EXCEPT ![t] = [open |-> TRUE, known |-> None, shows |-> Rests(t)]]
      /\ UNCHANGED <<kind, server, worker, moves, saw, local, entry>>
  BY DEF ReopenLot
<1>2. /\ LotOK(t) /\ server[t] \in Rows /\ moves[t] \in 0..MaxMoves /\ local[t] \in Locals
      /\ saw[t] \in [1..MaxMoves -> Nat] /\ \A u \in Things \ {t} : Untouched(u)
  BY <1>1, LotFacts, UserLeaves DEF User
<1>3. page'[t].known = None /\ page'[t].shows = Rests(t)
  BY <1>1 DEF IInv, PageOK
<1>4. Rests(t) <= server[t].version
  <2>1. CASE local[t].edit = 0
    <3>1. local[t].seen \in Nat
      BY <2>1 DEF IInv, LocalOK, Known
    <3> QED BY <1>2, <2>1, <3>1, ConstantsAssumption DEF Rests, LotOK
  <2>2. CASE local[t].edit # 0
    <3>1. local[t].edit \in 1..MaxMoves
      BY <1>2, <2>2, Numbers DEF Locals
    <3> QED BY <1>2, <2>2, <3>1 DEF Rests, LotOK
  <2> QED BY <2>1, <2>2
<1>5. Later(t)
  BY <1>1, <1>2 DEF Later
<1>6. /\ Rooted(t, local[t])' <=> Rooted(t, local[t])
      /\ Eager(t)' <=> Eager(t)
  BY <1>1 DEF Rooted, Own, Eager, Queued
<1>7. LotOK(t)'
  BY <1>1, <1>2, <1>3, <1>4, <1>6 DEF LotOK
<1> QED BY <1>1, <1>2, <1>5, <1>6, <1>7, LotChanged

LEMMA LotSaved ==
    ASSUME IInv, IInv', Roots, NEW t \in Things, SaveLot(t) PROVE Roots'
<1>1. /\ page[t].open /\ Move(t, page[t].shows)
      /\ local' = [local EXCEPT ![t] = [NoLocal EXCEPT !.edit = moves'[t], !.sync = "pending",
                                           !.seen = page[t].known]]
      /\ page' = [page EXCEPT ![t] = NoPage]
      /\ UNCHANGED <<kind, server, worker>>
  BY DEF SaveLot
<1>2. kind[t] = "lot"
  BY <1>1 DEF IInv, PageOK, RestOK
<1>3. /\ LotOK(t) /\ server[t] \in Rows /\ page[t] \in Pages
      /\ \A u \in Things \ {t} : Untouched(u)
  BY <1>2, LotFacts, UserLeaves DEF User
<1>4. page[t].shows \in Nat /\ page[t].shows <= server[t].version
  BY <1>3 DEF Pages, LotOK
<1>5. /\ Later(t) /\ moves'[t] = moves[t] + 1 /\ moves'[t] \in 1..MaxMoves
      /\ moves[t] \in Nat /\ saw'[t][moves'[t]] = page[t].shows
      /\ \A m \in 1..MaxMoves : saw'[t][m] <= server[t].version
  BY <1>1, <1>2, <1>4, MoveLater
<1>6. /\ local'[t].edit = moves'[t] /\ local'[t].sync = "pending" /\ local'[t].other = 0
      /\ local'[t].seen = page[t].known /\ page'[t].known = None /\ page'[t].shows = 0
  BY <1>1 DEF IInv, LocalOK, PageOK, NoLocal, NoPage
<1>7. page[t].known # None => page[t].known = page[t].shows
  BY <1>3 DEF LotOK
<1>8. Rooted(t, local[t])'
  BY <1>4, <1>5, <1>6, <1>7 DEF Rooted
<1>9. LotOK(t)'
  BY <1>1, <1>3, <1>4, <1>5, <1>6, <1>7, <1>8 DEF LotOK, Rows
<1>10. local'[t].edit > moves[t]
  BY <1>5, <1>6
<1> QED BY <1>1, <1>2, <1>3, <1>5, <1>8, <1>9, <1>10, LotChanged

LEMMA MineKept ==
    ASSUME IInv, IInv', Roots, NEW t \in Things, KeepMine(t) PROVE Roots'
<1>1. /\ local[t].sync = "conflict" /\ Move(t, local[t].other)
      /\ local' = [local EXCEPT ![t].sync = "pending", ![t].edit = moves'[t]]
      /\ UNCHANGED <<kind, server, worker, page>>
  BY DEF KeepMine
<1>2. kind[t] = "lot"
  BY <1>1 DEF IInv, LocalOK, Known, RestOK
<1>3. /\ LotOK(t) /\ server[t] \in Rows /\ local[t] \in Locals
      /\ \A u \in Things \ {t} : Untouched(u)
  BY <1>2, LotFacts, UserLeaves DEF User
<1>4. local[t].other \in Nat /\ local[t].other <= server[t].version
  BY <1>3 DEF Locals, LotOK
<1>5. /\ Later(t) /\ moves'[t] = moves[t] + 1 /\ moves'[t] \in 1..MaxMoves
      /\ moves[t] \in Nat /\ saw'[t][moves'[t]] = local[t].other
      /\ \A m \in 1..MaxMoves : saw'[t][m] <= server[t].version
  BY <1>1, <1>2, <1>4, MoveLater
<1>6. /\ local'[t].edit = moves'[t] /\ local'[t].sync = "pending"
      /\ local'[t].other = local[t].other /\ local'[t].seen = local[t].seen
  BY <1>1, <1>3 DEF IInv, LocalOK, Locals
<1>7. local[t].seen <= local[t].other
  BY <1>1, <1>3 DEF LotOK
<1>8. Rooted(t, local[t])'
  BY <1>5, <1>6, <1>7 DEF Rooted
<1>9. LotOK(t)'
  BY <1>1, <1>3, <1>5, <1>6, <1>8 DEF LotOK, Rows
<1>10. local'[t].edit > moves[t]
  BY <1>5, <1>6
<1> QED BY <1>1, <1>2, <1>3, <1>5, <1>8, <1>9, <1>10, LotChanged

LEMMA TheirsTaken ==
    ASSUME IInv, IInv', Roots, NEW t \in Things, TakeTheirs(t) PROVE Roots'
<1>1. /\ local[t].sync = "conflict"
      /\ local' = [local EXCEPT ![t] = [NoLocal EXCEPT !.seen = local[t].other]]
      /\ UNCHANGED <<kind, server, worker, page, moves, saw>>
  BY DEF TakeTheirs
<1>2. kind[t] = "lot"
  BY <1>1 DEF IInv, LocalOK, Known, RestOK
<1>3. /\ LotOK(t) /\ server[t] \in Rows /\ local[t] \in Locals /\ moves[t] \in 0..MaxMoves
      /\ \A u \in Things \ {t} : Untouched(u)
  BY <1>2, LotFacts, UserLeaves DEF User
<1>4. /\ local'[t].edit = 0 /\ local'[t].sync = "synced" /\ local'[t].other = 0
      /\ local'[t].seen = local[t].other
  BY <1>1 DEF IInv, LocalOK, NoLocal
<1>5. Rooted(t, local[t])'
  BY <1>4 DEF Rooted
<1>6. Later(t)
  BY <1>1, <1>3 DEF Later
<1>7. LotOK(t)'
  BY <1>1, <1>3, <1>4, <1>5 DEF LotOK, Rows
<1> QED BY <1>1, <1>2, <1>3, <1>4, <1>5, <1>6, <1>7, LotChanged

LEMMA LotRetried ==
    ASSUME IInv, IInv', Roots, NEW t \in Things, kind[t] = "lot", Retry(t) PROVE Roots'
<1>1. /\ Queued(t) /\ entry' = [entry EXCEPT ![t].attempts = 0]
      /\ UNCHANGED <<kind, server, worker, page, moves, saw, local>>
  BY DEF Retry
<1>2. /\ LotOK(t) /\ entry[t] \in Entries \cup {None} /\ moves[t] \in 0..MaxMoves
      /\ \A u \in Things \ {t} : Untouched(u)
  BY LotFacts, UserLeaves DEF User
<1>3. entry'[t] = [entry[t] EXCEPT !.attempts = 0]
  BY <1>1 DEF IInv, EntryOK
<1>4. Eager(t)' => Eager(t)
  BY <1>1, <1>2, <1>3 DEF Eager, Queued, Entries
<1>5. Rooted(t, local[t])' <=> Rooted(t, local[t])
  BY <1>1 DEF Rooted, Own
<1>6. Later(t)
  BY <1>1, <1>2 DEF Later
<1>7. LotOK(t)'
  BY <1>1, <1>2, <1>4, <1>5 DEF LotOK
<1> QED BY <1>1, <1>2, <1>4, <1>6, <1>7, LotChanged

-----------------------------------------------------------------------------
(* The pass. *)

LotsAside == \A u \in Things : kind[u] = "lot" => Untouched(u)

LEMMA AsideOK ==
    ASSUME Roots, kind' = kind, LotsAside PROVE LotsOK'
BY UntouchedKeeps DEF Roots, LotsOK, LotsAside

LEMMA Bystanders ==
    ASSUME IInv, Roots, UNCHANGED <<kind, worker>>, LotsAside PROVE Roots'
<1>1. ASSUME NEW w \in Workers PROVE PassOK(worker[w])'
  <2>1. PICK p \in Passes : p = worker[w]
    BY DEF IInv, WorkerOK
  <2>2. PassOK(p) /\ worker'[w] = p /\ p.todo \subseteq Things
    BY <2>1 DEF Roots, Passes
  <2>3. p.step \notin {"idle", "next"} => p.task \in Things
    BY <2>1, AtWork DEF IInv, Task
  <2>4. PassOK(p)'
    BY <2>2, <2>3, UntouchedKeeps DEF PassOK, LotsAside
  <2> QED BY <2>2, <2>4
<1> QED BY <1>1, AsideOK DEF Roots

LEMMA PassChanged ==
    ASSUME OnePass, IInv, NEW w \in Workers, NEW q, worker' = [worker EXCEPT ![w] = q],
           PassOK(q)', LotsOK'
    PROVE  Roots'
<1>1. worker'[w] = q /\ \A x \in Workers : x = w
  BY DEF OnePass, IInv, WorkerOK
<1> QED BY <1>1 DEF Roots

\* A pass that leaves its thing: the others are as they were.
LEMMA Advanced ==
    ASSUME OnePass, IInv, Roots, NEW w \in Workers, worker[w].step \notin {"idle", "next"},
           Advance(w), kind' = kind, LotsOK',
           \A u \in Things \ {Task(w)} : kind[u] = "lot" => Untouched(u)
    PROVE  Roots'
<1>1. PICK p \in Passes : p = worker[w]
  BY DEF IInv, WorkerOK
<1>2. PassOK(p) /\ p.todo \subseteq Things /\ p.task = Task(w)
  BY <1>1 DEF Roots, Passes, Task
<1> DEFINE q == Pass(p.todo \ {p.task}, p.copies)
<1>3. worker' = [worker EXCEPT ![w] = q]
  BY <1>1 DEF Advance
<1>4. PassOK(q)'
  <2>1. CASE p.todo \ {p.task} = {}
    BY <2>1 DEF PassOK, Pass, Idle
  <2>2. CASE p.todo \ {p.task} # {}
    <3>1. /\ q.step = "next" /\ q.todo = p.todo \ {p.task} /\ q.copies = p.copies
      BY <2>2 DEF Pass, Idle
    <3> HIDE DEF q
    <3>2. ASSUME NEW u \in q.todo, kind[u] = "lot" PROVE InTodo(q, u)'
      <4>1. InTodo(p, u) /\ u # p.task /\ u \in Things
        BY <1>2, <3>1, <3>2 DEF PassOK
      <4>2. InTodo(q, u)
        BY <3>1, <4>1 DEF InTodo
      <4> QED BY <1>2, <3>2, <4>1, <4>2, UntouchedKeeps
    <3>3. PassOK(q)'
      BY <3>1, <3>2 DEF PassOK
    <3> QED BY <3>3
  <2> QED BY <2>1, <2>2
<1> HIDE DEF q
<1> QED BY <1>3, <1>4, PassChanged

\* A pass that goes on with its thing.
LEMMA WentOn ==
    ASSUME OnePass, IInv, Roots, NEW w \in Workers, worker[w].step \notin {"idle", "next"},
           NEW q, worker' = [worker EXCEPT ![w] = q], kind' = kind, LotsOK',
           q.todo = worker[w].todo, q.task = worker[w].task, q.copies = worker[w].copies,
           \A u \in Things \ {Task(w)} : kind[u] = "lot" => Untouched(u),
           kind[Task(w)] = "lot" => InTodo(q, Task(w))' /\ AtTask(q, Task(w))'
    PROVE  Roots'
<1>1. PICK p \in Passes : p = worker[w]
  BY DEF IInv, WorkerOK
<1>2. /\ PassOK(p) /\ p.todo \subseteq Things /\ p.task = Task(w)
      /\ q.todo = p.todo /\ q.task = p.task /\ q.copies = p.copies
  BY <1>1 DEF Roots, Passes, Task
<1>3. PICK t : t = p.task
  OBVIOUS
<1>4. kind[t] = "lot" => InTodo(q, t)' /\ AtTask(q, t)'
  <2>1. Task(w)' = Task(w)
    BY <1>1, <1>2 DEF Task, IInv, WorkerOK
  <2> QED BY <1>2, <1>3, <2>1
<1>5. ASSUME NEW u \in q.todo, kind[u] = "lot" PROVE InTodo(q, u)'
  <2>1. CASE u = t
    BY <1>4, <1>5, <2>1
  <2>2. CASE u # t
    <3>1. InTodo(p, u) /\ u \in Things
      BY <1>2, <1>5 DEF PassOK
    <3>2. InTodo(q, u)
      BY <1>2, <1>3, <2>2, <3>1 DEF InTodo
    <3> QED BY <1>2, <1>3, <1>5, <2>2, <3>1, <3>2, UntouchedKeeps
  <2> QED BY <2>1, <2>2
<1>6. PassOK(q)'
  BY <1>2, <1>3, <1>4, <1>5 DEF PassOK
<1> QED BY <1>6, PassChanged

LEMMA PassBegins == ASSUME OnePass, IInv, Roots, NEW w \in Workers, Begin(w) PROVE Roots'
<1> DEFINE live == {t \in Things : Queued(t) /\ ~Dead(entry[t])}
           q == Pass(live, entry)
<1>1. worker' = [worker EXCEPT ![w] = q] /\ live # {}
      /\ UNCHANGED <<kind, server, local, page, entry, moves, saw>>
  BY DEF Begin, device
<1>2. LotsAside
  BY <1>1 DEF LotsAside, Untouched
<1>3. LotsOK'
  BY <1>1, <1>2, AsideOK
<1>4. PICK copies : copies = entry
  OBVIOUS
<1>5. PICK todo : todo = live
  OBVIOUS
<1>6. PICK p : p = Pass(todo, copies)
  OBVIOUS
<1>7. p.step = "next" /\ p.todo = todo /\ p.copies = copies
  BY <1>1, <1>5, <1>6 DEF Pass, Idle
<1>8. ASSUME NEW t \in todo, kind[t] = "lot" PROVE InTodo(p, t)
  <2>1. LotOK(t) /\ Queued(t) /\ p.copies[t] = entry[t]
    BY <1>4, <1>5, <1>7, <1>8 DEF Roots, LotsOK
  <2> QED BY <2>1 DEF InTodo, LotOK, Eager
<1>9. \A t \in todo : kind[t] = "lot" => InTodo(p, t)'
  BY <1>2, <1>5, <1>8, UntouchedKeeps DEF LotsAside
<1>10. PassOK(p)'
  BY <1>1, <1>7, <1>9 DEF PassOK
<1>11. worker' = [worker EXCEPT ![w] = p]
  BY <1>1, <1>4, <1>5, <1>6
<1> QED BY <1>3, <1>10, <1>11, PassChanged

LEMMA PassVisits == ASSUME OnePass, IInv, Roots, NEW w \in Workers, Visit(w) PROVE Roots'
<1>1. PICK p \in Passes : p = worker[w]
  BY DEF IInv, WorkerOK
<1>2. /\ PassOK(p) /\ p.todo \subseteq Things /\ p.step = "next"
      /\ UNCHANGED <<kind, server, local, page, entry, moves, saw>>
  BY <1>1 DEF Roots, Passes, Visit, At, device
<1>3. PICK t \in p.todo :
        worker' = [worker EXCEPT ![w].task = t, ![w].step = kind[t], ![w].held = local[t]]
  BY <1>1 DEF Visit
<1>4. PICK q : q = [[[p EXCEPT !.task = t] EXCEPT !.step = kind[t]] EXCEPT !.held = local[t]]
  OBVIOUS
<1>5. /\ q.step = kind[t] /\ q.task = t /\ q.todo = p.todo /\ q.copies = p.copies
      /\ q.held = local[t]
  BY <1>4 DEF Passes
<1>6. worker' = [worker EXCEPT ![w] = q]
  BY <1>1, <1>3, <1>4 DEF IInv, WorkerOK
<1>7. LotsAside
  BY <1>2 DEF LotsAside, Untouched
<1>8. LotsOK'
  BY <1>2, <1>7, AsideOK
<1>9. kind[t] \in {"tick", "lot"} /\ t \in Things
  BY <1>2 DEF IInv, RestOK
<1>10. ASSUME NEW u \in q.todo, kind[u] = "lot" PROVE InTodo(q, u)'
  <2>1. InTodo(p, u) /\ u \in Things
    BY <1>2, <1>5, <1>10 DEF PassOK
  <2>2. InTodo(q, u)
    BY <1>2, <1>5, <2>1 DEF InTodo
  <2> QED BY <1>7, <1>10, <2>1, <2>2, UntouchedKeeps DEF LotsAside
<1>11. ASSUME kind[t] = "lot" PROVE AtTask(q, t)'
  <2>1. LotOK(t) /\ InTodo(p, t)
    BY <1>2, <1>9, <1>11 DEF Roots, LotsOK, PassOK
  <2>2. ~p.copies[t].force /\ local[t].sync # "synced" => Rooted(t, local[t])
    BY <1>2, <2>1 DEF InTodo
  <2>3. ~q.copies[t].force /\ Unsent(q.held) => Rooted(t, local[t]) /\ Rooted(t, q.held)
    BY <1>5, <2>2 DEF Unsent
  <2>4. AtTask(q, t)
    BY <1>5, <1>11, <2>1, <2>3 DEF AtTask, LotOK
  <2> QED BY <1>7, <1>9, <1>11, <2>4, UntouchedKeeps DEF LotsAside
<1>12. PassOK(q)'
  BY <1>2, <1>5, <1>9, <1>10, <1>11 DEF PassOK
<1> QED BY <1>6, <1>8, <1>12, PassChanged

LEMMA PassCloses == ASSUME OnePass, IInv, Roots, NEW w \in Workers, Close(w) PROVE Roots'
<1>1. worker' = [worker EXCEPT ![w] = Idle]
      /\ UNCHANGED <<kind, server, local, page, entry, moves, saw>>
  BY DEF Close
<1>2. LotsAside
  BY <1>1 DEF LotsAside, Untouched
<1>3. LotsOK'
  BY <1>1, <1>2, AsideOK
<1>4. PassOK(Idle)'
  BY DEF PassOK, Idle
<1> QED BY <1>1, <1>3, <1>4, PassChanged

\* A step of a pass that changes the queue does so at the thing it is working on.
LEMMA QueueAtTask ==
    ASSUME EntryOK, NEW w \in Workers, Removed(w) \/ Failed(w) \/ Refused(w) \/ entry' = entry
    PROVE  \A u \in Things \ {Task(w)} : entry'[u] = entry[u]
BY DEF EntryOK, Removed, Failed, Refused, Change

\* Ticks concern no lot.
LEMMA TickRoots ==
    ASSUME OnePass, IInv, Roots, NEW w \in Workers,
           \/ FetchItem(w) \/ PostTick(w) \/ TickLanded(w) \/ MarkTickSynced(w)
           \/ TickFailed(w) \/ Reconcile(w) \/ SettleTick(w)
    PROVE  Roots'
<1>1. PICK p \in Passes : p = worker[w]
  BY DEF IInv, WorkerOK
<1>2. p.step \in {"tick", "post", "posted", "landed", "reconciled"} /\ UNCHANGED <<kind, page, moves, saw>>
  BY <1>1 DEF FetchItem, PostTick, TickLanded, MarkTickSynced, TickFailed, Reconcile, SettleTick,
     At, device
<1>3. PICK t \in Things : t = Task(w) /\ StepFits(t, p.step)
  BY <1>1, <1>2, AtWork DEF IInv
<1>4. kind[t] = "tick" /\ t = p.task
  BY <1>1, <1>2, <1>3 DEF StepFits, MarkTickSynced, TickLanded, FetchItem, PostTick, TickFailed,
     Reconcile, SettleTick, At, Task
<1>5. \A u \in Things \ {t} : entry'[u] = entry[u]
  <2>1. Removed(w) \/ Failed(w) \/ Refused(w) \/ entry' = entry
    BY DEF FetchItem, PostTick, TickLanded, MarkTickSynced, TickFailed, Reconcile, SettleTick, device
  <2> QED BY <1>3, <2>1, QueueAtTask DEF IInv
<1>6. \A u \in Things \ {t} : local'[u] = local[u] /\ server'[u] = server[u]
  BY <1>3 DEF FetchItem, PostTick, TickLanded, MarkTickSynced, TickFailed, Reconcile, SettleTick,
     device, IInv, LocalOK, RestOK
<1>7. LotsAside
  BY <1>2, <1>4, <1>5, <1>6 DEF LotsAside, Untouched
<1>8. LotsOK'
  BY <1>2, <1>7, AsideOK
<1>9. CASE Advance(w)
  BY <1>1, <1>2, <1>7, <1>8, <1>9, Advanced DEF LotsAside
<1>10. ASSUME NEW q, worker' = [worker EXCEPT ![w] = q], q.todo = p.todo, q.task = p.task,
              q.copies = p.copies
       PROVE  Roots'
  BY <1>1, <1>2, <1>3, <1>4, <1>7, <1>8, <1>10, WentOn DEF LotsAside
<1>11. ASSUME NEW step, NEW answer, Goes(w, step, answer) PROVE Roots'
  <2>1. PICK q : q = [[p EXCEPT !.step = step] EXCEPT !.answer = answer]
    OBVIOUS
  <2>2. q.todo = p.todo /\ q.task = p.task /\ q.copies = p.copies
    BY <2>1 DEF Passes
  <2>3. worker' = [worker EXCEPT ![w] = q]
    BY <1>1, <1>11, <2>1 DEF Goes, IInv, WorkerOK
  <2> QED BY <1>10, <2>2, <2>3
<1>12. CASE worker' = [worker EXCEPT ![w].step = "post", ![w].read = server[Task(w)]]
  <2>1. PICK q : q = [[p EXCEPT !.step = "post"] EXCEPT !.read = server[Task(w)]]
    OBVIOUS
  <2>2. q.todo = p.todo /\ q.task = p.task /\ q.copies = p.copies
    BY <2>1 DEF Passes
  <2>3. worker' = [worker EXCEPT ![w] = q]
    BY <1>1, <1>12, <2>1 DEF IInv, WorkerOK
  <2> QED BY <1>10, <2>2, <2>3
<1> QED BY <1>9, <1>11, <1>12 DEF FetchItem, PostTick, TickLanded, MarkTickSynced, TickFailed,
   Reconcile, SettleTick

\* What a pass does to the queue makes no entry one that versions may stop.
LEMMA EagerKept ==
    ASSUME EntryOK, NEW w \in Workers, NEW t \in Things, t = Task(w),
           Removed(w) \/ Failed(w) \/ Refused(w)
    PROVE  Eager(t)' => Eager(t)
<1>1. PICK e \in Entries \cup {None} : e = entry[t]
  BY DEF EntryOK
<1>2. CASE entry' = entry
  BY <1>2 DEF Eager, Queued
<1>3. CASE entry' # entry /\ Removed(w)
  BY <1>3 DEF Removed, Change, EntryOK, Eager, Queued
<1>4. CASE entry' # entry /\ (Failed(w) \/ Refused(w))
  <2>1. e \in Entries /\ entry[t] # None
    BY <1>1, <1>4 DEF Failed, Refused, Change, Same, Queued
  <2>2. CASE Failed(w)
    <3>1. entry'[t] = [e EXCEPT !.attempts = IF Dead(e) THEN @ ELSE @ + 1]
      BY <1>1, <1>4, <2>2 DEF Failed, Change, EntryOK
    <3> QED BY <1>1, <2>1, <3>1 DEF Entries, Eager, Queued
  <2>3. CASE Refused(w)
    <3>1. entry'[t] = [e EXCEPT !.attempts = MaxAttempts, !.terminal = TRUE]
      BY <1>1, <1>4, <2>3 DEF Refused, Change, EntryOK
    <3> QED BY <1>1, <2>1, <3>1 DEF Entries, Eager, Queued
  <2> QED BY <1>4, <2>2, <2>3
<1> QED BY <1>2, <1>3, <1>4

\* A pass at a lot.
LEMMA AtLot ==
    ASSUME IInv, Roots, NEW w \in Workers, worker[w].step \in {"lot", "check", "patch", "patched"}
    PROVE  /\ Task(w) \in Things /\ kind[Task(w)] = "lot" /\ LotOK(Task(w))
           /\ worker[w] \in Passes /\ Task(w) = worker[w].task /\ Copy(w) = worker[w].copies[Task(w)]
           /\ AtTask(worker[w], Task(w)) /\ InTodo(worker[w], Task(w))
<1>1. /\ Task(w) \in Things /\ kind[Task(w)] = "lot" /\ Task(w) = worker[w].task
      /\ Copy(w) = worker[w].copies[Task(w)]
  BY AtWork DEF IInv, StepFits, Task, Copy
<1>2. worker[w] \in Passes /\ Task(w) \in worker[w].todo
  BY <1>1 DEF IInv, WorkerOK, PassFits
<1> QED BY <1>1, <1>2 DEF Roots, LotsOK, PassOK

\* Marking a lot in error leaves a row that may be looked at again.
LEMMA LotMarked ==
    ASSUME OnePass, IInv, Roots, NEW w \in Workers,
           worker[w].step \in {"lot", "check", "patch", "patched"},
           Copy(w).force \/ Unsent(worker[w].held),
           NEW answer, MarkLotError(w, answer), UNCHANGED <<kind, server, page, moves, saw>>
    PROVE  Roots'
<1>1. PICK t \in Things : t = Task(w)
  BY AtLot
<1>2. /\ kind[t] = "lot" /\ LotOK(t) /\ AtTask(worker[w], t) /\ InTodo(worker[w], t)
      /\ Copy(w) = worker[w].copies[t]
  BY <1>1, AtLot
<1>3. /\ Failed(w) \/ Refused(w)
      /\ local' = [local EXCEPT ![t].sync = "error"] /\ Advance(w)
  BY <1>1 DEF MarkLotError, Unsettled
<1>4. PICK row \in Locals : row = local[t]
  BY DEF IInv, LocalOK
<1>5. local'[t].edit = row.edit /\ local'[t].seen = row.seen /\ local'[t].sync = "error"
      /\ local'[t].other = row.other
  BY <1>3, <1>4 DEF IInv, LocalOK, Locals
<1>6. Eager(t)' => Eager(t)
  BY <1>1, <1>3, EagerKept DEF IInv
<1>7. Eager(t) => Rooted(t, local[t])
  BY <1>2 DEF AtTask, InTodo
<1>8. Rooted(t, local[t])' <=> Rooted(t, local[t])
  BY <1>4, <1>5 DEF Rooted, Own
<1>9. LotOK(t)'
  BY <1>2, <1>4, <1>5, <1>6, <1>7, <1>8 DEF LotOK
<1>10. \A u \in Things \ {t} : Untouched(u)
  <2>1. \A u \in Things \ {t} : entry'[u] = entry[u] /\ local'[u] = local[u]
    BY <1>1, <1>3, QueueAtTask DEF IInv, LocalOK
  <2> QED BY <2>1 DEF Untouched
<1>11. LotsOK'
  BY <1>9, <1>10, UntouchedKeeps DEF Roots, LotsOK
<1> QED BY <1>1, <1>3, <1>10, <1>11, Advanced

LEMMA LotDropped == ASSUME OnePass, IInv, Roots, NEW w \in Workers, DropStale(w) PROVE Roots'
<1>1. /\ worker[w].step = "lot" /\ Removed(w) /\ Advance(w)
      /\ UNCHANGED <<kind, server, local, page, moves, saw>>
  BY DEF DropStale, At
<1>2. PICK t \in Things : t = Task(w)
  BY <1>1, AtLot
<1>3. kind[t] = "lot" /\ LotOK(t)
  BY <1>1, <1>2, AtLot
<1>4. Eager(t)' => Eager(t)
  BY <1>1, <1>2, EagerKept DEF IInv
<1>5. Rooted(t, local[t])' <=> Rooted(t, local[t])
  BY <1>1 DEF Rooted, Own
<1>6. LotOK(t)'
  BY <1>1, <1>3, <1>4, <1>5 DEF LotOK
<1>7. \A u \in Things \ {t} : Untouched(u)
  BY <1>1, <1>2, QueueAtTask DEF IInv, Untouched
<1>8. LotsOK'
  BY <1>1, <1>6, <1>7, UntouchedKeeps DEF Roots, LotsOK
<1> QED BY <1>1, <1>2, <1>7, <1>8, Advanced

LEMMA LotFetched == ASSUME OnePass, IInv, Roots, NEW w \in Workers, FetchLot(w) PROVE Roots'
<1>1. /\ worker[w].step = "lot" /\ (Copy(w).force \/ Unsent(worker[w].held))
      /\ UNCHANGED <<kind, server, page, moves, saw>>
  BY DEF FetchLot, At
<1>2. CASE \E answer : MarkLotError(w, answer)
  BY <1>1, <1>2, LotMarked
<1>3. CASE /\ worker' = [worker EXCEPT ![w].step = "check", ![w].read = server[Task(w)]]
           /\ UNCHANGED <<local, entry>>
  <2>1. PICK t \in Things : t = Task(w)
    BY <1>1, AtLot
  <2>2. PICK p \in Passes : p = worker[w]
    BY DEF IInv, WorkerOK
  <2>3. /\ kind[t] = "lot" /\ LotOK(t) /\ AtTask(p, t) /\ InTodo(p, t)
        /\ Copy(w) = p.copies[t] /\ t = p.task
    BY <1>1, <2>1, <2>2, AtLot
  <2>4. PICK q : q = [[p EXCEPT !.step = "check"] EXCEPT !.read = server[t]]
    OBVIOUS
  <2>5. /\ q.step = "check" /\ q.read = server[t] /\ q.held = p.held
        /\ q.todo = p.todo /\ q.task = p.task /\ q.copies = p.copies
    BY <2>4 DEF Passes
  <2>6. worker' = [worker EXCEPT ![w] = q]
    BY <1>3, <2>1, <2>2, <2>4 DEF IInv, WorkerOK
  <2>7. LotsAside
    BY <1>1, <1>3 DEF LotsAside, Untouched
  <2>8. LotsOK'
    BY <1>1, <2>7, AsideOK
  <2>9. InTodo(q, t)
    BY <1>1, <2>2, <2>3, <2>5 DEF InTodo
  <2>10. server[t].version \in Nat /\ server[t] \in Rows /\ p.held \in Locals
    BY <2>2 DEF IInv, RestOK, Rows, Passes
  <2>11. ~p.copies[t].force /\ Unsent(p.held) => Rooted(t, local[t]) /\ Rooted(t, p.held)
    BY <1>1, <2>2, <2>3 DEF AtTask
  <2>12. p.held.edit <= moves[t]
    BY <2>3 DEF AtTask
  <2>13. Rooted(t, p.held) => Based(t, p.held, server[t])
    <3>1. p.held.edit # 0 => p.held.edit \in 1..MaxMoves
      BY <2>10, Numbers DEF Locals
    <3>2. p.held.edit # 0 => saw[t][p.held.edit] <= server[t].version /\ saw[t][p.held.edit] \in Nat
      BY <2>3, <3>1 DEF LotOK, IInv, MovesOK
    <3>3. p.held.seen \in Nat \cup {None}
      BY <2>10 DEF Locals
    <3> QED BY <2>10, <3>2, <3>3 DEF Rooted, Own, Based
  <2>14. AtTask(q, t)
    BY <1>1, <2>2, <2>3, <2>5, <2>10, <2>11, <2>12, <2>13 DEF AtTask
  <2>15. InTodo(q, t)' /\ AtTask(q, t)'
    BY <2>3, <2>7, <2>9, <2>14, UntouchedKeeps DEF LotsAside
  <2>16. InTodo(q, Task(w))' /\ AtTask(q, Task(w))'
    <3>1. Task(w)' = t
      BY <2>1, <2>2, <2>5, <2>6 DEF Task, IInv, WorkerOK
    <3> QED BY <2>15, <3>1
  <2> QED BY <1>1, <2>2, <2>5, <2>6, <2>7, <2>8, <2>16, WentOn DEF LotsAside
<1> QED BY <1>2, <1>3 DEF FetchLot

\* The version read is that of the lot's row, or the user of the device has
\* changed the row since: the check at CheckLot.
LEMMA LotChecked == ASSUME OnePass, IInv, Roots, NEW w \in Workers, CheckLot(w) PROVE Roots'
<1>1. worker[w].step = "check" /\ UNCHANGED <<kind, server, page, moves, saw>>
  BY DEF CheckLot, At
<1>2. PICK t \in Things : t = Task(w)
  BY <1>1, AtLot
<1>3. PICK p \in Passes : p = worker[w]
  BY DEF IInv, WorkerOK
<1>4. /\ kind[t] = "lot" /\ LotOK(t) /\ AtTask(p, t) /\ InTodo(p, t)
      /\ Copy(w) = p.copies[t] /\ t = p.task
  BY <1>1, <1>2, <1>3, AtLot
<1>5. PICK row \in Locals : row = local[t]
  BY DEF IInv, LocalOK
<1>6. /\ row.seen \in Nat \cup {None} /\ p.read.version \in Nat /\ server[t].version \in Nat
      /\ p.read.version <= server[t].version
  BY <1>1, <1>3, <1>4, <1>5 DEF Locals, Passes, Rows, AtTask, IInv, RestOK
<1>7. p.copies[t].force \/ Unsent(p.held)
  BY <1>1, <1>3, <1>4 DEF AtTask
<1>8. CASE /\ ~Copy(w).force /\ Stale(row, p.read.version)
           /\ local' = [local EXCEPT ![t].sync = "conflict", ![t].other = p.read.version]
           /\ Removed(w) /\ Advance(w)
  <2>1. /\ local'[t].edit = row.edit /\ local'[t].seen = row.seen /\ local'[t].sync = "conflict"
        /\ local'[t].other = p.read.version
    BY <1>5, <1>8 DEF IInv, LocalOK, Locals
  <2>2. row.seen # None /\ row.seen <= p.read.version
    BY <1>6, <1>8 DEF Stale
  <2>3. Rooted(t, local[t])
    BY <1>1, <1>3, <1>4, <1>7, <1>8 DEF AtTask
  <2>4. Rooted(t, local[t])'
    BY <1>1, <1>5, <2>1, <2>3 DEF Rooted, Own
  <2>5. LotOK(t)'
    BY <1>1, <1>4, <1>5, <1>6, <2>1, <2>2, <2>4 DEF LotOK
  <2>6. \A u \in Things \ {t} : Untouched(u)
    <3>1. \A u \in Things \ {t} : entry'[u] = entry[u] /\ local'[u] = local[u]
      BY <1>2, <1>8, QueueAtTask DEF IInv, LocalOK
    <3> QED BY <1>1, <3>1 DEF Untouched
  <2>7. LotsOK'
    BY <1>1, <2>5, <2>6, UntouchedKeeps DEF Roots, LotsOK
  <2> QED BY <1>1, <1>2, <1>8, <2>6, <2>7, Advanced
<1>9. CASE /\ Copy(w).force \/ ~Stale(row, p.read.version)
           /\ Goes(w, "patch", "none") /\ UNCHANGED <<local, entry>>
  <2>1. PICK q : q = [[p EXCEPT !.step = "patch"] EXCEPT !.answer = "none"]
    OBVIOUS
  <2>2. /\ q.step = "patch" /\ q.read = p.read /\ q.held = p.held
        /\ q.todo = p.todo /\ q.task = p.task /\ q.copies = p.copies
    BY <2>1 DEF Passes
  <2>3. worker' = [worker EXCEPT ![w] = q]
    BY <1>3, <1>9, <2>1 DEF Goes, IInv, WorkerOK
  <2>4. LotsAside
    BY <1>1, <1>9 DEF LotsAside, Untouched
  <2>5. LotsOK'
    BY <1>1, <2>4, AsideOK
  <2>6. InTodo(q, t)
    BY <1>1, <1>3, <1>4, <2>2 DEF InTodo
  <2>7. ASSUME ~p.copies[t].force, Unsent(p.held)
        PROVE  Rooted(t, local[t]) /\ Asked(t, p.held, p.read)
    <3>1. Rooted(t, local[t]) /\ Based(t, p.held, p.read)
      BY <1>1, <1>3, <1>4, <2>7 DEF AtTask
    <3>2. ASSUME p.held.edit # 0, p.read.edit = 0, saw[t][p.held.edit] # p.read.version,
                 p.held.seen # None, row = p.held
          PROVE  FALSE
      <4>1. ~(p.read.version > p.held.seen)
        BY <1>4, <1>9, <2>7, <3>2 DEF Stale
      <4>2. p.held.edit \in 1..MaxMoves /\ p.held.seen \in Nat
        BY <1>5, <1>6, <3>2, Numbers DEF Locals
      <4>3. saw[t][p.held.edit] \in Nat
        BY <4>2 DEF IInv, MovesOK
      <4> QED BY <1>6, <3>1, <3>2, <4>1, <4>2, <4>3 DEF Based
    <3> QED BY <1>5, <3>1, <3>2 DEF Asked
  <2>8. AtTask(q, t)
    BY <1>4, <1>6, <1>7, <2>2, <2>7 DEF AtTask
  <2>9. InTodo(q, t)' /\ AtTask(q, t)'
    BY <1>4, <2>4, <2>6, <2>8, UntouchedKeeps DEF LotsAside
  <2>10. Task(w)' = t
    BY <1>3, <1>4, <2>2, <2>3 DEF Task, IInv, WorkerOK
  <2>11. InTodo(q, Task(w))' /\ AtTask(q, Task(w))'
    BY <2>9, <2>10
  <2> QED BY <1>1, <1>3, <2>2, <2>3, <2>4, <2>5, <2>11, WentOn DEF LotsAside
<1> QED BY <1>2, <1>3, <1>5, <1>8, <1>9 DEF CheckLot

LEMMA LotPatched == ASSUME OnePass, IInv, IInv', Roots, NEW w \in Workers, PatchLot(w) PROVE Roots'
<1>1. worker[w].step = "patch" /\ UNCHANGED <<kind, local, entry, page, moves, saw>>
  BY DEF PatchLot, At, device
<1>2. PICK t \in Things : t = Task(w)
  BY <1>1, AtLot
<1>3. PICK p \in Passes : p = worker[w]
  BY DEF IInv, WorkerOK
<1>4. /\ kind[t] = "lot" /\ LotOK(t) /\ AtTask(p, t) /\ InTodo(p, t)
      /\ Copy(w) = p.copies[t] /\ t = p.task
  BY <1>1, <1>2, <1>3, AtLot
<1>5. /\ local[t] \in Locals /\ server[t] \in Rows /\ server'[t] \in Rows /\ moves[t] \in 0..MaxMoves
      /\ saw[t] \in [1..MaxMoves -> Nat] /\ page[t] \in Pages /\ p.held \in Locals
  BY <1>3, <1>4, LotFacts DEF IInv, RestOK, Passes
<1>6. PICK answer : \E done \in BOOLEAN :
        /\ server' = IF done THEN [server EXCEPT ![t] = [version |-> server[t].version + 1,
                                                         edit |-> p.held.edit]]
                     ELSE server
        /\ worker' = [worker EXCEPT ![w].step = "patched", ![w].answer = answer,
                                    ![w].read = server'[t]]
  <2>1. \A answer : Done(answer) \subseteq BOOLEAN
    BY DEF Done
  <2> QED BY <1>2, <1>3, <2>1 DEF PatchLot
<1>7. /\ \A u \in Things \ {t} : server'[u] = server[u]
      /\ \/ server'[t] = server[t]
         \/ server'[t] = [version |-> server[t].version + 1, edit |-> p.held.edit]
  BY <1>6 DEF IInv, RestOK
<1>8. /\ server[t].version \in Nat /\ server'[t].version \in Nat
      /\ server'[t] = server[t] \/ server'[t].version > server[t].version
      /\ server'[t].edit <= moves[t]
  BY <1>4, <1>5, <1>7 DEF Rows, AtTask, LotOK
<1>9. Later(t) /\ \A u \in Things \ {t} : Untouched(u)
  BY <1>1, <1>5, <1>7, <1>8 DEF Later, Untouched
<1>10. Rooted(t, local[t]) => Rooted(t, local[t])'
  <2>1. PICK row \in Locals : row = local[t]
    BY <1>5
  <2>2. Rooted(t, row) => Rooted(t, row)'
    BY <1>4, <1>5, <1>9, <2>1, RootedLater DEF IInv, LotOK
  <2> QED BY <1>1, <2>1, <2>2 DEF Rooted
<1>11. Eager(t)' <=> Eager(t)
  BY <1>1 DEF Eager, Queued
<1>12. LotOK(t)'
  <2>1. moves[t] \in Nat /\ local[t].other \in Nat /\ page[t].shows \in Nat
        /\ local[t].seen \in Nat \cup {None} /\ \A m \in 1..MaxMoves : saw[t][m] \in Nat
    BY <1>5, Numbers DEF Locals, Pages
  <2> QED BY <1>1, <1>4, <1>8, <1>10, <1>11, <2>1 DEF LotOK
<1>13. LotsOK'
  BY <1>1, <1>9, <1>12, UntouchedKeeps DEF Roots, LotsOK
<1>14. PICK new \in Rows : new = server'[t]
  BY <1>5
<1>15. PICK q : q = [[[p EXCEPT !.step = "patched"] EXCEPT !.answer = answer] EXCEPT !.read = new]
  OBVIOUS
<1>16. /\ q.step = "patched" /\ q.read = new /\ q.held = p.held
       /\ q.todo = p.todo /\ q.task = p.task /\ q.copies = p.copies
  BY <1>15 DEF Passes
<1>17. worker' = [worker EXCEPT ![w] = q]
  BY <1>3, <1>6, <1>14, <1>15 DEF IInv, WorkerOK
<1>18. InTodo(q, t)'
  <2>1. /\ ~p.copies[t].force /\ local[t].sync # "synced" => Rooted(t, local[t])
        /\ p.copies[t].force /\ Eager(t) => Rooted(t, local[t])
    BY <1>1, <1>3, <1>4 DEF InTodo
  <2> QED BY <1>1, <1>10, <1>11, <1>16, <2>1 DEF InTodo
<1>19. AtTask(q, t)'
  <2>1. p.held.edit <= moves'[t] /\ (p.copies[t].force \/ Unsent(p.held))
    BY <1>1, <1>3, <1>4 DEF AtTask
  <2>2. ~p.copies[t].force /\ Unsent(p.held) => Rooted(t, local[t])
    BY <1>1, <1>3, <1>4 DEF AtTask
  <2> QED BY <1>8, <1>10, <1>14, <1>16, <2>1, <2>2 DEF AtTask
<1>20. Task(w)' = t
  BY <1>3, <1>4, <1>16, <1>17 DEF Task, IInv, WorkerOK
<1>21. InTodo(q, Task(w))' /\ AtTask(q, Task(w))'
  BY <1>18, <1>19, <1>20
<1> QED BY <1>1, <1>2, <1>3, <1>9, <1>13, <1>16, <1>17, <1>21, WentOn

LEMMA LotLands == ASSUME OnePass, IInv, Roots, NEW w \in Workers, LotLanded(w) PROVE Roots'
<1>1. /\ worker[w].step = "patched" /\ Removed(w) /\ Goes(w, "landed", "ok")
      /\ UNCHANGED <<kind, server, local, page, moves, saw>>
  BY DEF LotLanded, At
<1>2. PICK t \in Things : t = Task(w)
  BY <1>1, AtLot
<1>3. PICK p \in Passes : p = worker[w]
  BY DEF IInv, WorkerOK
<1>4. /\ kind[t] = "lot" /\ LotOK(t) /\ AtTask(p, t) /\ t = p.task
  BY <1>1, <1>2, <1>3, AtLot
<1>5. Eager(t)' => Eager(t)
  BY <1>1, <1>2, EagerKept DEF IInv
<1>6. Rooted(t, local[t])' <=> Rooted(t, local[t])
  BY <1>1 DEF Rooted, Own
<1>7. LotOK(t)'
  BY <1>1, <1>4, <1>5, <1>6 DEF LotOK
<1>8. \A u \in Things \ {t} : Untouched(u)
  BY <1>1, <1>2, QueueAtTask DEF IInv, Untouched
<1>9. LotsOK'
  BY <1>1, <1>7, <1>8, UntouchedKeeps DEF Roots, LotsOK
<1>10. PICK q : q = [[p EXCEPT !.step = "landed"] EXCEPT !.answer = "ok"]
  OBVIOUS
<1>11. /\ q.step = "landed" /\ q.read = p.read /\ q.held = p.held
       /\ q.todo = p.todo /\ q.task = p.task /\ q.copies = p.copies
  BY <1>10 DEF Passes
<1>12. worker' = [worker EXCEPT ![w] = q]
  BY <1>1, <1>3, <1>10 DEF Goes, IInv, WorkerOK
<1>13. InTodo(q, t)'
  BY <1>4, <1>11 DEF InTodo
<1>14. AtTask(q, t)'
  BY <1>1, <1>3, <1>4, <1>11 DEF AtTask
<1>15. Task(w)' = t
  BY <1>3, <1>4, <1>11, <1>12 DEF Task, IInv, WorkerOK
<1>16. InTodo(q, Task(w))' /\ AtTask(q, Task(w))'
  BY <1>13, <1>14, <1>15
<1> QED BY <1>1, <1>2, <1>3, <1>8, <1>9, <1>11, <1>12, <1>16, WentOn

LEMMA LotSynced == ASSUME OnePass, IInv, Roots, NEW w \in Workers, MarkLotSynced(w) PROVE Roots'
<1>1. /\ worker[w].step = "landed" /\ kind[Task(w)] = "lot" /\ Advance(w)
      /\ local' = [local EXCEPT ![Task(w)].sync = "synced", ![Task(w)].seen = worker[w].read.version]
      /\ UNCHANGED <<kind, server, page, entry, moves, saw>>
  BY DEF MarkLotSynced, At
<1>2. PICK t \in Things : t = Task(w)
  BY <1>1, AtWork DEF IInv
<1>3. LotOK(t) /\ AtTask(worker[w], t)
  BY <1>1, <1>2 DEF Roots, LotsOK, PassOK, Task
<1>4. worker[w].read.version <= server[t].version
  BY <1>1, <1>3 DEF AtTask
<1>5. PICK row \in Locals : row = local[t]
  BY DEF IInv, LocalOK
<1>6. /\ local'[t].edit = row.edit /\ local'[t].seen = worker[w].read.version
      /\ local'[t].sync = "synced" /\ local'[t].other = row.other
  BY <1>1, <1>2, <1>5 DEF IInv, LocalOK, Locals
<1>7. LotOK(t)'
  BY <1>1, <1>3, <1>4, <1>5, <1>6 DEF LotOK
<1>8. \A u \in Things \ {t} : Untouched(u)
  BY <1>1, <1>2 DEF IInv, LocalOK, Untouched
<1>9. LotsOK'
  BY <1>1, <1>7, <1>8, UntouchedKeeps DEF Roots, LotsOK
<1> QED BY <1>1, <1>2, <1>8, <1>9, Advanced

LEMMA LotFails == ASSUME OnePass, IInv, Roots, NEW w \in Workers, LotFailed(w) PROVE Roots'
<1>1. /\ worker[w].step = "patched" /\ MarkLotError(w, worker[w].answer)
      /\ UNCHANGED <<kind, server, page, moves, saw>>
  BY DEF LotFailed, At
<1>2. Copy(w).force \/ Unsent(worker[w].held)
  BY <1>1, AtLot DEF AtTask
<1> QED BY <1>1, <1>2, LotMarked

LEMMA RootsStep ==
    ASSUME OnePass, IInv, IInv', Roots, [Next]_vars PROVE Roots'
<1>1. CASE UNCHANGED vars
  <2>1. UNCHANGED <<kind, worker>> /\ LotsAside
    BY <1>1 DEF vars, device, LotsAside, Untouched
  <2> QED BY <2>1, Bystanders
<1>2. ASSUME NEW t \in Things, OtherWrites(t) PROVE Roots'
  <2>1. CASE kind[t] = "lot"
    BY <1>2, <2>1, OthersWriteLot
  <2>2. CASE kind[t] # "lot"
    <3>1. UNCHANGED <<kind, worker>> /\ LotsAside
      BY <1>2, <2>2 DEF OtherWrites, device, LotsAside, Untouched, IInv, RestOK
    <3> QED BY <3>1, Bystanders
  <2> QED BY <2>1, <2>2
<1>3. ASSUME NEW t \in Things, User(t) PROVE Roots'
  <2>1. CASE kind[t] = "lot"
    <3>1. ~TickItem(t) /\ ~RefreshItem(t)
      BY <2>1 DEF TickItem, RefreshItem
    <3> QED BY <1>3, <2>1, <3>1, LotOpened, LotReopened, LotSaved, MineKept, TheirsTaken, LotRetried
            DEF User
  <2>2. CASE kind[t] # "lot"
    <3>1. UNCHANGED <<kind, worker>> /\ LotsAside
      BY <1>3, <2>2, UserLeaves DEF LotsAside
    <3> QED BY <3>1, Bystanders
  <2> QED BY <2>1, <2>2
<1>4. ASSUME NEW w \in Workers, Work(w) \/ Close(w) PROVE Roots'
  BY <1>4, PassBegins, PassVisits, PassCloses, TickRoots, LotDropped, LotFetched, LotChecked,
     LotPatched, LotLands, LotSynced, LotFails DEF Work
<1> QED BY <1>1, <1>2, <1>3, <1>4 DEF Next

LEMMA RootsInit == ASSUME Init PROVE Roots
<1>1. ASSUME NEW t \in Things PROVE LotOK(t)
  BY Numbers DEF Init, LotOK, NoRow, NoLocal, NoPage, Eager, Queued
<1>2. PassOK(Idle)
  BY DEF PassOK, Idle
<1> QED BY <1>1, <1>2 DEF Roots, LotsOK, Init

\* Where one pass runs at a time, as the browser's lock sees to, no unforced lot edit
\* goes over a version of another user's that the device could tell from the one
\* its user saw (detectLotSyncConflict), after any edits, refusals, lost answers,
\* resolutions and restarts.
THEOREM ForeignVersionsSurface == OnePass => (Spec => []KnownConflictsSurface)
<1> SUFFICES ASSUME OnePass PROVE Spec => []KnownConflictsSurface
  OBVIOUS
<1>1. Init => IInv /\ Roots
  BY InitIInv, RootsInit
<1>2. IInv /\ Roots /\ [Next]_vars => (IInv /\ Roots)'
  BY StepIInv, RootsStep
<1>3. IInv /\ Roots => KnownConflictsSurface
  BY RootsAsk
<1> QED BY <1>1, <1>2, <1>3, PTL DEF Spec

=============================================================================
