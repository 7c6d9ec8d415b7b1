--------------------------- MODULE OfflineCapture ---------------------------
(***************************************************************************)
(* What a foreman captures without a connection (frontend/src/lib/offline) *)
(* : a row for the server, a defect's NCR or a diary's delivery, and the   *)
(* photo that is evidence for it.  Both wait in the queue of the device; a *)
(* sync pass posts the row under a key of its own, points the photo at the *)
(* row that the server made, uploads the photo and attaches it.            *)
(*                                                                         *)
(* A pass works through a copy of the queue while the user goes on         *)
(* capturing, retrying and removing.  Passes hold a browser lock; where    *)
(* the browser has none every tab runs its own, so Workers may be many.    *)
(* The app may be closed at any point, and an answer may be lost after the *)
(* server acted on the request.                                            *)
(***************************************************************************)
EXTENDS Naturals

CONSTANTS
    Captures,          \* each a row and its photo
    Workers,           \* sync passes that may run at once
    MaxAttempts,       \* MAX_SYNC_ATTEMPTS
    MaxClosings,       \* bound: how often the app is closed during a pass
    Faults             \* requests fail, are refused or go unanswered

ASSUME ConstantsAssumption ==
    /\ MaxAttempts \in Nat \ {0} /\ MaxClosings \in Nat
    /\ Faults \in BOOLEAN

VARIABLES
    kind,              \* what each capture is, "none" before it is made
    queue,             \* the entries of the sync queue
    ahead,             \* the entries whose keys are smaller than each entry's
    attempts,          \* attempts of each entry
    terminal,          \* entries that the server refused for good
    photo,             \* the photo on the device
    rows, documents,   \* what the server holds for each capture
    linked,            \* captures whose document is evidence of its row
    worker,            \* sync passes
    closings           \* how often the app was closed (for the bound only)

server == <<rows, documents, linked>>
vars == <<kind, queue, ahead, attempts, terminal, photo, server, worker, closings>>
entries == <<queue, ahead, attempts, terminal>>

Tasks == Captures \X {"row", "photo"}

\* filed: the photo's entityId is the server's ("row") or the device's
\* ("device"); document: serverDocumentId is known.
NoPhoto == [state |-> "none", filed |-> "device", document |-> FALSE]

NoTask == <<>>

\* A pass: the step it is at, the entries of its copy still to visit and the one
\* it works on, what it read of the photo and of the attempts, and the answer.
Idle == [step |-> "idle", todo |-> {}, task |-> NoTask, filed |-> "device", count |-> 0,
         answer |-> "none"]

Init ==
    /\ kind = [c \in Captures |-> "none"]
    /\ queue = {}
    /\ ahead = [t \in Tasks |-> {}]
    /\ attempts = [t \in Tasks |-> 0]
    /\ terminal = {}
    /\ photo = [c \in Captures |-> NoPhoto]
    /\ rows = [c \in Captures |-> 0]
    /\ documents = [c \in Captures |-> 0]
    /\ linked = {}
    /\ worker = [w \in Workers |-> Idle]
    /\ closings = 0

Queued(t) == t \in queue
Stored(c) == photo[c].state \in {"pending", "error", "synced"}
Dead(t) == attempts[t] >= MaxAttempts

\* The queue's keys grow.  No entry is queued twice: nothing is captured twice.
Made == {t \in Tasks : IF t[2] = "row" THEN kind[t[1]] # "none" ELSE photo[t[1]].state # "none"}
Enqueue(t) ==
    /\ queue' = queue \cup {t}
    /\ ahead' = [ahead EXCEPT ![t] = Made]
Oldest(ts) == {t \in ts : ahead[t] \cap ts = {}}

-----------------------------------------------------------------------------
(* The user. *)

\* The row is queued first, the photo when it has been compressed; it is filed
\* under the device's id of the row, whatever became of the row meanwhile.  A
\* docket may also be photographed for a delivery that the server lists.
CaptureRow(c) ==
    /\ kind[c] = "none"
    /\ \E k \in {"ncr", "delivery"} : kind' = [kind EXCEPT ![c] = k]
    /\ Enqueue(<<c, "row">>)
    /\ UNCHANGED <<attempts, terminal, photo, server, worker, closings>>

CapturePhoto(c) ==
    /\ kind[c] # "none"
    /\ photo[c] = NoPhoto
    /\ \E filed \in {"device"} \cup IF kind[c] = "delivery" /\ rows[c] > 0 THEN {"row"} ELSE {} :
          photo' = [photo EXCEPT ![c].state = "pending", ![c].filed = filed]
    /\ Enqueue(<<c, "photo">>)
    /\ UNCHANGED <<attempts, terminal, server, worker, closings, kind>>

\* resetFailedSyncItems
WrongRevivable(t) == Dead(t)
Revivable(t) == Dead(t) /\ t \notin terminal

Retry ==
    /\ \E t \in queue : Revivable(t)
    /\ attempts' = [t \in Tasks |->
            IF Queued(t) /\ Revivable(t) THEN 0 ELSE attempts[t]]
    /\ UNCHANGED <<queue, ahead, terminal, photo, server, worker, closings, kind>>

\* deleteOfflinePhoto: offered for dockets; the queue entry stays.
RemovePhoto(c) ==
    /\ kind[c] = "delivery"
    /\ photo[c].state \in {"pending", "error"}
    /\ photo' = [photo EXCEPT ![c].state = "removed"]
    /\ UNCHANGED <<entries, server, worker, closings, kind>>

-----------------------------------------------------------------------------
(* The queue, as a pass changes it. *)

\* markSyncItemTerminalError
Refused(t) ==
    /\ UNCHANGED <<queue, ahead>>
    /\ attempts' = IF Queued(t) THEN [attempts EXCEPT ![t] = MaxAttempts] ELSE attempts
    /\ terminal' = IF Queued(t) THEN terminal \cup {t} ELSE terminal

\* removeSyncQueueItem
Removed(t) ==
    /\ queue' = queue \ {t}
    /\ UNCHANGED ahead
    /\ attempts' = [attempts EXCEPT ![t] = 0]
    /\ terminal' = terminal \ {t}

-----------------------------------------------------------------------------
(* A sync pass. *)

At(w, step) == worker[w].step = step
Task(w) == worker[w].task
Capture(w) == Task(w)[1]
Row(w) == Task(w)[2] = "row"

Goes(w, step, answer) ==
    worker' = [worker EXCEPT ![w].step = step, ![w].answer = answer]

\* On to the next entry of the copy.
Pass(w, todo) ==
    \/ todo = {} /\ worker' = [worker EXCEPT ![w] = Idle]
    \/ \E t \in Oldest(todo) :
          worker' = [worker EXCEPT ![w] = [Idle EXCEPT !.step = "visit", !.todo = todo, !.task = t]]
Advance(w) == Pass(w, worker[w].todo \ {Task(w)})

\* markSyncItemError: the attempts are read, and written one higher later.
ReadAttempts(w, step) ==
    worker' = [worker EXCEPT ![w].step = step, ![w].count = attempts[Task(w)],
                             ![w].answer = "none", ![w].filed = "device"]

\* syncPendingChanges: entries that have used up their attempts are skipped.
Begin(w) ==
    /\ At(w, "idle")
    /\ LET live == {t \in queue : ~Dead(t)}
       IN  live # {} /\ Pass(w, live)
    /\ UNCHANGED <<entries, photo, server, closings, kind>>

\* The server keeps one row for each request key, whoever asks first.
WrongKept(n) == n + 1
Kept(n) == 1

\* What comes back, and whether the server may have done it by then: an answer
\* can be lost on its way.
Answers == {"ok"} \cup IF Faults THEN {"error", "refused"} ELSE {}
Done(answer) == CASE answer = "ok" -> {TRUE}
                  [] answer = "error" -> BOOLEAN
                  [] answer = "refused" -> {FALSE}

\* POST /api/ncrs or /api/diary/:id/deliveries, with the device's id as key.
PostRow(w) ==
    /\ At(w, "visit") /\ Row(w)
    /\ \E answer \in Answers : Goes(w, "posted", answer) /\
          \E done \in Done(answer) :
             rows' = [rows EXCEPT ![Capture(w)] = IF done THEN Kept(@) ELSE @]
    /\ UNCHANGED <<entries, photo, documents, linked, closings, kind>>

\* relinkOfflinePhotoEntity: the photos that are on the device now.
RelinkPhoto(w) ==
    /\ At(w, "posted") /\ worker[w].answer = "ok"
    /\ photo' = [photo EXCEPT ![Capture(w)].filed = IF Stored(Capture(w)) THEN "row" ELSE @]
    /\ Goes(w, "relinked", "ok")
    /\ UNCHANGED <<entries, server, closings, kind>>

FinishRow(w) ==
    /\ At(w, "relinked")
    /\ Removed(Task(w))
    /\ Advance(w)
    /\ UNCHANGED <<photo, server, closings, kind>>

\* markSyncFailure: a refusal is final, a failure counts as an attempt.
Unsettled(w, step) ==
    IF worker[w].answer = "refused"
    THEN Refused(Task(w)) /\ Advance(w)
    ELSE ReadAttempts(w, step) /\ UNCHANGED entries

RowFailed(w) ==
    /\ At(w, "posted") /\ worker[w].answer # "ok"
    /\ Unsettled(w, "failing")
    /\ UNCHANGED <<photo, server, closings, kind>>

\* A photo that waits for its row makes no attempt.
WrongCounted(t, n) == IF n < MaxAttempts /\ photo[t[1]].filed = "row" THEN n + 1 ELSE n

Counted(t, n) == IF n < MaxAttempts THEN n + 1 ELSE n

MarkPhoto(c, state) == photo' = [photo EXCEPT ![c].state = IF Stored(c) THEN state ELSE @]

\* The entry is marked unless it is gone, then the photo of an upload that failed.
MarkFailed(w) ==
    LET t == Task(w) IN
    /\ worker[w].step \in {"failing", "unsent"}
    /\ attempts' = IF Queued(t) THEN [attempts EXCEPT ![t] = Counted(t, worker[w].count)]
                   ELSE attempts
    /\ IF At(w, "unsent") THEN MarkPhoto(Capture(w), "error") ELSE UNCHANGED photo
    /\ Advance(w)
    /\ UNCHANGED <<queue, ahead, terminal, server, closings, kind>>

-----------------------------------------------------------------------------
(* syncPhoto *)

PhotoGone(w) ==
    /\ At(w, "visit") /\ ~Row(w)
    /\ ~Stored(Capture(w))
    /\ Removed(Task(w))
    /\ Advance(w)
    /\ UNCHANGED <<photo, server, closings, kind>>

\* A docket is not uploaded before its delivery is known to the server.
WrongMustWait(c) == FALSE
MustWait(c) == kind[c] = "delivery" /\ photo[c].filed = "device"

WaitForRow(w) ==
    /\ At(w, "visit") /\ ~Row(w)
    /\ Stored(Capture(w)) /\ MustWait(Capture(w))
    /\ ReadAttempts(w, "failing")
    /\ UNCHANGED <<entries, photo, server, closings, kind>>

Ready(w) ==
    /\ At(w, "visit") /\ ~Row(w)
    /\ Stored(Capture(w)) /\ ~MustWait(Capture(w))

\* POST /api/documents/upload, with the photo's id as key
Upload(w) ==
    LET c == Capture(w) IN
    /\ Ready(w)
    /\ ~photo[c].document
    /\ \E answer \in Answers :
          /\ worker' = [worker EXCEPT ![w].step = "uploaded", ![w].filed = photo[c].filed,
                                      ![w].answer = answer]
          /\ \E done \in Done(answer) :
                documents' = [documents EXCEPT ![c] = IF done THEN Kept(@) ELSE @]
    /\ UNCHANGED <<entries, photo, rows, linked, closings, kind>>

\* A document that is already there is only attached.
SkipUpload(w) ==
    /\ Ready(w)
    /\ photo[Capture(w)].document
    /\ worker' = [worker EXCEPT ![w].step = "attach", ![w].filed = photo[Capture(w)].filed]
    /\ UNCHANGED <<entries, photo, server, closings, kind>>

\* markPhotoUploadedAwaitingAttach
RememberDocument(w) ==
    LET c == Capture(w) IN
    /\ At(w, "uploaded") /\ worker[w].answer = "ok"
    /\ photo' = IF Stored(c)
                THEN [photo EXCEPT ![c].document = TRUE, ![c].state = "pending"]
                ELSE photo
    /\ Goes(w, "attach", "none")
    /\ UNCHANGED <<entries, server, closings, kind>>

UploadFailed(w) ==
    /\ At(w, "uploaded") /\ worker[w].answer # "ok"
    /\ Unsettled(w, "unsent")
    /\ IF worker[w].answer = "refused" THEN MarkPhoto(Capture(w), "error") ELSE UNCHANGED photo
    /\ UNCHANGED <<server, closings, kind>>

\* POST /api/ncrs/:id/evidence or PATCH /api/deliveries/:id/evidence, to the
\* id in the pass's copy of the photo; the device's own id is answered 404.
Attach(w) ==
    LET known == worker[w].filed = "row" IN
    /\ At(w, "attach")
    /\ \E answer \in IF known THEN Answers ELSE {"error"} :
          /\ Goes(w, "attached", answer)
          /\ \E done \in Done(answer) :
                linked' = IF done /\ known THEN linked \cup {Capture(w)} ELSE linked
    /\ UNCHANGED <<entries, photo, rows, documents, closings, kind>>

WrongSettles(answer) == answer # "error"
Settles(answer) == answer = "ok"

FinishPhoto(w) ==
    /\ At(w, "attached") /\ Settles(worker[w].answer)
    /\ Removed(Task(w))
    /\ Goes(w, "finished", "none")
    /\ UNCHANGED <<photo, server, closings, kind>>

MarkPhotoSynced(w) ==
    /\ At(w, "finished")
    /\ MarkPhoto(Capture(w), "synced")
    /\ Advance(w)
    /\ UNCHANGED <<entries, server, closings, kind>>

\* keepPostUploadAttachQueued: whatever the refusal, it counts as an attempt.
KeepQueued(w) ==
    /\ At(w, "attached") /\ ~Settles(worker[w].answer)
    /\ ReadAttempts(w, "failing")
    /\ UNCHANGED <<entries, photo, server, closings, kind>>

\* The app is closed, or the device dies: the pass is gone.
Close(w) ==
    /\ ~At(w, "idle")
    /\ closings < MaxClosings
    /\ closings' = closings + 1
    /\ worker' = [worker EXCEPT ![w] = Idle]
    /\ UNCHANGED <<entries, photo, server, kind>>

-----------------------------------------------------------------------------
User == Retry \/ \E c \in Captures : CaptureRow(c) \/ CapturePhoto(c) \/ RemovePhoto(c)

Answered(w) ==
    \/ RelinkPhoto(w) \/ FinishRow(w) \/ RowFailed(w)
    \/ RememberDocument(w) \/ UploadFailed(w)
    \/ FinishPhoto(w) \/ MarkPhotoSynced(w) \/ KeepQueued(w) \/ MarkFailed(w)

Asks(w) ==
    \/ PostRow(w) \/ PhotoGone(w) \/ WaitForRow(w)
    \/ Upload(w) \/ SkipUpload(w) \/ Attach(w)

Next == User \/ \E w \in Workers : Begin(w) \/ Asks(w) \/ Answered(w) \/ Close(w)

Spec == Init /\ [][Next]_vars

\* A pass starts on every reconnection, minute and visit to the app, and goes
\* on to its end while the app is open.
Fairness == \A w \in Workers : WF_vars(Begin(w) \/ Asks(w) \/ Answered(w))

FairSpec == Spec /\ Fairness

-----------------------------------------------------------------------------
(* Properties. *)

Photos == [state : {"none", "pending", "error", "synced", "removed"},
           filed : {"device", "row"}, document : BOOLEAN]

SyncPass == [step : {"idle", "visit", "posted", "relinked", "uploaded", "attach", "attached",
                  "finished", "failing", "unsent"},
          todo : SUBSET Tasks, task : Tasks \cup {NoTask}, filed : {"device", "row"},
          count : 0..MaxAttempts, answer : {"none", "ok", "error", "refused"}]

\* Each variable keeps its type, and refused entries are in the queue.
TypeOK ==
    /\ kind \in [Captures -> {"none", "ncr", "delivery"}]
    /\ queue \subseteq Tasks /\ ahead \in [Tasks -> SUBSET Tasks]
    /\ attempts \in [Tasks -> 0..MaxAttempts]
    /\ terminal \subseteq queue
    /\ photo \in [Captures -> Photos]
    /\ rows \in [Captures -> Nat] /\ documents \in [Captures -> Nat]
    /\ linked \subseteq Captures
    /\ worker \in [Workers -> SyncPass]
    /\ \A w \in Workers : ~At(w, "idle") => Task(w) \in worker[w].todo
    /\ closings \in 0..MaxClosings

\* A capture is one NCR or delivery and one document on the server, however
\* often its requests are repeated and by however many passes.
CapturedOnce ==
    \A c \in Captures : rows[c] <= 1 /\ documents[c] <= 1

\* Nothing leaves the queue before the server has it: the row when it is in
\* the register, the photo when it is evidence of that row (a Document alone is
\* not) or the user took it away; and a photo is not shown as synced before.
NothingVanishes ==
    \A c \in Captures :
        /\ kind[c] # "none" /\ ~Queued(<<c, "row">>) => rows[c] > 0
        /\ photo[c].state \in {"pending", "error"} =>
              Queued(<<c, "photo">>) \/ c \in linked
        /\ photo[c].state = "synced" => c \in linked

\* No docket's file reaches the server before the delivery that it belongs to.
DocketsFollowDeliveries ==
    \A c \in Captures : kind[c] = "delivery" /\ documents[c] > 0 => rows[c] > 0

\* Whatever the server refused for good is not offered to it again: neither Retry
\* nor another pass revives it, except one of another tab that is about to mark
\* the entry and read its attempts before the refusal was marked.
Overtaken(t) ==
    \E w \in Workers : worker[w].step \in {"failing", "unsent"} /\ Task(w) = t
RefusalsStand ==
    [][\A t \in Tasks : t \in terminal /\ Queued(t)' =>
          t \in terminal' /\ (Dead(t) => Dead(t)' \/ Overtaken(t))]_vars

\* Everything captured comes to rest: it reaches the server, or it is put
\* before the user as failed (it uses up its attempts), or is taken away.  No
\* entry is retried for ever, not even one that waits for a row.
CapturesSettle ==
    \A c \in Captures :
        /\ Queued(<<c, "row">>) ~> ~Queued(<<c, "row">>) \/ Dead(<<c, "row">>)
        /\ Queued(<<c, "photo">>) ~> ~Queued(<<c, "photo">>) \/ Dead(<<c, "photo">>)

\* Not so: "if the order is ever reversed, the photo's attach step simply 404s
\* and retries after this relink (eventual consistency)" (syncWorker.ts).  A
\* photo stored after its row was finished keeps the device's id for ever.
PhotosFindTheirRow ==
    \A c \in Captures : photo[c].state = "pending" /\ ~Queued(<<c, "row">>) =>
        photo[c].filed = "row"
=============================================================================
