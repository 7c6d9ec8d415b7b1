---------------------------- MODULE OfflineEdits ----------------------------
(***************************************************************************)
(* Changes that a device makes without a connection to what others change  *)
(* too: ticks of checklist items and edits of lots (frontend/src/lib,      *)
(* pages/lots).  A queued tick carries the completion that its user saw,   *)
(* and the server refuses it when that has moved on; a queued lot edit is  *)
(* compared on the device with what a GET returns, then sent without a     *)
(* condition.                                                              *)
(*                                                                         *)
(* A sync pass works through a copy of the queue, one request at a time,   *)
(* while the user goes on ticking, opening and saving, and other users     *)
(* write.  Without browser locks each tab has a pass of its own.           *)
(***************************************************************************)
EXTENDS Naturals, FiniteSets

CONSTANTS
    Things,            \* checklist items and lots
    Workers,           \* sync passes that may run at once
    MaxAttempts,       \* MAX_SYNC_ATTEMPTS
    MaxMoves,          \* bound: ticks, saves and resolutions of a thing
    MaxVersion,        \* bound: others write and users retry below this version
    MaxClosings,       \* bound: how often the app is closed during a pass
    Faults,            \* requests fail, are refused or go unanswered
    None

ASSUME ConstantsAssumption ==
    /\ MaxAttempts \in Nat \ {0} /\ MaxMoves \in Nat /\ MaxVersion \in Nat /\ MaxClosings \in Nat
    /\ Faults \in BOOLEAN
    /\ None \notin Things \cup Nat

VARIABLES
    kind,              \* whether a thing is a "tick" or a "lot"
    server,            \* the row on the server
    local,             \* the row on the device
    page,              \* the lot's edit page
    entry,             \* the queue entry of a thing
    moves,             \* the user's moves so far, which number edits and entries
    saw,               \* the version that each move was made from (for the properties only)
    closings,          \* how often the app was closed (for the bound only)
    worker             \* sync passes

device == <<local, page, entry, moves, saw, closings>>
vars == <<kind, server, device, worker>>

\* edit: the move of this device that it shows, 0 for somebody else's.
NoRow == [version |-> 0, edit |-> 0]
\* seen: serverCompletionBase or serverUpdatedAt (None: not set); other: the
\* version that a conflict was found with.
NoLocal == [edit |-> 0, sync |-> "synced", seen |-> 0, other |-> 0]
\* known: the page's serverUpdatedAt; shows: the version its form rests on.
NoPage == [open |-> FALSE, known |-> None, shows |-> 0]
Idle == [step |-> "idle", todo |-> {}, copies |-> [t \in Things |-> None], task |-> None,
         held |-> NoLocal, read |-> NoRow, answer |-> "none"]

Init ==
    /\ kind \in [Things -> {"tick", "lot"}]
    /\ server = [t \in Things |-> NoRow]
    /\ local = [t \in Things |-> NoLocal]
    /\ page = [t \in Things |-> NoPage]
    /\ entry = [t \in Things |-> None]
    /\ moves = [t \in Things |-> 0]
    /\ saw = [t \in Things |-> [m \in 1..MaxMoves |-> 0]]
    /\ closings = 0
    /\ worker = [w \in Workers |-> Idle]

Queued(t) == entry[t] # None
Dead(e) == e.attempts >= MaxAttempts

-----------------------------------------------------------------------------
(* The other users, and the user of this device. *)

OtherWrites(t) ==
    /\ server[t].version < MaxVersion
    /\ server' = [server EXCEPT ![t] = [version |-> @.version + 1, edit |-> 0]]
    /\ UNCHANGED <<kind, device, worker>>

Move(t, version) ==
    /\ moves[t] < MaxMoves
    /\ moves' = [moves EXCEPT ![t] = @ + 1]
    /\ saw' = [saw EXCEPT ![t][moves'[t]] = version]

New(t, force) ==
    [id |-> moves[t] + 1, edit |-> moves[t] + 1, base |-> local[t].seen,
     force |-> force, attempts |-> 0, terminal |-> FALSE]

\* enqueueItpCompletionSync: a queued tick is replaced in place, and keeps
\* its id and its terminal mark.
Enqueued(t) ==
    IF Queued(t)
    THEN [New(t, FALSE) EXCEPT !.id = entry[t].id, !.terminal = entry[t].terminal]
    ELSE New(t, FALSE)

TickItem(t) ==
    /\ kind[t] = "tick"
    /\ Move(t, local[t].seen)
    /\ entry' = [entry EXCEPT ![t] = Enqueued(t)]
    /\ local' = [local EXCEPT ![t].edit = moves'[t], ![t].sync = "pending"]
    /\ UNCHANGED <<kind, server, page, closings, worker>>

\* useItpInstance: the checklist is fetched, shown and cached.
RefreshItem(t) ==
    /\ kind[t] = "tick"
    /\ local' = [local EXCEPT ![t].edit = server[t].edit, ![t].seen = server[t].version]
    /\ UNCHANGED <<kind, server, page, entry, moves, saw, closings, worker>>

\* LotEditPage with a connection: what the server has replaces what the device
\* has, pending or not.
OpenLot(t) ==
    LET v == server[t].version IN
    /\ kind[t] = "lot"
    /\ local' = [local EXCEPT ![t] = [NoLocal EXCEPT !.edit = server[t].edit, !.seen = v]]
    /\ page' = [page EXCEPT ![t] = [open |-> TRUE, known |-> v, shows |-> v]]
    /\ UNCHANGED <<kind, server, entry, moves, saw, closings, worker>>

Rests(t) == IF local[t].edit = 0 THEN local[t].seen ELSE saw[t][local[t].edit]

\* LotEditPage without one: the unsynced edit is shown, and serverUpdatedAt is
\* not set.
ReopenLot(t) ==
    /\ kind[t] = "lot"
    /\ local[t].sync # "synced"
    /\ page' = [page EXCEPT ![t] = [open |-> TRUE, known |-> None, shows |-> Rests(t)]]
    /\ UNCHANGED <<kind, server, local, entry, moves, saw, closings, worker>>

\* saveLotEditOffline and queueLatestLotEditSync: a forced entry stands.
SaveLot(t) ==
    /\ page[t].open
    /\ Move(t, page[t].shows)
    /\ local' = [local EXCEPT ![t] = [NoLocal EXCEPT !.edit = moves'[t], !.sync = "pending",
                                         !.seen = page[t].known]]
    /\ page' = [page EXCEPT ![t] = NoPage]
    /\ entry' = [entry EXCEPT ![t] = IF Queued(t) /\ @.force THEN @ ELSE New(t, FALSE)]
    /\ UNCHANGED <<kind, server, closings, worker>>

\* resolveConflictWithLocal, resolveConflictWithMerge
KeepMine(t) ==
    /\ local[t].sync = "conflict"
    /\ Move(t, local[t].other)
    /\ local' = [local EXCEPT ![t].sync = "pending", ![t].edit = moves'[t]]
    /\ entry' = [entry EXCEPT ![t] = New(t, TRUE)]
    /\ UNCHANGED <<kind, server, page, closings, worker>>

\* resolveConflictWithServer
TakeTheirs(t) ==
    LET v == local[t].other IN
    /\ local[t].sync = "conflict"
    /\ local' = [local EXCEPT ![t] = [NoLocal EXCEPT !.seen = v]]
    /\ entry' = [entry EXCEPT ![t] = None]
    /\ UNCHANGED <<kind, server, page, moves, saw, closings, worker>>

\* resetFailedSyncItems
Retry(t) ==
    /\ Queued(t) /\ Dead(entry[t]) /\ ~entry[t].terminal
    /\ server[t].version < MaxVersion
    /\ entry' = [entry EXCEPT ![t].attempts = 0]
    /\ UNCHANGED <<kind, server, local, page, moves, saw, closings, worker>>

-----------------------------------------------------------------------------
(* The queue, as a pass changes it: by the id of the entry that it copied. *)

At(w, step) == worker[w].step = step
Task(w) == worker[w].task
Copy(w) == worker[w].copies[Task(w)]
Same(w) == Queued(Task(w)) /\ entry[Task(w)].id = Copy(w).id

Change(w, e) == entry' = IF Same(w) THEN [entry EXCEPT ![Task(w)] = e] ELSE entry

Removed(w) == Change(w, None)

\* markSyncItemError, markSyncItemTerminalError
WrongFailed(w) == UNCHANGED entry
Failed(w) == Change(w, [entry[Task(w)] EXCEPT !.attempts = IF Dead(entry[Task(w)]) THEN @ ELSE @ + 1])
Refused(w) == Change(w, [entry[Task(w)] EXCEPT !.attempts = MaxAttempts, !.terminal = TRUE])

Unsettled(w, answer) == IF answer = "refused" THEN Refused(w) ELSE Failed(w)

-----------------------------------------------------------------------------
(* A sync pass. *)

Answers == {"ok"} \cup IF Faults THEN {"error", "refused"} ELSE {}
Done(answer) == CASE answer = "ok" -> {TRUE}
                  [] answer = "error" -> BOOLEAN
                  [] OTHER -> {FALSE}

Goes(w, step, answer) == worker' = [worker EXCEPT ![w].step = step, ![w].answer = answer]

Pass(todo, copies) ==
    IF todo = {} THEN Idle ELSE [Idle EXCEPT !.step = "next", !.todo = todo, !.copies = copies]
Advance(w) == worker' = [worker EXCEPT ![w] = Pass(@.todo \ {@.task}, @.copies)]

Begin(w) ==
    LET live == {t \in Things : Queued(t) /\ ~Dead(entry[t])} IN
    /\ At(w, "idle")
    /\ live # {}
    /\ worker' = [worker EXCEPT ![w] = Pass(live, entry)]
    /\ UNCHANGED <<kind, server, device>>

Visit(w) ==
    /\ At(w, "next")
    /\ \E t \in worker[w].todo :
          worker' = [worker EXCEPT ![w].task = t, ![w].step = kind[t], ![w].held = local[t]]
    /\ UNCHANGED <<kind, server, device>>

\* The app is closed, or the device dies: the pass is gone.
Close(w) ==
    /\ ~At(w, "idle")
    /\ closings < MaxClosings
    /\ closings' = closings + 1
    /\ worker' = [worker EXCEPT ![w] = Idle]
    /\ UNCHANGED <<kind, server, local, page, entry, moves, saw>>

(* syncItpCompletion *)

\* GET /api/itp/instances/lot/:id; any failure is an attempt.
FetchItem(w) ==
    /\ At(w, "tick")
    /\ \/ /\ worker' = [worker EXCEPT ![w].step = "post", ![w].read = server[Task(w)]]
          /\ UNCHANGED entry
       \/ /\ Faults
          /\ Failed(w)
          /\ Advance(w)
    /\ UNCHANGED <<kind, server, local, page, moves, saw, closings>>

\* The base that goes with the tick, and assertExpectedPreviousItpCompletion.
WrongBase(w) == worker[w].read.version
Base(w) == Copy(w).base

\* POST /api/itp/completions
PostTick(w) ==
    LET t == Task(w)
        stale == Base(w) # server[t].version
    IN  /\ At(w, "post")
        /\ \E answer \in IF stale THEN {"stale"} \cup (Answers \ {"ok"}) ELSE Answers :
              /\ Goes(w, "posted", answer)
              /\ \E done \in Done(answer) :
                    server' = IF done /\ ~stale
                              THEN [server EXCEPT ![t] = [version |-> @.version + 1, edit |-> Copy(w).edit]]
                              ELSE server
        /\ UNCHANGED <<kind, device>>

TickLanded(w) ==
    /\ At(w, "posted") /\ worker[w].answer = "ok"
    /\ Removed(w)
    /\ Goes(w, "landed", "ok")
    /\ UNCHANGED <<kind, server, local, page, moves, saw, closings>>

\* markCompletionSynced: the cached base stays as it was.
MarkTickSynced(w) ==
    /\ At(w, "landed") /\ kind[Task(w)] = "tick"
    /\ local' = [local EXCEPT ![Task(w)].sync = "synced"]
    /\ Advance(w)
    /\ UNCHANGED <<kind, server, page, entry, moves, saw, closings>>

TickFailed(w) ==
    /\ At(w, "posted") /\ worker[w].answer = "error"
    /\ Failed(w)
    /\ Advance(w)
    /\ UNCHANGED <<kind, server, local, page, moves, saw, closings>>

\* reconcileItpCompletionFromServer: from what the GET returned.
Reconcile(w) ==
    LET row == worker[w].read IN
    /\ At(w, "posted") /\ worker[w].answer \in {"stale", "refused"}
    /\ local' = [local EXCEPT ![Task(w)] = [NoLocal EXCEPT !.edit = row.edit,
                                               !.seen = row.version]]
    /\ Goes(w, "reconciled", worker[w].answer)
    /\ UNCHANGED <<kind, server, page, entry, moves, saw, closings>>

\* Superseded: nothing is left to send.  Any other refusal is kept.
SettleTick(w) ==
    /\ At(w, "reconciled")
    /\ IF worker[w].answer = "stale" THEN Removed(w) ELSE Refused(w)
    /\ Advance(w)
    /\ UNCHANGED <<kind, server, local, page, moves, saw, closings>>

(* syncLotEdit *)

Unsent(row) == row.sync \in {"pending", "error"}

\* An entry whose lot is synced or in conflict is stale, unless it is forced.
DropStale(w) ==
    /\ At(w, "lot")
    /\ ~Copy(w).force /\ ~Unsent(worker[w].held)
    /\ Removed(w)
    /\ Advance(w)
    /\ UNCHANGED <<kind, server, local, page, moves, saw, closings>>

MarkLotError(w, answer) ==
    /\ Unsettled(w, answer)
    /\ local' = [local EXCEPT ![Task(w)].sync = "error"]
    /\ Advance(w)

\* GET /api/lots/:id
FetchLot(w) ==
    /\ At(w, "lot")
    /\ Copy(w).force \/ Unsent(worker[w].held)
    /\ \E answer \in Answers :
          IF answer = "ok"
          THEN /\ worker' = [worker EXCEPT ![w].step = "check", ![w].read = server[Task(w)]]
               /\ UNCHANGED <<local, entry>>
          ELSE MarkLotError(w, answer)
    /\ UNCHANGED <<kind, server, page, moves, saw, closings>>

\* detectLotSyncConflict: the device's row against the version that was read.
WrongStale(row, version) == row.sync = "pending" /\ row.seen # None /\ version > row.seen
Stale(row, version) == Unsent(row) /\ row.seen # None /\ version > row.seen

\* The row is compared as it is by now.
CheckLot(w) ==
    /\ At(w, "check")
    /\ IF ~Copy(w).force /\ Stale(local[Task(w)], worker[w].read.version)
       THEN /\ local' = [local EXCEPT ![Task(w)].sync = "conflict",
                                      ![Task(w)].other = worker[w].read.version]
            /\ Removed(w)
            /\ Advance(w)
       ELSE /\ Goes(w, "patch", "none")
            /\ UNCHANGED <<local, entry>>
    /\ UNCHANGED <<kind, server, page, moves, saw, closings>>

\* PATCH /api/lots/:id with the row as the pass first read it, unconditionally.
PatchLot(w) ==
    LET t == Task(w) IN
    /\ At(w, "patch")
    /\ \E answer \in Answers : \E done \in Done(answer) :
          /\ server' = IF done
                       THEN [server EXCEPT ![t] = [version |-> @.version + 1, edit |-> worker[w].held.edit]]
                       ELSE server
          /\ worker' = [worker EXCEPT ![w].step = "patched", ![w].answer = answer,
                                      ![w].read = server'[t]]
    /\ UNCHANGED <<kind, device>>

LotLanded(w) ==
    /\ At(w, "patched") /\ worker[w].answer = "ok"
    /\ Removed(w)
    /\ Goes(w, "landed", "ok")
    /\ UNCHANGED <<kind, server, local, page, moves, saw, closings>>

\* markLotSynced, whatever the row shows by now.
MarkLotSynced(w) ==
    /\ At(w, "landed") /\ kind[Task(w)] = "lot"
    /\ local' = [local EXCEPT ![Task(w)].sync = "synced", ![Task(w)].seen = worker[w].read.version]
    /\ Advance(w)
    /\ UNCHANGED <<kind, server, page, entry, moves, saw, closings>>

LotFailed(w) ==
    /\ At(w, "patched") /\ worker[w].answer # "ok"
    /\ MarkLotError(w, worker[w].answer)
    /\ UNCHANGED <<kind, server, page, moves, saw, closings>>

-----------------------------------------------------------------------------
User(t) ==
    \/ TickItem(t) \/ RefreshItem(t) \/ OpenLot(t) \/ ReopenLot(t) \/ SaveLot(t)
    \/ KeepMine(t) \/ TakeTheirs(t) \/ Retry(t)

Work(w) ==
    \/ Begin(w) \/ Visit(w)
    \/ FetchItem(w) \/ PostTick(w) \/ TickLanded(w) \/ MarkTickSynced(w)
    \/ TickFailed(w) \/ Reconcile(w) \/ SettleTick(w)
    \/ DropStale(w) \/ FetchLot(w) \/ CheckLot(w) \/ PatchLot(w)
    \/ LotLanded(w) \/ MarkLotSynced(w) \/ LotFailed(w)

Next == (\E t \in Things : OtherWrites(t) \/ User(t)) \/ (\E w \in Workers : Work(w) \/ Close(w))

Spec == Init /\ [][Next]_vars
FairSpec == Spec /\ \A w \in Workers : WF_vars(Work(w))

-----------------------------------------------------------------------------
(* Properties. *)

Locals == [edit : 0..MaxMoves, sync : {"synced", "pending", "error", "conflict"},
           seen : Nat \cup {None}, other : Nat]
Rows == [version : Nat, edit : 0..MaxMoves]
Entries == [id : 1..MaxMoves, edit : 1..MaxMoves, base : Nat \cup {None}, force : BOOLEAN,
            attempts : 0..MaxAttempts, terminal : BOOLEAN]
Steps == {"idle", "next", "tick", "post", "posted", "reconciled", "lot", "check",
          "patch", "patched", "landed"}

\* Each variable keeps its type; ticks are never forced nor in conflict, and
\* a lot's entry that the server refused has no attempt left.
TypeOK ==
    /\ kind \in [Things -> {"tick", "lot"}]
    /\ server \in [Things -> Rows]
    /\ local \in [Things -> Locals]
    /\ page \in [Things -> [open : BOOLEAN, known : Nat \cup {None}, shows : Nat]]
    /\ entry \in [Things -> Entries \cup {None}]
    /\ moves \in [Things -> 0..MaxMoves]
    /\ saw \in [Things -> [1..MaxMoves -> Nat]]
    /\ closings \in 0..MaxClosings
    /\ worker \in [Workers ->
            [step : Steps, todo : SUBSET Things, copies : [Things -> Entries \cup {None}],
             task : Things \cup {None}, held : Locals, read : Rows,
             answer : {"none", "ok", "error", "refused", "stale"}]]
    /\ \A t \in Things :
          /\ kind[t] = "tick" => local[t].sync # "conflict" /\ ~page[t].open
          /\ Queued(t) /\ kind[t] = "tick" => ~entry[t].force
          /\ Queued(t) /\ kind[t] = "lot" /\ entry[t].terminal => Dead(entry[t])

\* A tick that reaches the server replaces the completion that its user was
\* looking at when it was made: whatever the queue, retries and lost answers do
\* to it on the way, nobody's later work is overwritten.
TicksReplaceWhatWasSeen ==
    [][\A t \in Things : kind[t] = "tick" =>
          \A e \in 1..MaxMoves : server'[t] # server[t] /\ server'[t].edit = e =>
              saw[t][e] = server[t].version]_vars

\* A pass is about to send a lot edit over a version of another user's that
\* its own user never saw and was never asked about.
Blind(w) ==
    /\ At(w, "patch") /\ ~Copy(w).force
    /\ worker[w].held.edit # 0 /\ worker[w].read.edit = 0
    /\ saw[Task(w)][worker[w].held.edit] # worker[w].read.version

\* Where the device knows which version its lot edit was made from, a foreign
\* version that the GET returned becomes a conflict, after failed attempts as
\* well, unless the row changed while the pass was at it.
KnownConflictsSurface ==
    \A w \in Workers : Blind(w) =>
        worker[w].held.seen = None \/ local[Task(w)] # worker[w].held

\* No entry is retried for ever: it leaves the queue or uses up its attempts.
EditsSettle ==
    \A t \in Things : Queued(t) ~> ~Queued(t) \/ Dead(entry[t])

\* Not so: "Server has been updated since we cached - CONFLICT!" and "Another
\* user edited this lot while you were offline" (offlineDb.ts).  A second save
\* of the lot without a connection forgets which version was cached.
LotConflictsSurface ==
    \A w \in Workers : Blind(w) => local[Task(w)] # worker[w].held
=============================================================================
