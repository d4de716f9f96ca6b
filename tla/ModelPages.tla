----------------------------- MODULE ModelPages -----------------------------
(***************************************************************************)
(* The model pages of the dashboard: the list (pages/Models.tsx with the   *)
(* polling hook hooks/useModels.ts), the page of one model                 *)
(* (pages/ModelDetail.tsx), the buttons of a model                         *)
(* (components/ModelActions.tsx) and the form that registers or edits one  *)
(* (components/ModelForm.tsx).  Each action is one turn of the browser's   *)
(* event loop.  Requests are in flight until their answer is handed to the *)
(* code that waits for it, in any order, and an answer tells what the      *)
(* server knew when it was made.  A component that is gone keeps its       *)
(* callbacks but no state.  The server is as its API describes it.         *)
(***************************************************************************)
EXTENDS Naturals, FiniteSets

CONSTANTS
  Ids,        \* model ids
  Values,     \* what the settings of a model may be, path and name included
  Empty,      \* the settings of an empty form
  Gone, Loading, Idle, New, NoAnswer,
  Filters,    \* the filters of the list
  FirstModels,\* what may be registered at first
  FirstPages, \* the pages the tab may be opened on
  OutsideStates, \* states a model turns into without this tab
  MaxFlight,  \* bound: requests in flight
  MaxMoves,   \* bound: steps of the user
  MaxChanges  \* bound: outages, and changes by others

\* A model as the API gives it: its settings and its live state.  An unload is
\* one step of the server, so none is "stopping".
States == {"stopped", "starting", "running", "failed"}
Model  == [conf: Values, state: States]

ASSUME PagesAssumption ==
    /\ {"list", "away"} \cap Ids = {}
    /\ Empty \notin Values
    /\ FirstModels \subseteq {Gone} \cup Model
    /\ Filters \subseteq {"all", "running", "stopped", "failed"}
    /\ FirstPages \subseteq Ids \cup {"list", "away"}
    /\ OutsideStates \subseteq States
    /\ New \notin Ids
    /\ MaxFlight \in Nat \ {0} /\ MaxMoves \in Nat /\ MaxChanges \in Nat
    /\ Gone \notin Model

VARIABLES
  db, up,          \* the server: its models, and whether it can be reached
  page,            \* list, away, or the id of the model whose page is shown
  view, error,     \* what that page shows: its last good answer, a failure
  timer,           \* the timeout of the list's loop, the interval of a page
  refreshing,      \* the refresh button of the list
  filter,          \* the filter of the list
  rows,            \* per model: the state of its ModelActions
  form,            \* the ModelForm of the page
  typed,           \* what the user typed since the form was opened
  flight,          \* requests whose answer is awaited
  moves, changes   \* steps of the user, and of the world, so far

server  == <<db, up>>
shown   == <<view, error, filter, rows, form, flight>>
vars    == <<server, page, shown, timer, refreshing, typed, moves, changes>>

Moved   == moves < MaxMoves /\ moves' = moves + 1 /\ UNCHANGED changes
Changed == changes < MaxChanges /\ changes' = changes + 1 /\ UNCHANGED moves

------------------------------------------------------------------------------
\* What is on the screen.

Matches(model, f) == f = "all" \/ model.state = f

\* The models whose ModelActions are mounted when a page shows v, an error e
\* and a filter f: the rows of the filtered list, or the model of the page,
\* which gives way to an error.
Mounted(p, v, e, f) ==
    IF p = "away" \/ v = Loading THEN {}
    ELSE IF p = "list" THEN {id \in Ids : v[id] # Gone /\ Matches(v[id], f)}
    ELSE IF e THEN {} ELSE {p}

Here    == Mounted(page, view, error, filter)
Row(id) == IF page = "list" THEN view[id] ELSE view

\* The form is part of the list page, and of a model's page while that shows
\* its model.
HasForm(v, e) == page = "list" \/ (page \in Ids /\ v # Loading /\ ~e)
FormOpen == form.open /\ HasForm(view, error)

IdleRow    == [busy |-> Idle, confirm |-> FALSE]
ClosedForm == [open |-> FALSE, target |-> New, base |-> Empty,
               draft |-> Empty, busy |-> FALSE, loadNow |-> FALSE]

\* A dialog is open, and keeps the rest of the page out of reach.
Modal == form.open \/ \E id \in Here : rows[id].confirm

\* Mutant: the effect runs for another model only, and not when it is the same
\* that is opened again.
FilledOnce(f, target, base) ==
    IF f.target = target THEN [f EXCEPT !.open = TRUE]
    ELSE [f EXCEPT !.open = TRUE, !.target = target, !.base = base, !.draft = base]

\* ModelForm's effect on [open, model]: the fields are set from the model, or
\* emptied for a new one.
Filled(f, target, base) ==
    [f EXCEPT !.open = TRUE, !.target = target, !.base = base, !.draft = base,
              !.loadNow = IF target = New THEN FALSE ELSE @]

\* The page renders with view v, error e and filter f after its row states
\* became rs, its form fm and the requests in flight fl.  A row that leaves the
\* screen loses its state, and whoever waits for its request finds it gone.
\* On a model's page the form gets the model anew: with a fresh answer, or
\* when it comes back after an error, an open form is filled again.
Renders(v, e, f, rs, fm, fl, fresh) ==
    LET now  == Mounted(page, v, e, f)
        lost(r) == \/ r.by = "row"  /\ r.id \notin now
                   \/ r.by = "form" /\ ~HasForm(v, e)
        back == page \in Ids /\ HasForm(v, e) /\ ~HasForm(view, error)
    IN  /\ view' = v /\ error' = e /\ filter' = f
        /\ rows' = [id \in Ids |-> IF id \in now \cap Here THEN rs[id] ELSE IdleRow]
        /\ flight' = {IF lost(r) THEN [r EXCEPT !.held = FALSE] ELSE r : r \in fl}
        /\ form' = LET kept == IF HasForm(v, e) THEN fm ELSE [fm EXCEPT !.busy = FALSE] IN
                   IF page \in Ids /\ kept.open /\ HasForm(v, e) /\ (fresh \/ back)
                   THEN Filled(kept, page, v.conf) ELSE kept

------------------------------------------------------------------------------
\* Requests.

\* Who waits: the list's loop, its refresh button, a refresh nobody waits for,
\* a row or the form.
Request(fl, kind, by, id, conf, now) ==
    [kind |-> kind, by |-> by, id |-> id, conf |-> conf, loadNow |-> now,
     home |-> TRUE,   \* the page that asked is still there
     held |-> TRUE,   \* so is the row or the form
     phase |-> "sent", ok |-> FALSE, answer |-> NoAnswer,
     n |-> CHOOSE n \in 1..MaxFlight : \A r \in fl : r.n # n]

HasRoom(fl) == Cardinality(fl) < MaxFlight

\* Ask for what the page shows: refresh, or load on a model's page.
Ask(fl, by) ==
    fl \cup {Request(fl, IF page = "list" THEN "list" ELSE "get", by,
                     IF page = "list" THEN New ELSE page, Empty, FALSE)}

Answers(r, ok, answer) ==
    flight' = (flight \ {r}) \cup {[r EXCEPT !.phase = "answered", !.ok = ok, !.answer = answer]}

\* The server takes a request.  A load or a restart works on it for a while.
Serve(r) ==
    /\ r.phase = "sent"
    /\ \/ ~up /\ Answers(r, FALSE, NoAnswer) /\ UNCHANGED db
       \/ /\ up /\ r.kind = "list"
          /\ Answers(r, TRUE, db) /\ UNCHANGED db
       \/ /\ up /\ r.kind = "get"
          /\ Answers(r, db[r.id] # Gone, db[r.id]) /\ UNCHANGED db
       \/ /\ up /\ r.kind \notin {"list", "get"}   \* a refusal
          /\ Answers(r, FALSE, NoAnswer) /\ UNCHANGED db
       \/ /\ up /\ r.kind = "create"
          /\ \E id \in Ids : LET m == [conf |-> r.conf, state |-> "stopped"] IN
               /\ db[id] = Gone
               /\ db' = [db EXCEPT ![id] = m]
               /\ flight' = (flight \ {r}) \cup
                    {[r EXCEPT !.phase = "answered", !.ok = TRUE, !.answer = m, !.id = id]}
       \/ /\ up /\ r.kind = "update" /\ db[r.id] # Gone
          /\ LET m == [db[r.id] EXCEPT !.conf = r.conf] IN
             db' = [db EXCEPT ![r.id] = m] /\ Answers(r, TRUE, m)
       \/ /\ up /\ r.kind = "unload" /\ db[r.id] # Gone
          /\ LET m == [db[r.id] EXCEPT !.state = "stopped"] IN
             db' = [db EXCEPT ![r.id] = m] /\ Answers(r, TRUE, m)
       \/ /\ up /\ r.kind = "delete" /\ db[r.id] # Gone
          /\ db' = [db EXCEPT ![r.id] = Gone] /\ Answers(r, TRUE, NoAnswer)
       \/ /\ up /\ r.kind \in {"load", "restart"} /\ db[r.id] # Gone
          /\ db' = [db EXCEPT ![r.id].state = "starting"]
          /\ flight' = (flight \ {r}) \cup {[r EXCEPT !.phase = "working"]}
    /\ UNCHANGED <<up, page, view, error, filter, rows, form, timer, refreshing, typed, moves, changes>>

Finish(r) ==
    /\ r.phase = "working"
    /\ \/ /\ db[r.id] # Gone
          /\ \E s \in {"running", "failed"} :
               LET m == [db[r.id] EXCEPT !.state = s] IN
               db' = [db EXCEPT ![r.id] = m] /\ Answers(r, up /\ s = "running", m)
       \/ db[r.id] = Gone /\ Answers(r, FALSE, NoAnswer) /\ UNCHANGED db
    /\ UNCHANGED <<up, page, view, error, filter, rows, form, timer, refreshing, typed, moves, changes>>

------------------------------------------------------------------------------
\* Polling.

\* Pages are opened with an empty view.  The list's loop starts with a request
\* and has its timeout between two of them; a model's page has an interval.
\* The requests of the page that is left find nobody.
FirstRequest(fl, p) ==
    IF p = "away" THEN {}
    ELSE IF p = "list" THEN {Request(fl, "list", "loop", New, Empty, FALSE)}
    ELSE {Request(fl, "get", "nobody", p, Empty, FALSE)}

Goes(p) ==
    LET fl == {[r EXCEPT !.home = FALSE, !.held = FALSE] : r \in flight} IN
    /\ p # page
    /\ p = "away" \/ HasRoom(flight)
    /\ page' = p
    /\ view' = Loading /\ error' = FALSE /\ filter' = "all"
    /\ rows' = [id \in Ids |-> IdleRow]
    /\ form' = ClosedForm /\ typed' = Empty
    /\ refreshing' = FALSE
    /\ timer' = (p \in Ids)
    /\ flight' = fl \cup FirstRequest(fl, p)

Navigate(p) == Moved /\ Goes(p) /\ UNCHANGED server

\* The timeout of the loop, or a tick of the interval, which waits for nobody.
Tick ==
    /\ timer /\ HasRoom(flight)
    /\ timer' = (page # "list")
    /\ flight' = Ask(flight, IF page = "list" THEN "loop" ELSE "nobody")
    /\ UNCHANGED <<server, page, view, error, filter, rows, form, refreshing, typed, moves, changes>>

\* Mutant: the button runs the loop once more.
RefreshByLoop ==
    /\ Moved /\ page = "list" /\ ~refreshing /\ ~Modal /\ HasRoom(flight)
    /\ refreshing' = FALSE
    /\ flight' = Ask(flight, "loop")
    /\ UNCHANGED <<server, page, view, error, filter, rows, form, timer, typed>>

\* handleRefresh.
Refresh ==
    /\ Moved /\ page = "list" /\ ~refreshing /\ ~Modal /\ HasRoom(flight)
    /\ refreshing' = TRUE
    /\ flight' = Ask(flight, "button")
    /\ UNCHANGED <<server, page, view, error, filter, rows, form, timer, typed>>

\* Mutant: a failed poll is the last one.
RearmsIfOk(r) == r.by = "loop" /\ r.home /\ r.ok

\* The loop goes on while its page is there.
Rearms(r) == r.by = "loop" /\ r.home

\* Mutant: a failed refresh skips the release of the button.
FreesIfOk(r) == r.by = "button" /\ r.home /\ r.ok

\* The finally of handleRefresh.
Frees(r) == r.by = "button" /\ r.home

\* The answer of refresh or load: a failure leaves the old view.
Refreshed(r) ==
    /\ r.phase = "answered" /\ r.kind \in {"list", "get"}
    /\ IF ~r.home THEN flight' = flight \ {r} /\ UNCHANGED <<view, error, filter, rows, form>>
       ELSE Renders(IF r.ok THEN r.answer ELSE view, ~r.ok, filter, rows, form,
                    flight \ {r}, r.ok)
    /\ timer' = (timer \/ Rearms(r))
    /\ refreshing' = (refreshing /\ ~Frees(r))
    /\ UNCHANGED <<server, page, typed, moves, changes>>

SetFilter(f) ==
    /\ Moved /\ page = "list" /\ ~Modal /\ f # filter
    /\ Renders(view, error, f, rows, form, flight, FALSE)
    /\ UNCHANGED <<server, page, timer, refreshing, typed>>

------------------------------------------------------------------------------
\* ModelActions.

CanLoad(id)   == Row(id).state \in {"stopped", "failed"}
CanUnload(id) == Row(id).state \in {"running", "failed", "starting"}

\* run: the row is busy until its request is answered.
Run(id, kind) ==
    /\ Moved /\ HasRoom(flight)
    /\ rows' = [rows EXCEPT ![id] = [busy |-> kind, confirm |-> FALSE]]
    /\ flight' = flight \cup {Request(flight, kind, "row", id, Empty, FALSE)}
    /\ UNCHANGED <<server, page, view, error, filter, form, timer, refreshing, typed>>

\* The first button loads or unloads, the menu restarts.
Load(id)    == ~Modal /\ rows[id].busy = Idle /\ CanLoad(id) /\ Run(id, "load")
Unload(id)  == ~Modal /\ rows[id].busy = Idle /\ ~CanLoad(id) /\ CanUnload(id) /\ Run(id, "unload")
Restart(id) == ~Modal /\ rows[id].busy = Idle /\ Run(id, "restart")

\* Deleting asks first; it does not wait for a busy row.
SetConfirm(id, open) ==
    /\ Moved /\ rows[id].confirm # open /\ (open => ~Modal)
    /\ rows' = [rows EXCEPT ![id].confirm = open]
    /\ UNCHANGED <<server, page, view, error, filter, form, flight, timer, refreshing, typed>>

Delete(id) == rows[id].confirm /\ Run(id, "delete")

\* The finally of run.
Released(r) == IF r.held THEN [rows EXCEPT ![r.id].busy = Idle] ELSE rows

\* run is answered: the list asks again; a model's page shows the model that
\* was returned or, without one, asks again.  Of a page that is left only a
\* request remains that nobody sees, which is left out.
RowAnswered(r) ==
    LET fl == flight \ {r}
        rs == Released(r)
    IN  /\ r.phase = "answered" /\ r.by = "row"
        /\ IF ~r.home THEN flight' = fl /\ UNCHANGED <<view, error, filter, rows, form>>
           ELSE IF page \in Ids /\ r.ok /\ r.kind # "delete"
           THEN Renders(r.answer, error, filter, rs, form, fl, TRUE)
           ELSE Renders(view, error, filter, rs, form, Ask(fl, "nobody"), FALSE)
        /\ UNCHANGED <<server, page, timer, refreshing, typed, moves, changes>>

------------------------------------------------------------------------------
\* ModelForm.

Opens(f) ==
    /\ Moved /\ ~Modal
    /\ form' = f
    /\ typed' = Empty
    /\ UNCHANGED <<server, page, view, error, filter, rows, flight, timer, refreshing>>

\* The list edits the model as its row had it, its page the model it shows.
OpenNew    == page = "list" /\ Opens(Filled(form, New, Empty))
OpenEdit(id) == Opens(Filled(form, id, Row(id).conf))

Type(v) ==
    /\ Moved /\ FormOpen /\ form.draft # v
    /\ form' = [form EXCEPT !.draft = v]
    /\ typed' = v
    /\ UNCHANGED <<server, page, view, error, filter, rows, flight, timer, refreshing>>

SwitchLoadNow ==
    /\ Moved /\ FormOpen /\ form.target = New
    /\ form' = [form EXCEPT !.loadNow = ~@]
    /\ UNCHANGED <<server, page, view, error, filter, rows, flight, timer, refreshing, typed>>

\* Cancel waits for a save, but the dialog can be dismissed at any time.
Dismiss ==
    /\ FormOpen
    /\ form' = [form EXCEPT !.open = FALSE]
    /\ UNCHANGED <<server, page, view, error, filter, rows, flight, timer, refreshing,
                   typed, moves, changes>>

\* submit.
Submit ==
    /\ Moved /\ FormOpen /\ ~form.busy /\ form.draft # Empty /\ HasRoom(flight)
    /\ form' = [form EXCEPT !.busy = TRUE]
    /\ flight' = flight \cup
         {IF form.target = New
          THEN Request(flight, "create", "form", New, form.draft, form.loadNow)
          ELSE Request(flight, "update", "form", form.target, form.draft, FALSE)}
    /\ UNCHANGED <<server, page, view, error, filter, rows, timer, refreshing, typed>>

\* submit is answered.  A new model may be loaded next, and a failure of that
\* is only told.  Then the page is told and the dialog closes, whatever it
\* shows by now; a refusal leaves it open.
FormAnswered(r) ==
    LET fl   == flight \ {r}
        done == r.ok \/ r.kind = "load"
        fm   == [form EXCEPT !.open = @ /\ ~done, !.busy = @ /\ ~r.held]
    IN  /\ r.phase = "answered" /\ r.by = "form"
        /\ \/ /\ r.kind = "create" /\ r.ok /\ r.loadNow
              /\ flight' = fl \cup {[Request(fl, "load", "form", r.id, Empty, FALSE)
                                      EXCEPT !.home = r.home, !.held = r.held]}
              /\ UNCHANGED <<view, error, filter, rows, form>>
           \/ /\ ~(r.kind = "create" /\ r.ok /\ r.loadNow)
              /\ IF ~r.home THEN flight' = fl /\ UNCHANGED <<view, error, filter, rows, form>>
                 ELSE IF ~done THEN Renders(view, error, filter, rows, fm, fl, FALSE)
                 ELSE IF page = "list"
                 THEN Renders(view, error, filter, rows, fm, Ask(fl, "nobody"), FALSE)
                 ELSE Renders(r.answer, error, filter, rows, fm, fl, TRUE)
        /\ UNCHANGED <<server, page, timer, refreshing, typed, moves, changes>>

------------------------------------------------------------------------------
\* The rest of the world: outages, and what others and the models do.

Outage ==
    /\ Changed /\ up' = ~up
    /\ UNCHANGED <<db, page, shown, timer, refreshing, typed>>

ModelMoves(id) ==
    /\ Changed
    /\ \/ db[id] # Gone /\ db' = [db EXCEPT ![id] = Gone]
       \/ db[id] # Gone /\ \E s \in OutsideStates : db' = [db EXCEPT ![id].state = s]
       \/ \E v \in Values :
            db' = [db EXCEPT ![id] = IF @ = Gone THEN [conf |-> v, state |-> "stopped"]
                                    ELSE [@ EXCEPT !.conf = v]]
    /\ UNCHANGED <<up, page, shown, timer, refreshing, typed>>

Init ==
    /\ db \in [Ids -> FirstModels]
    /\ up \in BOOLEAN
    /\ page \in FirstPages /\ view = Loading /\ error = FALSE
    /\ timer = (page \in Ids) /\ refreshing = FALSE /\ filter = "all"
    /\ rows = [id \in Ids |-> IdleRow]
    /\ form = ClosedForm /\ typed = Empty
    /\ flight = FirstRequest({}, page) /\ moves = 0 /\ changes = 0

Deliver(r) == Refreshed(r) \/ RowAnswered(r) \/ FormAnswered(r)

User ==
    \/ \E p \in Ids \cup {"list", "away"} : Navigate(p)
    \/ Refresh
    \/ \E f \in Filters : SetFilter(f)
    \/ \E id \in Here : \/ Load(id) \/ Unload(id) \/ Restart(id) \/ Delete(id)
                        \/ \E open \in BOOLEAN : SetConfirm(id, open)
                        \/ OpenEdit(id)
    \/ OpenNew
    \/ \E v \in Values : Type(v)
    \/ SwitchLoadNow
    \/ Dismiss
    \/ Submit

Next ==
    \/ User
    \/ Tick
    \/ \E r \in flight : Serve(r) \/ Finish(r) \/ Deliver(r)
    \/ Outage
    \/ \E id \in Ids : ModelMoves(id)

Spec == Init /\ [][Next]_vars

\* Timers fire, the server answers, perhaps with a failure, and the browser
\* hands answers over: one that is there is not overtaken for ever.
At(n) == {r \in flight : r.n = n}

Fairness ==
    /\ WF_vars(Tick)
    /\ \A n \in 1..MaxFlight :
         /\ WF_vars(\E r \in At(n) : Serve(r) \/ Finish(r))
         /\ WF_vars(\E r \in At(n) : Deliver(r))

LiveSpec == Spec /\ Fairness

------------------------------------------------------------------------------
\* Properties.

LoopCalls == {r \in flight : r.by = "loop" /\ r.home}

\* The list is polled by one loop: while its page is shown either its timeout
\* is armed or exactly one of its requests is awaited, and when it is left the
\* loop ends with it (useModels: alive, timer, and the calls of refresh beside
\* the loop by the button, the rows and the form).
OneLoop ==
    IF page = "list" /\ ~timer THEN \E r \in flight : LoopCalls = {r}
    ELSE LoopCalls = {}

\* The form shows what its user typed since it was opened, or the settings of
\* the model it was opened for.
KeepsEdits ==
    FormOpen => form.draft = IF typed = Empty THEN form.base ELSE typed

\* On the list page it does, whatever the polls answer and whatever was edited
\* before (Models.tsx: editing is a snapshot; ModelForm's effect).
FormKeepsEdits == page = "list" => KeepsEdits

ListCurrent == page = "list" /\ view = db /\ ~error
DetailCurrent(id) ==
    page = id /\ IF db[id] = Gone THEN error ELSE view = db[id] /\ ~error

\* Who stays on a page with a server that stays up ends up seeing what the
\* server has: after outages, failed polls, answers that overtook each other
\* and everything this and other users did.
PagesCatchUp ==
    /\ <>[](page = "list" /\ up) => <>[]ListCurrent
    /\ \A id \in Ids : <>[](page = id /\ up) => <>[]DetailCurrent(id)

\* No button stays busy: a row, the form and the refresh button are released
\* when their request is answered or its component is gone.
ButtonsComeBack ==
    /\ (refreshing ~> ~refreshing)
    /\ (form.busy ~> ~form.busy)
    /\ \A id \in Ids : (rows[id].busy # Idle ~> rows[id].busy = Idle)

------------------------------------------------------------------------------
\* What does not hold; TLC shows how.

\* Once the list shows what the server has, it does so until that changes: an
\* answer that was made earlier and arrives later takes it back.
ListStaysCurrent ==
    [][page = "list" /\ page' = "list" /\ view = db /\ db' = db => view' = view]_vars

\* A dialog is closed by its user or by its own save: the save of a dialog that
\* was dismissed closes the one that was opened since.
OwnSaveCloses ==
    [][FormOpen /\ ~form'.open /\ page' = page =>
         \/ Dismiss
         \/ \E r \in flight : /\ FormAnswered(r)
                              /\ IF form.target = New THEN r.kind \in {"create", "load"}
                                                     ELSE r.id = form.target]_vars

\* A row has one load, unload or restart at a time: deleting does not wait for
\* a busy row, and its answer, perhaps a refusal, releases it.
OneRunPerRow ==
    \A r, s \in flight :
      r.by = "row" /\ s.by = "row" /\ r.held /\ s.held /\ r.id = s.id
        /\ "delete" \notin {r.kind, s.kind} => r = s
=============================================================================
