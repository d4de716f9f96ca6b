--------------------------- MODULE ModelPagesProofs ---------------------------
(***************************************************************************)
(* Safety of ModelPages for any models, settings, filters and bounds: the  *)
(* list is polled by exactly one loop, and its form keeps what was typed.  *)
(***************************************************************************)
EXTENDS ModelPages, TLAPS

-------------------------------------------------------------------------------
(* Requests in flight                                                      *)

Fields == {"kind", "by", "id", "conf", "loadNow", "home", "held", "phase", "ok", "answer", "n"}

IsRequest(r) == DOMAIN r = Fields /\ r.home \in BOOLEAN

\* A call of the loop of a page that is still there.
InLoop(r) == r.by = "loop" /\ r.home

Unique(fl) == \E r \in fl : InLoop(r) /\ \A s \in fl : InLoop(s) => s = r
Absent(fl) == \A r \in fl : ~InLoop(r)

\* After fl came gl, with as many calls of the loop.
Alike(fl, gl) ==
  /\ \A r \in gl : IsRequest(r)
  /\ Unique(fl) => Unique(gl)
  /\ Absent(fl) => Absent(gl)

\* OneLoop, request by request.
LEMMA OneLoopIs ==
  OneLoop <=> IF page = "list" /\ ~timer THEN Unique(flight) ELSE Absent(flight)
<1>1. (\E r \in flight : LoopCalls = {r}) <=> Unique(flight)
  BY DEF LoopCalls, Unique, InLoop
<1>2. LoopCalls = {} <=> Absent(flight)
  BY DEF LoopCalls, Absent, InLoop
<1>3. QED
  BY <1>1, <1>2 DEF OneLoop

\* Nobody is asked.
LEMMA AlikeSame ==
  ASSUME NEW fl, \A r \in fl : IsRequest(r)
  PROVE  Alike(fl, fl)
BY DEF Alike

\* Somebody other than the loop asks.
LEMMA AlikeMore ==
  ASSUME NEW fl, NEW gl, NEW q, Alike(fl, gl), IsRequest(q), ~InLoop(q)
  PROVE  Alike(fl, gl \cup {q})
BY DEF Alike, Unique, Absent

\* An answer that is not the loop's is handed over.
LEMMA AlikeLess ==
  ASSUME NEW fl, NEW r \in fl, \A s \in fl : IsRequest(s), ~InLoop(r)
  PROVE  Alike(fl, fl \ {r})
BY DEF Alike, Unique, Absent

\* A request comes to its next phase.
LEMMA AlikeMoved ==
  ASSUME NEW fl, NEW r \in fl, NEW q, \A s \in fl : IsRequest(s), IsRequest(q),
         InLoop(q) <=> InLoop(r)
  PROVE  Alike(fl, (fl \ {r}) \cup {q})
<1>1. CASE InLoop(r)
  <2>1. Unique(fl) => Unique((fl \ {r}) \cup {q})
    <3>1. SUFFICES ASSUME Unique(fl) PROVE \A s \in (fl \ {r}) \cup {q} : InLoop(s) => s = q
      BY <1>1 DEF Unique
    <3>2. \A s \in fl : InLoop(s) => s = r
      BY <1>1, <3>1 DEF Unique
    <3>3. QED
      BY <3>2
  <2>2. QED
    BY <1>1, <2>1 DEF Alike, Absent
<1>2. CASE ~InLoop(r)
  BY <1>2 DEF Alike, Unique, Absent
<1>3. QED
  BY <1>1, <1>2

\* A request that is served, or whose component is gone.
LEMMA Changing ==
  ASSUME NEW r, IsRequest(r), NEW q, DOMAIN q = DOMAIN r, q.by = r.by, q.home = r.home
  PROVE  IsRequest(q) /\ (InLoop(q) <=> InLoop(r))
BY DEF IsRequest, InLoop

-------------------------------------------------------------------------------
(* The invariant                                                           *)

FormFields == {"open", "target", "base", "draft", "busy", "loadNow"}

\* A form whose settings are known.
IsForm(f) == DOMAIN f = FormFields /\ f.open \in BOOLEAN

\* With the form f and t typed since it was opened, its user sees what he typed.
Keeps(f, t) == f.open => f.draft = IF t = Empty THEN f.base ELSE t

Shapes ==
  /\ page \in Ids \cup {"list", "away"} /\ timer \in BOOLEAN
  /\ \A r \in flight : IsRequest(r)
  /\ IsForm(form)

Polled == IF page = "list" /\ ~timer THEN Unique(flight) ELSE Absent(flight)

Edited == page = "list" => Keeps(form, typed)

PInv == Shapes /\ Polled /\ Edited

\* On the list page the form is there at any time.
LEMMA EditedIs == FormKeepsEdits <=> Edited
BY DEF FormKeepsEdits, KeepsEdits, FormOpen, HasForm, Edited, Keeps

\* What a step leaves of a form: its settings and, if it was, closed.
SameForm(f, g) ==
  /\ IsForm(g) /\ (g.open => f.open)
  /\ g.draft = f.draft /\ g.base = f.base

\* The steps that neither change the page nor poll.
Beside ==
  /\ page' = page /\ timer' = timer /\ typed' = typed
  /\ Alike(flight, flight')
  /\ IsForm(form') /\ (page = "list" => SameForm(form, form'))

LEMMA BesideKeeps == PInv /\ Beside => PInv'
BY DEF PInv, Beside, Shapes, Polled, Edited, Keeps, SameForm, Alike

LEMMA FormSame == ASSUME Shapes, form' = form PROVE IsForm(form') /\ SameForm(form, form')
BY DEF Shapes, SameForm

\* A form that is changed beside its settings, and one that is filled.
LEMMA FormChanges ==
  ASSUME NEW f, IsForm(f), NEW x \in BOOLEAN, NEW y, NEW t, NEW b
  PROVE  /\ (x => f.open) => SameForm(f, [f EXCEPT !.open = x, !.busy = y])
         /\ (x => f.open) => SameForm(f, [f EXCEPT !.open = x])
         /\ SameForm(f, [f EXCEPT !.busy = y])
         /\ SameForm(f, [f EXCEPT !.loadNow = y])
         /\ IsForm(Filled(f, t, b)) /\ Keeps(Filled(f, t, b), Empty)
BY DEF IsForm, SameForm, Filled, Keeps, FormFields

\* A page renders.
LEMMA Rendering ==
  ASSUME PInv, NEW v, NEW e, NEW f, NEW rs, NEW fm, NEW fl, NEW fresh,
         NEW gl,
         Renders(v, e, f, rs, fm, fl, fresh), SameForm(form, fm), Alike(gl, fl)
  PROVE  /\ Alike(gl, flight') /\ IsForm(form')
         /\ page = "list" => SameForm(form, form')
<1>1. Alike(gl, flight')
  <2>1. PICK lost :
          flight' = {IF r \in lost THEN [r EXCEPT !.held = FALSE] ELSE r : r \in fl}
    <3> DEFINE Lost(r) == \/ r.by = "row"  /\ r.id \notin Mounted(page, v, e, f)
                          \/ r.by = "form" /\ ~HasForm(v, e)
               lost == {r \in fl : Lost(r)}
    <3>1. flight' = {IF Lost(r) THEN [r EXCEPT !.held = FALSE] ELSE r : r \in fl}
      BY DEF Renders
    <3>2. \A r \in fl : r \in lost <=> Lost(r)
      OBVIOUS
    <3> HIDE DEF Lost, lost
    <3>3. flight' = {IF r \in lost THEN [r EXCEPT !.held = FALSE] ELSE r : r \in fl}
      BY <3>1, <3>2
    <3>4. QED
      BY <3>3
  <2> DEFINE g(r) == IF r \in lost THEN [r EXCEPT !.held = FALSE] ELSE r
  <2>2. \A r \in fl : IsRequest(g(r)) /\ (InLoop(g(r)) <=> InLoop(r))
    <3>1. SUFFICES ASSUME NEW r \in fl PROVE IsRequest(g(r)) /\ (InLoop(g(r)) <=> InLoop(r))
      OBVIOUS
    <3>2. IsRequest(r)
      BY DEF Alike
    <3>3. DOMAIN g(r) = DOMAIN r /\ g(r).by = r.by /\ g(r).home = r.home
      BY <3>2 DEF IsRequest, Fields
    <3> HIDE DEF g
    <3>4. QED
      BY <3>2, <3>3, Changing
  <2>3. flight' = {g(r) : r \in fl}
    BY <2>1
  <2> HIDE DEF g
  <2>4. Unique(fl) => Unique(flight')
    BY <2>2, <2>3 DEF Unique
  <2>5. QED
    BY <2>2, <2>3, <2>4 DEF Alike, Absent
<1>2. PICK kept : kept \in {fm, [fm EXCEPT !.busy = FALSE]}
                  /\ form' \in {kept, Filled(kept, page, v.conf)}
                  /\ (page = "list" => form' = fm)
  <2> DEFINE kept == IF HasForm(v, e) THEN fm ELSE [fm EXCEPT !.busy = FALSE]
             again == page \in Ids /\ kept.open /\ HasForm(v, e)
                      /\ (fresh \/ (page \in Ids /\ HasForm(v, e) /\ ~HasForm(view, error)))
  <2>1. form' = IF again THEN Filled(kept, page, v.conf) ELSE kept
    BY DEF Renders
  <2>2. page = "list" => kept = fm /\ ~again
    BY PagesAssumption DEF HasForm
  <2>3. kept \in {fm, [fm EXCEPT !.busy = FALSE]}
    OBVIOUS
  <2> HIDE DEF kept, again
  <2>4. QED
    BY <2>1, <2>2, <2>3
<1>3. IsForm(fm) /\ SameForm(fm, [fm EXCEPT !.busy = FALSE])
  BY FormChanges DEF SameForm
<1>4. IsForm(kept) /\ IsForm(Filled(kept, page, v.conf))
  <2>1. IsForm(kept)
    BY <1>2, <1>3 DEF SameForm
  <2>2. QED
    BY <2>1, FormChanges
<1>5. QED
  BY <1>1, <1>2, <1>4

-------------------------------------------------------------------------------
(* The steps                                                               *)

\* Asking again for what the page shows.
LEMMA Asks ==
  ASSUME NEW fl, NEW gl, Alike(fl, gl), NEW by
  PROVE  /\ by # "loop" => Alike(fl, Ask(gl, by))
         /\ \E q : Ask(gl, by) = gl \cup {q} /\ IsRequest(q) /\ (InLoop(q) <=> by = "loop")
<1>1. PICK q : Ask(gl, by) = gl \cup {q} /\ IsRequest(q) /\ (InLoop(q) <=> by = "loop")
  <2> DEFINE q == Request(gl, IF page = "list" THEN "list" ELSE "get", by,
                          IF page = "list" THEN New ELSE page, Empty, FALSE)
  <2>1. Ask(gl, by) = gl \cup {q}
    BY DEF Ask
  <2>2. IsRequest(q) /\ (InLoop(q) <=> by = "loop")
    BY DEF Request, IsRequest, InLoop, Fields
  <2> HIDE DEF q
  <2>3. QED
    BY <2>1, <2>2
<1>2. by # "loop" => Alike(fl, gl \cup {q})
  BY <1>1, AlikeMore
<1>3. QED
  BY <1>1, <1>2

\* The server takes a request and ends the work for it.
LEMMA ServerKeeps ==
  ASSUME PInv, NEW r \in flight, Serve(r) \/ Finish(r)
  PROVE  PInv'
<1>1. \A s \in flight : IsRequest(s)
  BY DEF PInv, Shapes
<1>2. \E q : flight' = (flight \ {r}) \cup {q} /\ IsRequest(q) /\ (InLoop(q) <=> InLoop(r))
  <2>1. CASE \E ok, answer : Answers(r, ok, answer)
    <3>1. PICK ok, answer : Answers(r, ok, answer)
      BY <2>1
    <3> DEFINE q == [r EXCEPT !.phase = "answered", !.ok = ok, !.answer = answer]
    <3>2. flight' = (flight \ {r}) \cup {q}
      BY <3>1 DEF Answers
    <3>3. DOMAIN q = DOMAIN r /\ q.by = r.by /\ q.home = r.home
      BY <1>1 DEF IsRequest, Fields
    <3> HIDE DEF q
    <3>4. QED
      BY <1>1, <3>2, <3>3, Changing
  <2>2. CASE \E id, m : flight' = (flight \ {r}) \cup
               {[r EXCEPT !.phase = "answered", !.ok = TRUE, !.answer = m, !.id = id]}
    <3>1. PICK id, m : flight' = (flight \ {r}) \cup
               {[r EXCEPT !.phase = "answered", !.ok = TRUE, !.answer = m, !.id = id]}
      BY <2>2
    <3> DEFINE q == [r EXCEPT !.phase = "answered", !.ok = TRUE, !.answer = m, !.id = id]
    <3>2. DOMAIN q = DOMAIN r /\ q.by = r.by /\ q.home = r.home
      BY <1>1 DEF IsRequest, Fields
    <3> HIDE DEF q
    <3>3. QED
      BY <1>1, <3>1, <3>2, Changing DEF q
  <2>3. CASE flight' = (flight \ {r}) \cup {[r EXCEPT !.phase = "working"]}
    <3> DEFINE q == [r EXCEPT !.phase = "working"]
    <3>1. DOMAIN q = DOMAIN r /\ q.by = r.by /\ q.home = r.home
      BY <1>1 DEF IsRequest, Fields
    <3>2. flight' = (flight \ {r}) \cup {q}
      BY <2>3
    <3> HIDE DEF q
    <3>3. QED
      BY <1>1, <3>1, <3>2, Changing
  <2>4. CASE Serve(r)
    BY <2>1, <2>2, <2>3, <2>4 DEF Serve
  <2>5. CASE Finish(r)
    BY <2>1, <2>5 DEF Finish
  <2>6. QED
    BY <2>4, <2>5
<1>3. Alike(flight, flight')
  BY <1>1, <1>2, AlikeMoved
<1>4. page' = page /\ timer' = timer /\ typed' = typed /\ form' = form
  BY DEF Serve, Finish
<1>5. Beside
  BY <1>3, <1>4, FormSame DEF PInv, Beside
<1>6. QED
  BY <1>5, BesideKeeps

\* What others and the models do.
LEMMA WorldKeeps ==
  ASSUME PInv, Outage \/ \E id \in Ids : ModelMoves(id)
  PROVE  PInv'
<1>1. page' = page /\ timer' = timer /\ typed' = typed /\ form' = form /\ flight' = flight
  BY DEF Outage, ModelMoves, shown
<1>2. Alike(flight, flight')
  BY <1>1, AlikeSame DEF PInv, Shapes
<1>3. Beside
  BY <1>1, <1>2, FormSame DEF PInv, Beside
<1>4. QED
  BY <1>3, BesideKeeps

\* A page is left: its loop ends, and the next page begins with its own.
LEMMA GoesKeeps ==
  ASSUME PInv, NEW p \in Ids \cup {"list", "away"}, Goes(p)
  PROVE  PInv'
<1> DEFINE fl == {[r EXCEPT !.home = FALSE, !.held = FALSE] : r \in flight}
<1>1. \A r \in fl : IsRequest(r) /\ ~InLoop(r)
  BY DEF PInv, Shapes, IsRequest, InLoop, Fields
<1>2. page' = p /\ timer' = (p \in Ids) /\ flight' = fl \cup FirstRequest(fl, p)
      /\ form' = ClosedForm /\ typed' = Empty
  BY DEF Goes
<1> HIDE DEF fl
<1>3. \A q \in FirstRequest(fl, p) : IsRequest(q) /\ (InLoop(q) <=> p = "list")
  <2>1. CASE p = "away"
    BY <2>1 DEF FirstRequest
  <2>2. CASE p = "list"
    <3> DEFINE q == Request(fl, "list", "loop", New, Empty, FALSE)
    <3>1. FirstRequest(fl, p) = {q}
      BY <2>2 DEF FirstRequest
    <3>2. IsRequest(q) /\ (InLoop(q) <=> p = "list")
      BY <2>2 DEF Request, IsRequest, InLoop, Fields
    <3> HIDE DEF q
    <3>3. QED
      BY <3>1, <3>2
  <2>3. CASE p # "away" /\ p # "list"
    <3> DEFINE q == Request(fl, "get", "nobody", p, Empty, FALSE)
    <3>1. FirstRequest(fl, p) = {q}
      BY <2>3 DEF FirstRequest
    <3>2. IsRequest(q) /\ (InLoop(q) <=> p = "list")
      BY <2>3 DEF Request, IsRequest, InLoop, Fields
    <3> HIDE DEF q
    <3>3. QED
      BY <3>1, <3>2
  <2>4. QED
    BY <2>1, <2>2, <2>3
<1>4. p = "list" => \E q : FirstRequest(fl, p) = {q}
  BY DEF FirstRequest
<1>5. p = "list" => p \notin Ids
  BY PagesAssumption
<1>6. Polled'
  BY <1>1, <1>2, <1>3, <1>4, <1>5 DEF Polled, Unique, Absent
<1>7. IsForm(form') /\ Keeps(form', typed')
  BY <1>2 DEF ClosedForm, IsForm, FormFields, Keeps
<1>8. Shapes'
  BY <1>1, <1>2, <1>3, <1>7 DEF Shapes
<1>9. QED
  BY <1>6, <1>7, <1>8 DEF PInv, Edited

\* A poll begins: on the list it is the loop's turn.
LEMMA TickKeeps == ASSUME PInv, Tick PROVE PInv'
<1>1. page' = page /\ typed' = typed /\ form' = form /\ timer /\ timer' = (page # "list")
      /\ flight' = Ask(flight, IF page = "list" THEN "loop" ELSE "nobody")
  BY DEF Tick
<1>2. Alike(flight, flight)
  BY AlikeSame DEF PInv, Shapes
<1>3. CASE page # "list"
  <2>1. timer' = timer
    BY <1>1, <1>3 DEF PInv, Shapes
  <2>2. Alike(flight, flight')
    BY <1>1, <1>2, <1>3, Asks
  <2>3. QED
    BY <1>1, <2>1, <2>2, FormSame, BesideKeeps DEF PInv, Beside
<1>4. CASE page = "list"
  <2>1. PICK q : flight' = flight \cup {q} /\ IsRequest(q) /\ InLoop(q)
    BY <1>1, <1>2, <1>4, Asks
  <2>2. Absent(flight)
    BY <1>1 DEF PInv, Polled
  <2>3. Polled'
    BY <1>1, <1>4, <2>1, <2>2 DEF Polled, Unique, Absent
  <2>4. Shapes' /\ Edited'
    BY <1>1, <1>4, <2>1 DEF PInv, Shapes, Edited
  <2>5. QED
    BY <2>3, <2>4 DEF PInv
<1>5. QED
  BY <1>3, <1>4

\* The answer of a poll or of the refresh button: the loop goes on.
LEMMA RefreshedKeeps == ASSUME PInv, NEW r \in flight, Refreshed(r) PROVE PInv'
<1>1. page' = page /\ typed' = typed /\ timer' = (timer \/ Rearms(r))
  BY DEF Refreshed
<1>2. \A s \in flight : IsRequest(s)
  BY DEF PInv, Shapes
<1>3. /\ \A s \in flight \ {r} : IsRequest(s)
      /\ Alike(flight \ {r}, flight \ {r})
  BY <1>2, AlikeSame
<1>4. \/ flight' = flight \ {r} /\ form' = form
      \/ Renders(IF r.ok THEN r.answer ELSE view, ~r.ok, filter, rows, form, flight \ {r}, r.ok)
  BY DEF Refreshed
<1>5. IsForm(form') /\ (page = "list" => SameForm(form, form')) /\ Alike(flight \ {r}, flight')
  <2>1. CASE flight' = flight \ {r} /\ form' = form
    BY <1>3, <2>1, FormSame DEF PInv
  <2>2. CASE Renders(IF r.ok THEN r.answer ELSE view, ~r.ok, filter, rows, form, flight \ {r}, r.ok)
    BY <1>3, <2>2, Rendering, FormChanges DEF PInv, Shapes, SameForm
  <2>3. QED
    BY <1>4, <2>1, <2>2
<1>6. CASE InLoop(r)
  <2>1. page = "list" /\ ~timer /\ timer' = TRUE
    BY <1>1, <1>6 DEF PInv, Polled, Absent, Rearms, InLoop, Shapes
  <2>2. Absent(flight \ {r})
    BY <1>6, <2>1 DEF PInv, Polled, Unique, Absent
  <2>3. Absent(flight')
    BY <1>5, <2>2 DEF Alike
  <2>4. Polled'
    BY <2>1, <2>3 DEF Polled
  <2>5. Shapes' /\ Edited'
    BY <1>1, <1>5, <2>1 DEF PInv, Shapes, Edited, Alike, SameForm, Keeps
  <2>6. QED
    BY <2>4, <2>5 DEF PInv
<1>7. CASE ~InLoop(r)
  <2>1. timer' = timer
    BY <1>1, <1>7 DEF PInv, Shapes, Rearms, InLoop
  <2>2. Alike(flight, flight \ {r})
    BY <1>2, <1>7, AlikeLess
  <2>3. Alike(flight, flight')
    BY <1>5, <2>2 DEF Alike
  <2>4. QED
    BY <1>1, <1>5, <2>1, <2>3, BesideKeeps DEF Beside
<1>8. QED
  BY <1>6, <1>7

\* A row is answered.
LEMMA RowAnsweredKeeps == ASSUME PInv, NEW r \in flight, RowAnswered(r) PROVE PInv'
<1> DEFINE fl == flight \ {r}
<1>1. page' = page /\ typed' = typed /\ timer' = timer
  BY DEF RowAnswered
<1>2. Alike(flight, fl) /\ SameForm(form, form)
  BY AlikeLess, FormSame DEF PInv, Shapes, RowAnswered, InLoop, SameForm
<1>3. Alike(flight, Ask(fl, "nobody"))
  BY <1>2, Asks
<1>4. \/ flight' = fl /\ form' = form
      \/ Renders(r.answer, error, filter, Released(r), form, fl, TRUE)
      \/ Renders(view, error, filter, Released(r), form, Ask(fl, "nobody"), FALSE)
  BY DEF RowAnswered
<1> HIDE DEF fl
<1>5. Alike(flight, flight') /\ IsForm(form') /\ (page = "list" => SameForm(form, form'))
  <2>1. CASE flight' = fl /\ form' = form
    BY <1>2, <2>1 DEF SameForm
  <2>2. CASE Renders(r.answer, error, filter, Released(r), form, fl, TRUE)
    BY <1>2, <2>2, Rendering
  <2>3. CASE Renders(view, error, filter, Released(r), form, Ask(fl, "nobody"), FALSE)
    BY <1>2, <1>3, <2>3, Rendering
  <2>4. QED
    BY <1>4, <2>1, <2>2, <2>3
<1>6. QED
  BY <1>1, <1>5, BesideKeeps DEF Beside

\* The form is answered, and may ask for the new model to be loaded.
LEMMA FormAnsweredKeeps == ASSUME PInv, NEW r \in flight, FormAnswered(r) PROVE PInv'
<1> DEFINE fl == flight \ {r}
           done == r.ok \/ r.kind = "load"
           fm == [form EXCEPT !.open = @ /\ ~done, !.busy = @ /\ ~r.held]
           load == [Request(fl, "load", "form", r.id, Empty, FALSE)
                      EXCEPT !.home = r.home, !.held = r.held]
<1>1. page' = page /\ typed' = typed /\ timer' = timer
  BY DEF FormAnswered
<1>2. Alike(flight, fl) /\ SameForm(form, form)
  BY AlikeLess, FormSame DEF PInv, Shapes, FormAnswered, InLoop, SameForm
<1>3. Alike(flight, Ask(fl, "nobody"))
  BY <1>2, Asks
<1>4. SameForm(form, fm)
  BY DEF PInv, Shapes, IsForm, SameForm, FormFields
<1>5. Alike(flight, fl \cup {load})
  <2>1. IsRequest(load) /\ ~InLoop(load)
    BY DEF PInv, Shapes, Request, IsRequest, InLoop, Fields
  <2> HIDE DEF load, fl
  <2>2. QED
    BY <1>2, <2>1, AlikeMore
<1>6. \/ flight' = fl /\ form' = form
      \/ flight' = fl \cup {load} /\ form' = form
      \/ Renders(view, error, filter, rows, fm, fl, FALSE)
      \/ Renders(view, error, filter, rows, fm, Ask(fl, "nobody"), FALSE)
      \/ Renders(r.answer, error, filter, rows, fm, fl, TRUE)
  BY DEF FormAnswered
<1> HIDE DEF fl, fm, load
<1>7. Alike(flight, flight') /\ IsForm(form') /\ (page = "list" => SameForm(form, form'))
  <2>1. CASE (flight' = fl \/ flight' = fl \cup {load}) /\ form' = form
    BY <1>2, <1>5, <2>1 DEF SameForm
  <2>2. CASE \/ Renders(view, error, filter, rows, fm, fl, FALSE)
             \/ Renders(r.answer, error, filter, rows, fm, fl, TRUE)
    BY <1>2, <1>4, <2>2, Rendering
  <2>3. CASE Renders(view, error, filter, rows, fm, Ask(fl, "nobody"), FALSE)
    BY <1>3, <1>4, <2>3, Rendering
  <2>4. QED
    BY <1>6, <2>1, <2>2, <2>3
<1>8. QED
  BY <1>1, <1>7, BesideKeeps DEF Beside

\* What the user does beside the settings of the form.
LEMMA UserBeside ==
  ASSUME PInv,
         \/ Refresh \/ \E f \in Filters : SetFilter(f)
         \/ \E id \in Here : \/ Load(id) \/ Unload(id) \/ Restart(id) \/ Delete(id)
                             \/ \E open \in BOOLEAN : SetConfirm(id, open)
         \/ SwitchLoadNow \/ Dismiss \/ Submit
  PROVE  PInv'
<1>1. Alike(flight, flight) /\ SameForm(form, form) /\ IsForm(form)
  BY AlikeSame, FormSame DEF PInv, Shapes, SameForm
<1> SUFFICES Beside
  BY BesideKeeps
<1>2. CASE Refresh
  <2>1. page' = page /\ timer' = timer /\ typed' = typed /\ form' = form
        /\ flight' = Ask(flight, "button")
    BY <1>2 DEF Refresh
  <2>2. QED
    BY <1>1, <2>1, Asks DEF Beside
<1>3. CASE \E f \in Filters : SetFilter(f)
  <2>1. PICK f : Renders(view, error, f, rows, form, flight, FALSE)
                 /\ page' = page /\ timer' = timer /\ typed' = typed
    BY <1>3 DEF SetFilter
  <2>2. QED
    BY <1>1, <2>1, Rendering DEF Beside
<1>4. CASE \E id, kind : Run(id, kind)
  <2>1. PICK id, kind : Run(id, kind)
    BY <1>4
  <2> DEFINE q == Request(flight, kind, "row", id, Empty, FALSE)
  <2>2. page' = page /\ timer' = timer /\ typed' = typed /\ form' = form
        /\ flight' = flight \cup {q}
    BY <2>1 DEF Run
  <2>3. IsRequest(q) /\ ~InLoop(q)
    BY DEF Request, IsRequest, InLoop, Fields
  <2> HIDE DEF q
  <2>4. QED
    BY <1>1, <2>2, <2>3, AlikeMore DEF Beside
<1>5. CASE \E id, open : SetConfirm(id, open)
  BY <1>1, <1>5 DEF SetConfirm, Beside
<1>6. CASE SwitchLoadNow
  BY <1>1, <1>6, FormChanges DEF SwitchLoadNow, Beside, SameForm
<1>7. CASE Dismiss
  BY <1>1, <1>7, FormChanges DEF Dismiss, Beside, SameForm
<1>8. CASE Submit
  <2> DEFINE q == IF form.target = New
                  THEN Request(flight, "create", "form", New, form.draft, form.loadNow)
                  ELSE Request(flight, "update", "form", form.target, form.draft, FALSE)
  <2>1. page' = page /\ timer' = timer /\ typed' = typed /\ flight' = flight \cup {q}
        /\ form' = [form EXCEPT !.busy = TRUE]
    BY <1>8 DEF Submit
  <2>2. IsRequest(q) /\ ~InLoop(q)
    BY DEF Request, IsRequest, InLoop, Fields
  <2>3. SameForm(form, form')
    BY <1>1, <2>1, FormChanges
  <2> HIDE DEF q
  <2>4. QED
    BY <1>1, <2>1, <2>2, <2>3, AlikeMore DEF Beside, SameForm
<1>9. QED
  BY <1>2, <1>3, <1>4, <1>5, <1>6, <1>7, <1>8 DEF Load, Unload, Restart, Delete

\* The form is opened, or typed into.
LEMMA UserForm ==
  ASSUME PInv, OpenNew \/ (\E id \in Here : OpenEdit(id)) \/ \E v \in Values : Type(v)
  PROVE  PInv'
<1>1. page' = page /\ timer' = timer /\ flight' = flight
  BY DEF OpenNew, OpenEdit, Opens, Type
<1>2. CASE OpenNew \/ \E id \in Here : OpenEdit(id)
  <2>1. PICK t, b : form' = Filled(form, t, b) /\ typed' = Empty
    BY <1>2 DEF OpenNew, OpenEdit, Opens
  <2>2. IsForm(form') /\ Keeps(form', typed')
    BY <2>1, FormChanges DEF PInv, Shapes
  <2>3. QED
    BY <1>1, <2>2 DEF PInv, Shapes, Polled, Edited
<1>3. CASE \E v \in Values : Type(v)
  <2>1. PICK v \in Values : form' = [form EXCEPT !.draft = v] /\ typed' = v
    BY <1>3 DEF Type
  <2>2. v # Empty
    BY PagesAssumption
  <2>3. IsForm(form') /\ Keeps(form', typed')
    BY <2>1, <2>2 DEF PInv, Shapes, IsForm, FormFields, Keeps
  <2>4. QED
    BY <1>1, <2>3 DEF PInv, Shapes, Polled, Edited
<1>4. QED
  BY <1>2, <1>3

LEMMA InitHolds == Init => PInv
<1> SUFFICES ASSUME Init PROVE PInv
  OBVIOUS
<1> DEFINE q == IF page = "list" THEN Request({}, "list", "loop", New, Empty, FALSE)
                ELSE Request({}, "get", "nobody", page, Empty, FALSE)
<1>1. page \in Ids \cup {"list", "away"} /\ timer = (page \in Ids) /\ form = ClosedForm
      /\ flight = (IF page = "away" THEN {} ELSE {q})
  BY PagesAssumption DEF Init, FirstRequest
<1>2. IsRequest(q) /\ (InLoop(q) <=> page = "list")
  BY DEF Request, IsRequest, InLoop, Fields
<1>3. page = "list" => page \notin Ids
  BY PagesAssumption
<1> HIDE DEF q
<1>4. Polled
  BY <1>1, <1>2, <1>3 DEF Polled, Unique, Absent
<1>5. IsForm(form) /\ Keeps(form, typed)
  BY <1>1 DEF ClosedForm, IsForm, FormFields, Keeps
<1>6. QED
  BY <1>1, <1>2, <1>4, <1>5 DEF PInv, Shapes, Edited

LEMMA NextHolds == PInv /\ [Next]_vars => PInv'
<1> SUFFICES ASSUME PInv, [Next]_vars PROVE PInv'
  OBVIOUS
<1>1. CASE User
  <2>1. CASE \E p \in Ids \cup {"list", "away"} : Navigate(p)
    BY <2>1, GoesKeeps DEF Navigate
  <2>2. QED
    BY <1>1, <2>1, UserBeside, UserForm DEF User
<1>2. CASE Tick
  BY <1>2, TickKeeps
<1>3. CASE \E r \in flight : Serve(r) \/ Finish(r) \/ Deliver(r)
  BY <1>3, ServerKeeps, RefreshedKeeps, RowAnsweredKeeps, FormAnsweredKeeps DEF Deliver
<1>4. CASE Outage \/ \E id \in Ids : ModelMoves(id)
  BY <1>4, WorldKeeps
<1>5. CASE UNCHANGED vars
  BY <1>5 DEF vars, shown, PInv, Shapes, Polled, Edited
<1>6. QED
  BY <1>1, <1>2, <1>3, <1>4, <1>5 DEF Next

LEMMA Invariance == Spec => []PInv
BY InitHolds, NextHolds, PTL DEF Spec

-------------------------------------------------------------------------------
\* The list is polled by one loop, whatever is asked beside it by its button,
\* its rows and its form, however often the page is left and comes back, and in
\* whatever order the answers come (useModels.ts).
THEOREM PolledByOneLoop == Spec => []OneLoop
<1>1. PInv => OneLoop
  BY OneLoopIs DEF PInv, Polled
<1>2. QED
  BY <1>1, Invariance, PTL

\* The form of the list shows what was typed into it, or the settings it was
\* opened with, whatever the polls answer (Models.tsx, ModelForm.tsx).
THEOREM EditsKept == Spec => []FormKeepsEdits
<1>1. PInv => FormKeepsEdits
  BY EditedIs DEF PInv
<1>2. QED
  BY <1>1, Invariance, PTL
===============================================================================
