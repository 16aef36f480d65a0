----------------------------- MODULE BenchmarkLab -----------------------------
(***************************************************************************)
(* The Benchmark Lab, the 2D fields and the model library of the user      *)
(* interface thread (src/app.rs), the engine worker they share             *)
(* (src/engine.rs) and the benchmark case of the project.                  *)
(*                                                                         *)
(* A suite of a model and a list of seeds is asked for, computed while the *)
(* operator goes on, and recorded as an immutable run of the revision that *)
(* holds its inputs; a cell of the suite on display is then inspected and  *)
(* recorded as evidence of that run.  A bundle is known by its file name   *)
(* and its digest; the file may be deleted and another imported under its  *)
(* name.  Selected views, calibrated scales, scalars, the settings file    *)
(* and 3D models are left out; what the checkpoint of a project writes is  *)
(* ProjectLifecycle's, what append_run and append_evidence demand is       *)
(* RunLedger's, and external-flow requests are ExternalFlowRun's.          *)
(***************************************************************************)
EXTENDS Integers, Sequences, FiniteSetsExt, SequencesExt

CONSTANTS
    Models,        \* file names of 2D bundles
    Digests,       \* their contents
    SeedLists,     \* what the seed controls can be set to
    Horizons,      \* the fixed list of horizons
    MaxRevisions, MaxRuns, MaxCells, MaxReports,  \* bounds on the ledger
    MaxQueue,      \* bound on messages between the two threads
    MaxUpsets      \* bound on what comes between: failures and restarts of the
                   \* engine, changes of the 2D view, the library or the project

ASSUME BenchmarkAssumption ==
    /\ \A s \in SeedLists : s \in Seq(Nat) /\ s # <<>>
    /\ Horizons \in Seq(Nat) /\ Horizons # <<>>
    /\ {MaxRevisions, MaxRuns, MaxCells, MaxReports, MaxQueue, MaxUpsets} \subseteq Nat

VARIABLES
    ledger,     \* the benchmark case, its evidence and bundled content
    readOnly,   \* the access mode of the project
    inputs,     \* f2d_model, bench_seed_start and bench_seeds
    running,    \* bench_running
    display,    \* bench, its run, the selected cell and its evidence
    field,      \* f2d_pending and f2d_dirty
    models,     \* the inventory the library shows
    library,    \* library.busy and library_pending_request
    engineOk,   \* engine_ok
    worker,     \* the engine thread
    bundles,    \* the bundle files of the engine
    requests,   \* EngineHandle.tx, the request being computed included
    replies,    \* EngineHandle.rx
    upsets      \* upsets so far

view == <<inputs, display>>
engine == <<worker, bundles, requests, replies>>
vars == <<ledger, readOnly, view, running, field, models, library, engineOk,
          engine, upsets>>

Nothing == [none |-> TRUE]

\* The signature and metadata of a bundle without the bundle.
Torn == [torn |-> TRUE]

Upset == upsets < MaxUpsets /\ upsets' = upsets + 1

Suite == [model : Models, seeds : SeedLists]
CellsOf(s) ==
    [seed : {s.seeds[i] : i \in DOMAIN s.seeds},
     horizon : {Horizons[j] : j \in DOMAIN Horizons}]
Inventory == [Models -> Digests \cup {Nothing}]
NoRun == 0
NoCell == 0
Unselected == <<>>
NoSelection == [run |-> NoRun, cell |-> NoCell]
Blank == [suite |-> Nothing, run |-> NoRun, selected |-> Unselected,
          inspector |-> Nothing, waiting |-> FALSE]
EmptyLedger == [revisions |-> <<>>, runs |-> <<>>, cells |-> <<>>, reports |-> {},
                bundled |-> {}, whole |-> TRUE, selection |-> NoSelection]

-----------------------------------------------------------------------------
(* The benchmark case.  What may fail returns the set of its outcomes.     *)

Outcome(ok, l) == [ok |-> ok, ledger |-> l]

\* The inputs and the digest of the bundle, as a revision records them.
ContractOf(inp, inv) ==
    [model |-> inp.model, digest |-> inv[inp.model], seeds |-> inp.seeds]

Revised(l, contract, clear) ==
    LET revisions == IF l.revisions # <<>> /\ Last(l.revisions) = contract
                     THEN l.revisions ELSE Append(l.revisions, contract)
    IN  [l EXCEPT !.revisions = revisions,
                  !.selection = IF clear THEN NoSelection ELSE @]

\* Mutant: a model without a verified bundle will do.
AnyDigest(digest) == TRUE

IsVerified(digest) == digest # Nothing

\* prepare_benchmark_case: the bundle is copied into the project once, after the
\* revision is in the ledger; its file must still be what the inventory says.
Prepared(l, inp, inv, clear) ==
    LET digest == inv[inp.model]
        contract == ContractOf(inp, inv)
        revised == Revised(l, contract, clear)
        failed == Outcome(FALSE, l)
    IN  IF readOnly \/ ~IsVerified(digest) \/ Len(revised.revisions) > MaxRevisions THEN {failed}
        ELSE IF digest \in l.bundled THEN {failed, Outcome(TRUE, revised)}
        ELSE IF bundles[inp.model] # digest THEN {failed}
        ELSE {failed, Outcome(FALSE, revised),
              Outcome(TRUE, [revised EXCEPT !.bundled = @ \cup {digest}])}

LatestRunOf(l, revision) ==
    LET own == {r \in DOMAIN l.runs : l.runs[r].revision = revision}
    IN  IF own = {} THEN NoRun ELSE Max(own)

WithRun(l, suite) ==
    LET revision == Len(l.revisions)
        run == [revision |-> revision, suite |-> suite, parent |-> LatestRunOf(l, revision)]
    IN  [l EXCEPT !.runs = Append(@, run),
                  !.selection = [run |-> Len(l.runs) + 1, cell |-> NoCell]]

\* An append of records, after which their bytes are bundled.
Appended(before, after) ==
    {Outcome(FALSE, before), Outcome(FALSE, [after EXCEPT !.whole = FALSE]),
     Outcome(TRUE, after)}

\* persist_benchmark_run.
RunRecorded(suite) ==
    UNION {IF p.ok THEN Appended(p.ledger, WithRun(p.ledger, suite)) ELSE {p} :
              p \in Prepared(ledger, inputs, models, FALSE)}

\* persist_benchmark_inspector.
CellRecorded(cell) ==
    LET run == IF display.run # NoRun THEN display.run ELSE ledger.selection.run
        recorded == [ledger EXCEPT
                        !.cells = Append(@, [run |-> run, cell |-> cell]),
                        !.selection = [run |-> run, cell |-> Len(ledger.cells) + 1]]
    IN  IF readOnly \/ run = NoRun THEN {Outcome(FALSE, ledger)}
        ELSE Appended(ledger, recorded)

\* reconcile_dependencies.  A project with evidence may be edited only while the
\* engine is there, the model of the active revision is in its inventory and
\* every object is bundled.
Unavailable ==
    /\ ledger.runs # <<>>
    /\ \/ ~engineOk
       \/ Last(ledger.revisions).digest \notin {models[m] : m \in Models}
       \/ ~ledger.whole
       \/ \E r \in DOMAIN ledger.revisions : ledger.revisions[r].digest \notin ledger.bundled

\* Panels are drawn after the access mode is reconciled with what changed.
Settled == readOnly = Unavailable

Reconcile ==
    /\ ~Settled
    /\ readOnly' = Unavailable
    /\ UNCHANGED <<ledger, view, running, field, models, library, engineOk, engine, upsets>>

\* hydrate_project_runtime: what a selection brings on display.
IndexIn(seq, x) == SelectInSeq(seq, LAMBDA y : y = x)

Hydrated(l, sel) ==
    IF sel.run = NoRun THEN Blank
    ELSE LET suite == l.runs[sel.run].suite
             shown == [Blank EXCEPT !.suite = suite, !.run = sel.run]
         IN  IF sel.cell = NoCell THEN shown
             ELSE LET cell == l.cells[sel.cell].cell
                      i == IndexIn(suite.seeds, cell.seed)
                      j == IndexIn(Horizons, cell.horizon)
                  IN  [shown EXCEPT
                         !.inspector = cell,
                         !.selected = IF i = 0 \/ j = 0 THEN Unselected ELSE <<i, j>>]

\* The artifact may be corrupt; then nothing is on display.
Hydrate(l, sel, otherwise) ==
    \E readable \in BOOLEAN :
       /\ display' = IF readable THEN Hydrated(l, sel) ELSE Blank
       /\ inputs' = IF readable /\ sel.run # NoRun THEN l.runs[sel.run].suite ELSE otherwise

-----------------------------------------------------------------------------
(* The engine worker.  It computes one request at a time, in order.        *)

Request(kind, model, data) ==
    [kind |-> kind, model |-> model, data |-> data, id |-> 0]

InFlight == {requests[i] : i \in DOMAIN requests}
              \cup {replies[i].request : i \in DOMAIN replies}
Of(kind) == {i \in DOMAIN requests : requests[i].kind = kind}
AnsweredOf(kind) == {i \in DOMAIN replies : replies[i].request.kind = kind}
Room == Len(requests) + Len(replies) < MaxQueue

LibraryKinds == {"list", "delete", "import"}

\* Only bundle files are listed.
Listed(files) == [m \in Models |-> IF files[m] = Torn THEN Nothing ELSE files[m]]

\* Every library response carries the inventory after it.
Reply(request, kind, inventory) ==
    [request |-> request, kind |-> kind,
     inventory |-> IF request.kind \in LibraryKinds THEN Listed(inventory) ELSE Nothing]
NoRequest == Request("none", Nothing, Nothing)

Start ==
    /\ worker = "starting"
    /\ \/ worker' = "ready" /\ UNCHANGED <<requests, upsets>>
          /\ replies' = Append(replies, Reply(NoRequest, "ready", bundles))
       \/ worker' = "gone" /\ requests' = <<>>
          /\ replies' = Append(replies, Reply(NoRequest, "broken", bundles))
          /\ Upset
    /\ UNCHANGED <<ledger, readOnly, view, running, field, models, library, engineOk, bundles>>

\* What the sidecar does to its bundles, if it can.  A torn bundle can neither be
\* deleted nor imported again.
HasBundle(model) == bundles[model] \in Digests
Importing(q) == q.kind = "import" /\ bundles[q.model] = Nothing
Deleting(q) == q.kind = "delete" /\ HasBundle(q.model)
Rejecting(q) == q.kind = "import" /\ bundles[q.model] # Nothing
Serving(q) ==
    \/ q.kind \in {"list", "field"}
    \/ q.kind \in {"suite", "cell"} /\ HasBundle(q.model)

\* The bundle files after q.
Files(q) ==
    IF Importing(q) THEN [bundles EXCEPT ![q.model] = q.data]
    ELSE IF Deleting(q) THEN [bundles EXCEPT ![q.model] = Nothing]
    ELSE bundles

\* The same when q ends in an error or with the process: an import places the
\* bundle last, a delete removes it first.
FilesHalfway(q) ==
    {bundles, Files(q)}
      \cup (IF Importing(q) \/ Deleting(q) THEN {[bundles EXCEPT ![q.model] = Torn]} ELSE {})

Serve ==
    /\ worker = "ready" /\ requests # <<>>
    /\ LET q == Head(requests)
       IN  /\ bundles' = Files(q)
           /\ replies' = Append(replies,
                  Reply(q, IF Importing(q) \/ Deleting(q) \/ Serving(q) THEN "done"
                           ELSE IF Rejecting(q) THEN "rejected" ELSE "refused", bundles'))
    /\ requests' = Tail(requests)
    /\ UNCHANGED <<ledger, readOnly, view, running, field, models, library, engineOk,
                   worker, upsets>>

\* It refuses, or the connection breaks or times out: the worker ends, and with
\* it whatever is queued.  A library operation and its failure are one upset.
Fail ==
    /\ worker = "ready" /\ requests # <<>>
    /\ IF Importing(Head(requests)) \/ Deleting(Head(requests)) THEN UNCHANGED upsets ELSE Upset
    /\ \E kind \in {"refused", "broken"} :
          /\ bundles' \in FilesHalfway(Head(requests))
          /\ replies' = Append(replies, Reply(Head(requests), kind, bundles'))
          /\ requests' = IF kind = "broken" THEN <<>> ELSE Tail(requests)
          /\ worker' = IF kind = "broken" THEN "gone" ELSE worker
    /\ UNCHANGED <<ledger, readOnly, view, running, field, models, library, engineOk>>

\* What becomes of the queue when q is sent.  While a worker that left its loop
\* waits for the process, q is accepted and lost; later the channel is closed.
Sent(q) == IF worker = "gone" THEN requests ELSE Append(requests, q)
Closed == worker = "gone"

\* The id of a library request is fresh.
LibraryRequest(kind, model, digest) ==
    [Request(kind, model, digest) EXCEPT
        !.id = Min({n \in 1..(MaxQueue + 1) : \A q \in InFlight : q.id # n})]

\* A new handle drops the old receiver with what it holds, and the old process ends
\* amid what it computes.
NewEngine(queue) ==
    /\ bundles' \in IF worker = "ready" /\ requests # <<>>
                   THEN FilesHalfway(Head(requests)) ELSE {bundles}
    /\ worker' = "starting" /\ requests' = queue /\ replies' = <<>>
    /\ engineOk' = FALSE

ListFirst ==
    LET list == [Request("list", Nothing, Nothing) EXCEPT !.id = 1]
    IN  /\ NewEngine(<<list>>)
        /\ library' = [busy |-> TRUE, request |-> 1]

-----------------------------------------------------------------------------
(* Suites and cells.                                                       *)

\* Selecting the cell at an index of the suite on display d.  It is remembered
\* although the engine is unavailable.
SelectOn(d, at, up) ==
    LET request == Request("cell", d.suite.model,
                           [seed |-> d.suite.seeds[at[1]], horizon |-> Horizons[at[2]]])
        selected == [d EXCEPT !.selected = at, !.inspector = Nothing]
    IN  \/ /\ readOnly \/ d.waiting
           /\ display' = d /\ UNCHANGED requests
        \/ /\ ~readOnly /\ ~d.waiting
           /\ ~up \/ Closed
           /\ display' = selected /\ UNCHANGED requests
        \/ /\ ~readOnly /\ ~d.waiting /\ up
           /\ display' = [selected EXCEPT !.waiting = TRUE]
           /\ requests' = Sent(request)

SelectCell ==
    /\ display.suite # Nothing /\ ~readOnly /\ ~display.waiting /\ Room
    /\ \E i \in DOMAIN display.suite.seeds, j \in DOMAIN Horizons :
          SelectOn(display, <<i, j>>, engineOk)
    /\ UNCHANGED <<ledger, readOnly, inputs, running, field, models, library, engineOk,
                   worker, bundles, replies, upsets>>

\* A change of the controls revises the case; a suite that is being computed
\* goes on.
ChangeInputs ==
    /\ Settled /\ ~readOnly
    /\ \E model \in {m \in Models : models[m] # Nothing} \cup {inputs.model},
          seeds \in SeedLists :
          /\ inputs' = [model |-> model, seeds |-> seeds]
          /\ inputs' # inputs
    /\ display' = Blank
    /\ \E p \in Prepared(ledger, inputs', models, TRUE) : ledger' = p.ledger
    /\ UNCHANGED <<readOnly, running, field, models, library, engineOk, engine, upsets>>

\* Mutant: a suite may be asked for while one is computed.
MayRunAgain ==
    ~readOnly /\ ~display.waiting /\ engineOk /\ models[inputs.model] # Nothing

MayRun ==
    /\ ~readOnly /\ ~running /\ ~display.waiting /\ engineOk
    /\ models[inputs.model] # Nothing

RunSuite ==
    /\ Settled /\ MayRun /\ Room
    /\ \E p \in Prepared(ledger, inputs, models, TRUE) :
          /\ ledger' = p.ledger
          /\ \/ ~p.ok /\ UNCHANGED <<display, running, requests>>
             \/ /\ p.ok
                /\ display' = [Blank EXCEPT !.run = display.run]
                /\ \/ /\ running' = TRUE
                      /\ requests' = Sent(Request("suite", inputs.model, inputs.seeds))
                   \/ Closed /\ running' = FALSE /\ UNCHANGED requests
    /\ UNCHANGED <<readOnly, inputs, field, models, library, engineOk, worker,
                   bundles, replies, upsets>>

\* A stored run is opened.  Read-only evidence is reviewed without a change of
\* the project.  The cell on display is the last that was recorded, if any.
SelectionOf(r) ==
    LET own == {c \in DOMAIN ledger.cells : ledger.cells[c].run = r}
    IN  [run |-> r, cell |-> IF own = {} THEN NoCell ELSE Max(own)]

InspectRun ==
    /\ Settled
    /\ \E r \in DOMAIN ledger.runs :
          LET sel == SelectionOf(r)
          IN  /\ ledger' = IF readOnly THEN ledger ELSE [ledger EXCEPT !.selection = sel]
              /\ Hydrate(ledger, sel, inputs)
    /\ UNCHANGED <<readOnly, running, field, models, library, engineOk, engine, upsets>>

\* benchmark_export_identity: a report names the run of the suite on display and the
\* digest that the library now shows for its model.
ReportIdentity == [run |-> display.run, digest |-> models[display.suite.model]]

\* Report and signature become evidence of the run, once.
SignReport ==
    /\ Settled /\ ~readOnly
    /\ display.suite # Nothing /\ display.run # NoRun
    /\ models[display.suite.model] # Nothing
    /\ Cardinality(ledger.reports) < MaxReports
    /\ LET report == ReportIdentity
       IN  /\ report \notin ledger.reports
           /\ ledger' = [ledger EXCEPT
                  !.reports = @ \cup {report},
                  !.selection = [run |-> display.run, cell |-> NoCell]]
    /\ UNCHANGED <<readOnly, view, running, field, models, library, engineOk,
                   engine, upsets>>

-----------------------------------------------------------------------------
(* The 2D fields.                                                          *)

\* request_2d: one request at a time; a change meanwhile asks again later.
AskField(f, up) ==
    \/ ~up /\ field' = f /\ UNCHANGED requests
    \/ up /\ f.pending /\ field' = [f EXCEPT !.dirty = TRUE] /\ UNCHANGED requests
    \/ /\ up /\ ~f.pending
       /\ field' = [f EXCEPT !.pending = TRUE]
       /\ requests' = Sent(Request("field", inputs'.model, Nothing))

\* Another model, horizon, truth overlay or painted flow; or the view is opened.
ChangeField ==
    /\ Room /\ Upset
    /\ \E model \in {m \in Models : models[m] # Nothing} \cup {inputs.model} :
          inputs' = [inputs EXCEPT !.model = model]
    /\ AskField(field, engineOk)
    /\ UNCHANGED <<ledger, readOnly, display, running, models, library, engineOk, worker,
                   bundles, replies>>

-----------------------------------------------------------------------------
(* The model library.                                                      *)

SendLibrary(kind, model, digest) ==
    LET q == LibraryRequest(kind, model, digest)
    IN  \/ requests' = Sent(q) /\ library' = [busy |-> TRUE, request |-> q.id]
        \/ Closed /\ UNCHANGED requests /\ library' = [busy |-> TRUE, request |-> 0]

\* Import of the menu bar waits for no other request.  A bundle without a signature is
\* refused before it is sent, which frees the buttons of the library.
ImportModel ==
    /\ engineOk
    /\ \/ \E m \in Models, d \in Digests : SendLibrary("import", m, d)
       \/ library' = [library EXCEPT !.busy = FALSE] /\ UNCHANGED requests

\* The buttons of the library wait for its request.  The active model, which cannot be
\* deleted, is the last one activated, of any dimension, so it may be no 2D model.
ManageModels ==
    /\ Room /\ Upset
    /\ \/ ~library.busy /\ SendLibrary("list", Nothing, Nothing)
       \/ ~library.busy /\ \E m \in Models :
              models[m] # Nothing /\ SendLibrary("delete", m, Nothing)
       \/ ImportModel
    /\ UNCHANGED <<ledger, readOnly, view, running, field, models, engineOk, worker,
                   bundles, replies>>

\* activate_model with inventory inv: a benchmark case moves to the model, and the
\* research sandbox, where it is enabled, asks for its field.
Activated(m, inv) ==
    \/ inv[m] = Nothing /\ UNCHANGED <<ledger, view, field, requests>>
    \/ /\ inv[m] # Nothing
       /\ inputs' = [inputs EXCEPT !.model = m]
       /\ display' = Blank
       /\ \/ ledger.revisions = <<>> /\ UNCHANGED ledger
          \/ /\ ledger.revisions # <<>>
             /\ \E p \in Prepared(ledger, inputs', inv, TRUE) : ledger' = p.ledger
       /\ \/ UNCHANGED <<field, requests>>
          \/ AskField(field, engineOk)

SetActive ==
    /\ Settled /\ ~library.busy /\ Room /\ Upset
    /\ \E m \in Models : models[m] # Nothing /\ Activated(m, models)
    /\ UNCHANGED <<readOnly, running, models, library, engineOk, worker, bundles,
                   replies>>

-----------------------------------------------------------------------------
(* Restarts of the engine and changes of the project.                      *)

Invalidated == display' = Blank /\ running' = FALSE /\ field' = [pending |-> FALSE, dirty |-> FALSE]

\* Saved compute settings.
RestartEngine ==
    /\ Upset
    /\ Invalidated
    /\ ListFirst
    /\ UNCHANGED <<ledger, readOnly, inputs, models>>

\* An external-flow run is cancelled or fails.  What else was asked for is lost,
\* and still waited for.
InterruptEngine ==
    /\ Upset
    /\ NewEngine(<<>>)
    /\ UNCHANGED <<ledger, readOnly, view, running, field, models, library>>

\* The inputs a project starts with: the default model of the settings, which is
\* some model, and the default seeds.
DefaultInputs == [model : Models, seeds : SeedLists]

NewProject ==
    /\ Upset
    /\ ledger' = EmptyLedger /\ readOnly' = FALSE
    /\ inputs' \in DefaultInputs
    /\ Invalidated
    /\ ListFirst
    /\ UNCHANGED models

\* The project is opened or recovered as it is, by this session or the next.
Reopen ==
    /\ Upset
    /\ \E default \in DefaultInputs : Hydrate(ledger, ledger.selection, default)
    /\ running' = FALSE /\ field' = [pending |-> FALSE, dirty |-> FALSE]
    /\ ListFirst
    /\ UNCHANGED <<ledger, readOnly, models>>

-----------------------------------------------------------------------------
(* A frame drains replies.                                                 *)

Message == Head(replies)
Drained == replies # <<>> /\ replies' = Tail(replies)

\* The status of a new engine; an open 2D view asks for a field.
TakeStatus ==
    /\ Drained /\ Message.kind = "ready"
    /\ engineOk' = TRUE
    /\ UNCHANGED inputs
    /\ \/ UNCHANGED <<field, requests>>
       \/ ~field.pending /\ AskField(field, TRUE)
    /\ UNCHANGED <<ledger, readOnly, display, running, models, library, worker, bundles, upsets>>

\* A library response counts only if it answers the last library request.
Current == library.request = Message.request.id
Answered == library' = [busy |-> FALSE, request |-> 0]

TakeLibrary ==
    /\ Drained /\ Message.request.kind \in LibraryKinds
    /\ Message.kind \in {"done", "rejected"}
    /\ IF ~Current THEN UNCHANGED <<ledger, view, field, requests, models, library>>
       ELSE /\ Answered
            /\ models' = IF Message.kind = "done" THEN Message.inventory ELSE models
            /\ IF Message.kind = "done" /\ Message.request.kind = "import"
               THEN Activated(Message.request.model, Message.inventory)
               ELSE UNCHANGED <<ledger, view, field, requests>>
    /\ UNCHANGED <<readOnly, running, engineOk, worker, bundles, upsets>>

TakeField ==
    /\ Drained /\ Message.request.kind = "field" /\ Message.kind = "done"
    /\ engineOk' = TRUE
    /\ UNCHANGED inputs
    /\ IF field.dirty THEN AskField([pending |-> FALSE, dirty |-> FALSE], TRUE)
       ELSE field' = [field EXCEPT !.pending = FALSE] /\ UNCHANGED requests
    /\ UNCHANGED <<ledger, readOnly, display, running, models, library, worker, bundles, upsets>>

\* Mutant: the seeds may have changed since.
SameModel(suite) == suite.model = inputs.model

\* The result is still what the controls say.
IsCurrent(suite) == suite.model = inputs.model /\ suite.seeds = inputs.seeds

\* Mutant: a suite that could not be recorded stays on display.
SuiteKept(d) == [d EXCEPT !.suite = inputs, !.run = NoRun]

\* A suite that could not be recorded is discarded.
SuiteDropped(d) == [d EXCEPT !.suite = Nothing, !.run = NoRun]

TakeSuite ==
    /\ Drained /\ Message.request.kind = "suite" /\ Message.kind = "done"
    /\ Len(ledger.runs) < MaxRuns
    /\ running' = FALSE
    /\ LET suite == [model |-> Message.request.model, seeds |-> Message.request.data]
       IN  IF ~IsCurrent(suite) THEN UNCHANGED <<ledger, display, requests, engineOk>>
           ELSE \E o \in RunRecorded(suite) :
                  /\ ledger' = o.ledger
                  /\ IF o.ok
                     THEN /\ engineOk' = TRUE
                          /\ SelectOn([display EXCEPT !.suite = suite,
                                                     !.run = Len(o.ledger.runs)],
                                      <<1, 1>>, TRUE)
                     ELSE /\ display' = SuiteDropped(display)
                          /\ UNCHANGED <<requests, engineOk>>
    /\ UNCHANGED <<readOnly, inputs, field, models, library, worker, bundles, upsets>>

\* Mutant: any cell that is waited for will do.
IsAwaited(cell) == display.suite # Nothing /\ display.waiting

\* The cell is the selected one, by its seed and horizon alone.
IsSelected(cell) ==
    /\ display.suite # Nothing /\ display.selected # Unselected
    /\ display.selected[1] \in DOMAIN display.suite.seeds
    /\ display.suite.seeds[display.selected[1]] = cell.seed
    /\ Horizons[display.selected[2]] = cell.horizon

TakeCell ==
    /\ Drained /\ Message.request.kind = "cell" /\ Message.kind = "done"
    /\ Len(ledger.cells) < MaxCells
    /\ engineOk' = TRUE
    /\ LET cell == Message.request.data
       IN  IF IsSelected(cell)
           THEN \E o \in CellRecorded(cell) :
                  /\ ledger' = o.ledger
                  /\ display' = [display EXCEPT !.waiting = FALSE,
                                               !.inspector = IF o.ok THEN cell ELSE Nothing]
           ELSE display' = [display EXCEPT !.waiting = FALSE] /\ UNCHANGED ledger
    /\ UNCHANGED <<readOnly, inputs, running, field, models, library, requests,
                   worker, bundles, upsets>>

\* An error ends what its request was for.  A late one of the library is ignored
\* altogether.
TakeError ==
    /\ Drained /\ Message.kind \in {"refused", "broken"}
    /\ LET kind == Message.request.kind
           late == kind \in LibraryKinds /\ ~Current
       IN  /\ engineOk' = (engineOk /\ (late \/ Message.kind = "refused"))
           /\ running' = (running /\ kind # "suite")
           /\ display' = [display EXCEPT !.waiting = @ /\ kind # "cell"]
           /\ field' = [field EXCEPT !.pending = @ /\ kind # "field"]
           /\ IF kind \in LibraryKinds /\ Current THEN Answered
              ELSE UNCHANGED library
    /\ UNCHANGED <<ledger, readOnly, inputs, models, requests, worker, bundles, upsets>>

-----------------------------------------------------------------------------

Init ==
    /\ ledger = EmptyLedger /\ readOnly = FALSE
    /\ inputs \in DefaultInputs
    /\ display = Blank /\ running = FALSE
    /\ field = [pending |-> FALSE, dirty |-> FALSE]
    /\ models = [m \in Models |-> Nothing]
    /\ library = [busy |-> FALSE, request |-> 1]
    /\ engineOk = FALSE
    /\ worker = "starting"
    /\ bundles \in [Models -> Digests]
    /\ requests = <<[Request("list", Nothing, Nothing) EXCEPT !.id = 1]>>
    /\ replies = <<>>
    /\ upsets = 0

Worker == Start \/ Serve \/ Fail

Drain == TakeStatus \/ TakeLibrary \/ TakeField \/ TakeSuite \/ TakeCell \/ TakeError

Operate ==
    \/ ChangeInputs \/ RunSuite \/ SelectCell \/ InspectRun \/ SignReport
    \/ ChangeField \/ ManageModels \/ SetActive
    \/ RestartEngine \/ InterruptEngine \/ NewProject \/ Reopen

Next == Worker \/ Drain \/ Operate \/ Reconcile

Spec == Init /\ [][Next]_vars

-----------------------------------------------------------------------------

TypeOK ==
    /\ ledger.revisions \in Seq([model : Models, digest : Digests, seeds : SeedLists])
    /\ ledger.bundled \subseteq Digests
    /\ inputs \in Suite
    /\ display.suite \in Suite \cup {Nothing}
    /\ models \in Inventory /\ bundles \in [Models -> Digests \cup {Nothing, Torn}]

\* ShownIsRecorded: a suite on display is the one recorded under the run it is
\* attributed to (exports and cell evidence name that run), and a cell on display is
\* evidence of that run at the selected place, whatever was opened, revised,
\* discarded or restarted meanwhile.
ShownIsRecorded ==
    display.suite # Nothing =>
        /\ display.run # NoRun
        /\ ledger.runs[display.run].suite = display.suite
        /\ display.inspector # Nothing =>
              /\ [run |-> display.run, cell |-> display.inspector] \in Range(ledger.cells)
              /\ IsSelected(display.inspector)

\* RunsMatchRevision: a run holds the model and the seeds of the revision it is
\* appended to, although the controls, the active model and the case may change
\* while it is computed, and the parent of a run is an earlier run of that revision.
RunsMatchRevision ==
    \A r \in DOMAIN ledger.runs :
        LET run == ledger.runs[r]
            revision == ledger.revisions[run.revision]
        IN  /\ run.suite = [model |-> revision.model, seeds |-> revision.seeds]
            /\ run.parent # NoRun =>
                  run.parent < r /\ ledger.runs[run.parent].revision = run.revision

\* CellsFitTheirRun: evidence of a cell belongs to a run whose suite has that seed and
\* horizon, although another run may be opened while the cell is computed.
CellsFitTheirRun ==
    \A c \in DOMAIN ledger.cells :
        ledger.cells[c].cell \in CellsOf(ledger.runs[ledger.cells[c].run].suite)

\* RequestsCoalesced: at most one 2D field and one suite are with the engine, and the
\* flag that holds back another is set while one is: "TimeJump-style work has at most
\* one in-flight" (PRD.md, PERF-AC-01).
RequestsCoalesced ==
    LET count(kind) == Cardinality(Of(kind)) + Cardinality(AnsweredOf(kind))
    IN  /\ count("field") <= IF field.pending THEN 1 ELSE 0
        /\ count("suite") <= IF running THEN 1 ELSE 0
=============================================================================
