------------------------- MODULE BenchmarkLab_proofs -------------------------
(***************************************************************************)
(* Theorems about the Benchmark Lab, for any models, digests, settings of  *)
(* the controls, horizons and bounds.  The state has its shape; the case   *)
(* is sound and what is on display is recorded in it (Records); and what   *)
(* is in the queues of the engine is coalesced (Queues).  The three are    *)
(* one inductive invariant: a result can only be recorded as what it is    *)
(* because requests and replies have theirs.                               *)
(***************************************************************************)
EXTENDS BenchmarkLab, SequenceTheorems, FiniteSetTheorems, TLAPS

-----------------------------------------------------------------------------
(* The shape of the state, every field of it.                              *)

Cell == [seed : Nat, horizon : Nat]
Contract == [model : Models, digest : Digests, seeds : SeedLists]
Run == [revision : Nat, suite : Suite, parent : Nat]
Evidence == [run : Nat, cell : Cell]
Report == [run : Nat, digest : Digests \cup {Nothing}]
LedgerRecord ==
    [revisions : Seq(Contract), runs : Seq(Run), cells : Seq(Evidence),
     reports : SUBSET Report, bundled : SUBSET Digests, whole : BOOLEAN,
     selection : [run : Nat, cell : Nat]]

Places == {Unselected} \cup (Nat \X DOMAIN Horizons)
Display ==
    [suite : Suite \cup {Nothing}, run : Nat, selected : Places,
     inspector : Cell \cup {Nothing}, waiting : BOOLEAN]

\* What each kind of request carries.
Asked ==
    [kind : {"none", "list", "field", "delete"}, model : Models \cup {Nothing},
     data : {Nothing}, id : Nat]
      \cup [kind : {"suite"}, model : Models, data : SeedLists, id : Nat]
      \cup [kind : {"cell"}, model : Models, data : Cell, id : Nat]
      \cup [kind : {"import"}, model : Models, data : Digests, id : Nat]

\* A reply of the library carries the inventory.
Answer ==
    {a \in [request : Asked, kind : {"ready", "done", "rejected", "refused", "broken"},
            inventory : Inventory \cup {Nothing}] :
        a.request.kind \in LibraryKinds => a.inventory \in Inventory}

\* What is neither of the case, nor on display, nor in a queue.
Shape ==
    /\ inputs \in Suite
    /\ running \in BOOLEAN
    /\ field \in [pending : BOOLEAN, dirty : BOOLEAN]
    /\ models \in Inventory
    /\ library \in [busy : BOOLEAN, request : Nat]
    /\ bundles \in [Models -> Digests \cup {Nothing, Torn}]

-----------------------------------------------------------------------------
(* The ledger l, and what a display d shows of it.                         *)

\* A run belongs to a revision of the ledger and repeats its inputs.
RunsFit(l) ==
    \A r \in DOMAIN l.runs :
        /\ l.runs[r].revision \in DOMAIN l.revisions
        /\ l.runs[r].suite.model = l.revisions[l.runs[r].revision].model
        /\ l.runs[r].suite.seeds = l.revisions[l.runs[r].revision].seeds
        /\ l.runs[r].parent # NoRun =>
              /\ l.runs[r].parent < r
              /\ l.runs[l.runs[r].parent].revision = l.runs[r].revision

CellsFit(l) ==
    \A c \in DOMAIN l.cells :
        /\ l.cells[c].run \in DOMAIN l.runs
        /\ l.cells[c].cell \in CellsOf(l.runs[l.cells[c].run].suite)

\* A selection names a run and a cell of that run.
Selects(sel, l) ==
    sel.run # NoRun =>
        /\ sel.run \in DOMAIN l.runs
        /\ sel.cell # NoCell =>
              sel.cell \in DOMAIN l.cells /\ l.cells[sel.cell].run = sel.run

Sound(l) == l \in LedgerRecord /\ RunsFit(l) /\ CellsFit(l) /\ Selects(l.selection, l)

\* The place selected on d is that of the cell.
Selected(d, cell) ==
    /\ d.selected # Unselected
    /\ d.selected[1] \in DOMAIN d.suite.seeds
    /\ d.suite.seeds[d.selected[1]] = cell.seed
    /\ Horizons[d.selected[2]] = cell.horizon

Shows(d, l) ==
    /\ d \in Display
    /\ d.waiting => d.inspector = Nothing
    /\ d.suite # Nothing =>
          /\ d.run \in DOMAIN l.runs
          /\ l.runs[d.run].suite = d.suite
          /\ d.inspector # Nothing =>
                /\ \E c \in DOMAIN l.cells : l.cells[c] = [run |-> d.run, cell |-> d.inspector]
                /\ Selected(d, d.inspector)

Records == Sound(ledger) /\ Shows(display, ledger)

-----------------------------------------------------------------------------
(* The requests of a kind in the queue rq and among the replies rp.        *)

Free(rq, rp, kind) ==
    /\ \A i \in DOMAIN rq : rq[i].kind # kind
    /\ \A j \in DOMAIN rp : rp[j].request.kind # kind

Alone(rq, rp, kind) ==
    /\ \A i, j \in DOMAIN rq : rq[i].kind = kind /\ rq[j].kind = kind => i = j
    /\ \A i, j \in DOMAIN rp : rp[i].request.kind = kind /\ rp[j].request.kind = kind => i = j
    /\ \A i \in DOMAIN rq, j \in DOMAIN rp : ~(rq[i].kind = kind /\ rp[j].request.kind = kind)

\* At most one is with the engine, and none unless the flag is set.
Coalesced(rq, rp, kind, flag) ==
    Alone(rq, rp, kind) /\ (flag \/ Free(rq, rp, kind))

Queue(rq, rp, pending, computing) ==
    /\ rq \in Seq(Asked) /\ rp \in Seq(Answer)
    /\ Coalesced(rq, rp, "field", pending)
    /\ Coalesced(rq, rp, "suite", computing)

Queues == Queue(requests, replies, field.pending, running)

IInv == Shape /\ Records /\ Queues

-----------------------------------------------------------------------------
(* Numbers and sequences.                                                  *)

\* A set of numbers that is not empty has a smallest one.
LEMMA HasSmallest ==
    ASSUME NEW S \in SUBSET Nat, S # {}
    PROVE  \E x \in S : \A y \in S : x <= y
<1>1. PICK x \in S : \A y \in S : ~(<<y, x>> \in OpToRel(<, Nat))
  BY NatLessThanWellFounded, WFMin
<1>2. \A y \in S : ~(y < x)
  BY <1>1 DEF OpToRel
<1> QED BY <1>2

LEMMA MinIsElement ==
    ASSUME NEW S \in SUBSET Nat, S # {}
    PROVE  Min(S) \in S
BY HasSmallest DEF Min

\* A set of numbers with a bound has a largest one.
LEMMA MaxIsElement ==
    ASSUME NEW n \in Nat, NEW S \in SUBSET (1 .. n), S # {}
    PROVE  Max(S) \in S
<1> DEFINE T == {n - x : x \in S}
<1>0. \A x \in S : x \in Nat /\ n - x \in Nat
  OBVIOUS
<1>1. T \in SUBSET Nat /\ T # {}
  BY <1>0
<1>2. PICK t \in T : \A u \in T : t <= u
  BY <1>1, HasSmallest
<1>3. PICK x \in S : t = n - x
  BY <1>2
<1>4. ASSUME NEW y \in S PROVE x >= y
  <2>1. t <= n - y
    BY <1>2
  <2> QED BY <1>0, <1>3, <2>1
<1> QED BY <1>4 DEF Max

\* A place that was found holds what was looked for, and what is there is found.
LEMMA IndexFinds ==
    ASSUME NEW S, NEW seq \in Seq(S), NEW x
    PROVE  /\ IndexIn(seq, x) \in Nat
           /\ IndexIn(seq, x) # 0 =>
                 IndexIn(seq, x) \in DOMAIN seq /\ seq[IndexIn(seq, x)] = x
           /\ (\E i \in DOMAIN seq : seq[i] = x) => IndexIn(seq, x) # 0
<1> DEFINE I == {i \in 1 .. Len(seq) : seq[i] = x}
<1>1. IndexIn(seq, x) = IF I # {} THEN Min(I) ELSE 0
  BY DEF IndexIn, SelectInSeq
<1>2. I \in SUBSET Nat /\ DOMAIN seq = 1 .. Len(seq)
  OBVIOUS
<1>3. I # {} => Min(I) \in I
  BY <1>2, MinIsElement
<1> QED BY <1>1, <1>2, <1>3

LEMMA Appending ==
    ASSUME NEW S, NEW s \in Seq(S), NEW x \in S
    PROVE  /\ Append(s, x) \in Seq(S)
           /\ Len(s) \in Nat
           /\ DOMAIN s = 1 .. Len(s)
           /\ DOMAIN Append(s, x) = 1 .. Len(s) + 1
           /\ Len(Append(s, x)) = Len(s) + 1
           /\ \A i \in 1 .. Len(s) : Append(s, x)[i] = s[i]
           /\ Append(s, x)[Len(s) + 1] = x
BY AppendProperties

LEMMA Dropping ==
    ASSUME NEW S, NEW s \in Seq(S), s # <<>>
    PROVE  /\ Tail(s) \in Seq(S)
           /\ Head(s) \in S /\ Head(s) = s[1] /\ 1 \in DOMAIN s
           /\ Len(s) \in Nat /\ Len(s) >= 1
           /\ DOMAIN s = 1 .. Len(s)
           /\ DOMAIN Tail(s) = 1 .. Len(s) - 1
           /\ \A i \in 1 .. Len(s) - 1 : Tail(s)[i] = s[i + 1]
BY HeadTailProperties

-----------------------------------------------------------------------------
(* Recording.                                                              *)

\* Nothing recorded is lost or changed.
Grows(l, m) ==
    /\ \A r \in DOMAIN l.runs : r \in DOMAIN m.runs /\ m.runs[r] = l.runs[r]
    /\ \A c \in DOMAIN l.cells : c \in DOMAIN m.cells /\ m.cells[c] = l.cells[c]

LEMMA LedgerFields ==
    ASSUME NEW l \in LedgerRecord
    PROVE  /\ l.revisions \in Seq(Contract) /\ l.runs \in Seq(Run) /\ l.cells \in Seq(Evidence)
           /\ DOMAIN l.revisions = 1 .. Len(l.revisions) /\ Len(l.revisions) \in Nat
           /\ DOMAIN l.runs = 1 .. Len(l.runs) /\ Len(l.runs) \in Nat
           /\ DOMAIN l.cells = 1 .. Len(l.cells) /\ Len(l.cells) \in Nat
           /\ l.reports \in SUBSET Report /\ l.bundled \in SUBSET Digests
           /\ l.selection \in [run : Nat, cell : Nat]
           /\ \A r \in DOMAIN l.runs : l.runs[r] \in Run
           /\ \A c \in DOMAIN l.cells : l.cells[c] \in Evidence
BY DEF LedgerRecord

LEMMA NothingSelected ==
    ASSUME NEW l PROVE Selects(NoSelection, l) /\ NoSelection \in [run : Nat, cell : Nat]
BY DEF Selects, NoSelection, NoRun, NoCell

\* A revision leaves what was recorded as it is.
LEMMA RevisedSound ==
    ASSUME NEW l, Sound(l), NEW contract \in Contract, NEW clear
    PROVE  LET r == Revised(l, contract, clear)
           IN  /\ Sound(r) /\ r.runs = l.runs /\ r.cells = l.cells
               /\ r.revisions # <<>> /\ Last(r.revisions) = contract
<1> DEFINE revisions == IF l.revisions # <<>> /\ Last(l.revisions) = contract
                        THEN l.revisions ELSE Append(l.revisions, contract)
           selection == IF clear THEN NoSelection ELSE l.selection
           r == [l EXCEPT !.revisions = revisions, !.selection = selection]
<1>1. Revised(l, contract, clear) = r
  BY DEF Revised
<1>2. l \in LedgerRecord /\ RunsFit(l) /\ CellsFit(l) /\ Selects(l.selection, l)
  BY DEF Sound
<1>3. /\ revisions \in Seq(Contract) /\ revisions # <<>> /\ Last(revisions) = contract
      /\ \A i \in DOMAIN l.revisions :
            i \in DOMAIN revisions /\ revisions[i] = l.revisions[i]
  <2>1. CASE l.revisions # <<>> /\ Last(l.revisions) = contract
    BY <1>2, <2>1, LedgerFields
  <2>2. CASE ~(l.revisions # <<>> /\ Last(l.revisions) = contract)
    <3>1. /\ revisions = Append(l.revisions, contract) /\ l.revisions \in Seq(Contract)
      BY <1>2, <2>2, LedgerFields
    <3> HIDE DEF revisions
    <3>2. /\ revisions \in Seq(Contract) /\ Len(revisions) = Len(l.revisions) + 1
          /\ DOMAIN l.revisions = 1 .. Len(l.revisions) /\ Len(l.revisions) \in Nat
          /\ DOMAIN revisions = 1 .. Len(l.revisions) + 1
          /\ \A i \in 1 .. Len(l.revisions) : revisions[i] = l.revisions[i]
          /\ revisions[Len(l.revisions) + 1] = contract
      BY <3>1, Appending
    <3> QED BY <3>2 DEF Last
  <2> QED BY <2>1, <2>2
<1>4. selection \in [run : Nat, cell : Nat] /\ Selects(selection, l)
  BY <1>2, LedgerFields, NothingSelected
<1> HIDE DEF revisions, selection
<1>5. /\ r \in LedgerRecord /\ r.runs = l.runs /\ r.cells = l.cells
      /\ r.revisions = revisions /\ r.selection = selection
  BY <1>2, <1>3, <1>4 DEF LedgerRecord
<1> HIDE DEF r
<1>6. RunsFit(r)
  BY <1>2, <1>3, <1>5 DEF RunsFit
<1>7. CellsFit(r) /\ Selects(r.selection, r)
  BY <1>2, <1>4, <1>5 DEF CellsFit, Selects
<1> QED BY <1>1, <1>3, <1>5, <1>6, <1>7 DEF Sound

\* Changes of the bundled content and of the wholeness of the objects are no
\* changes of the records.
LEMMA ContentApart ==
    ASSUME NEW l, Sound(l), NEW bundled \in SUBSET Digests
    PROVE  /\ Sound([l EXCEPT !.bundled = bundled])
           /\ [l EXCEPT !.bundled = bundled].runs = l.runs
           /\ [l EXCEPT !.bundled = bundled].cells = l.cells
           /\ [l EXCEPT !.bundled = bundled].revisions = l.revisions
           /\ Sound([l EXCEPT !.whole = FALSE])
           /\ [l EXCEPT !.whole = FALSE].runs = l.runs
           /\ [l EXCEPT !.whole = FALSE].cells = l.cells
<1> DEFINE b == [l EXCEPT !.bundled = bundled]
           w == [l EXCEPT !.whole = FALSE]
<1>1. l \in LedgerRecord /\ RunsFit(l) /\ CellsFit(l) /\ Selects(l.selection, l)
  BY DEF Sound
<1>2. /\ b \in LedgerRecord /\ b.runs = l.runs /\ b.cells = l.cells
      /\ b.revisions = l.revisions /\ b.selection = l.selection
  BY <1>1 DEF LedgerRecord
<1>3. /\ w \in LedgerRecord /\ w.runs = l.runs /\ w.cells = l.cells
      /\ w.revisions = l.revisions /\ w.selection = l.selection
  BY <1>1 DEF LedgerRecord
<1> HIDE DEF b, w
<1>4. Sound(b) /\ Sound(w)
  BY <1>1, <1>2, <1>3 DEF Sound, RunsFit, CellsFit, Selects
<1> QED BY <1>2, <1>3, <1>4 DEF b, w

LEMMA PreparedSound ==
    ASSUME NEW l, Sound(l), NEW inp \in Suite, NEW inv \in Inventory, NEW clear,
           NEW p \in Prepared(l, inp, inv, clear)
    PROVE  /\ Sound(p.ledger) /\ p.ledger.runs = l.runs /\ p.ledger.cells = l.cells
           /\ p.ok => /\ p.ledger.revisions # <<>>
                      /\ Last(p.ledger.revisions) = ContractOf(inp, inv)
<1> DEFINE digest == inv[inp.model]
           contract == ContractOf(inp, inv)
           revised == Revised(l, contract, clear)
           bundled == [revised EXCEPT !.bundled = @ \cup {digest}]
<1>1. CASE p = Outcome(FALSE, l)
  BY <1>1 DEF Outcome
<1>2. CASE p # Outcome(FALSE, l)
  <2>1. /\ digest # Nothing
        /\ p \in {Outcome(TRUE, revised), Outcome(FALSE, revised), Outcome(TRUE, bundled)}
    BY <1>2 DEF Prepared, IsVerified
  <2>2. contract \in Contract /\ digest \in Digests
    BY <2>1 DEF ContractOf, Contract, Suite, Inventory
  <2> HIDE DEF contract, digest
  <2>3. /\ Sound(revised) /\ revised.runs = l.runs /\ revised.cells = l.cells
        /\ revised.revisions # <<>> /\ Last(revised.revisions) = contract
    BY <2>2, RevisedSound
  <2>4. revised.bundled \cup {digest} \in SUBSET Digests
    BY <2>2, <2>3, LedgerFields DEF Sound
  <2> HIDE DEF revised
  <2>5. /\ Sound(bundled) /\ bundled.runs = revised.runs /\ bundled.cells = revised.cells
        /\ bundled.revisions = revised.revisions
    BY <2>3, <2>4, ContentApart
  <2> HIDE DEF bundled
  <2> QED BY <2>1, <2>3, <2>5 DEF Outcome, contract
<1> QED BY <1>1, <1>2

LEMMA PreparedGrows ==
    ASSUME NEW l, Sound(l), NEW inp \in Suite, NEW inv \in Inventory, NEW clear,
           NEW p \in Prepared(l, inp, inv, clear)
    PROVE  Sound(p.ledger) /\ Grows(l, p.ledger)
BY PreparedSound DEF Grows

\* A run is recorded under the revision it repeats.
LEMMA WithRunSound ==
    ASSUME NEW l, Sound(l), NEW suite \in Suite, l.revisions # <<>>,
           suite.model = Last(l.revisions).model, suite.seeds = Last(l.revisions).seeds
    PROVE  LET m == WithRun(l, suite)
           IN  /\ Sound(m) /\ Grows(l, m)
               /\ Len(m.runs) \in DOMAIN m.runs /\ Len(m.runs) # NoRun
               /\ m.runs[Len(m.runs)].suite = suite
<1> DEFINE n == Len(l.runs) + 1
           revision == Len(l.revisions)
           parent == LatestRunOf(l, revision)
           run == [revision |-> revision, suite |-> suite, parent |-> parent]
           runs == Append(l.runs, run)
           selection == [run |-> n, cell |-> NoCell]
           m == [l EXCEPT !.runs = runs, !.selection = selection]
<1>1. WithRun(l, suite) = m
  BY DEF WithRun
<1>2. l \in LedgerRecord /\ RunsFit(l) /\ CellsFit(l) /\ Selects(l.selection, l)
  BY DEF Sound
<1>3. revision \in DOMAIN l.revisions /\ l.revisions[revision] = Last(l.revisions)
  BY <1>2, LedgerFields DEF Last
<1>4. /\ parent \in Nat
      /\ parent # NoRun => /\ parent \in DOMAIN l.runs
                           /\ l.runs[parent].revision = revision
  <2> DEFINE own == {r \in DOMAIN l.runs : l.runs[r].revision = revision}
  <2>1. own \in SUBSET (1 .. Len(l.runs)) /\ Len(l.runs) \in Nat
    BY <1>2, LedgerFields
  <2>2. own # {} => Max(own) \in own
    BY <2>1, MaxIsElement
  <2>3. parent = IF own = {} THEN NoRun ELSE Max(own)
    BY DEF LatestRunOf
  <2> HIDE DEF own, parent
  <2>4. own \subseteq Nat
    BY <2>1
  <2>5. parent # NoRun => parent \in own
    BY <2>2, <2>3
  <2>6. parent \in Nat
    BY <2>2, <2>3, <2>4 DEF NoRun
  <2> QED BY <2>5, <2>6 DEF own
<1> HIDE DEF parent
<1>5. run \in Run /\ revision \in Nat
  BY <1>2, <1>4, LedgerFields DEF Run
<1> HIDE DEF run
<1>6. /\ runs \in Seq(Run) /\ Len(l.runs) \in Nat
      /\ DOMAIN l.runs = 1 .. Len(l.runs) /\ DOMAIN runs = 1 .. n /\ Len(runs) = n
      /\ \A r \in 1 .. Len(l.runs) : runs[r] = l.runs[r]
      /\ runs[n] = run
  BY <1>2, <1>5, LedgerFields, Appending
<1> HIDE DEF runs
<1>7. selection \in [run : Nat, cell : Nat]
  BY <1>6 DEF NoCell
<1>8. /\ m \in LedgerRecord /\ m.runs = runs /\ m.cells = l.cells
      /\ m.revisions = l.revisions /\ m.selection = selection
  BY <1>2, <1>6, <1>7 DEF LedgerRecord
<1> HIDE DEF m
<1>9. RunsFit(m)
  <2> SUFFICES ASSUME NEW r \in DOMAIN m.runs
               PROVE  /\ m.runs[r].revision \in DOMAIN m.revisions
                      /\ m.runs[r].suite.model = m.revisions[m.runs[r].revision].model
                      /\ m.runs[r].suite.seeds = m.revisions[m.runs[r].revision].seeds
                      /\ m.runs[r].parent # NoRun =>
                            /\ m.runs[r].parent < r
                            /\ m.runs[m.runs[r].parent].revision = m.runs[r].revision
    BY DEF RunsFit
  <2>1. CASE r \in DOMAIN l.runs
    <3>1. /\ m.runs[r] = l.runs[r] /\ l.runs[r] \in Run /\ r \in 1 .. Len(l.runs)
      BY <1>2, <1>6, <1>8, <2>1, LedgerFields
    <3>2. l.runs[r].parent # NoRun => l.runs[r].parent \in 1 .. Len(l.runs)
      BY <1>2, <1>6, <2>1, <3>1 DEF RunsFit, Run, NoRun
    <3> QED BY <1>2, <1>6, <1>8, <2>1, <3>1, <3>2 DEF RunsFit
  <2>2. CASE r = n
    <3>1. m.runs[r] = run /\ m.revisions = l.revisions
      BY <1>6, <1>8, <2>2
    <3>2. run.revision = revision /\ run.suite = suite /\ run.parent = parent
      BY DEF run
    <3>3. parent # NoRun => parent < n /\ m.runs[parent].revision = revision
      BY <1>4, <1>6, <1>8
    <3> QED BY <1>3, <2>2, <3>1, <3>2, <3>3
  <2> QED BY <1>6, <1>8, <2>1, <2>2
<1>10. Grows(l, m)
  BY <1>6, <1>8 DEF Grows
<1>11. CellsFit(m)
  BY <1>2, <1>8, <1>10 DEF CellsFit, Grows
<1>12. Selects(m.selection, m)
  BY <1>6, <1>8 DEF Selects, NoCell
<1>13. m.runs[n].suite = suite
  BY <1>6, <1>8 DEF run
<1> QED BY <1>1, <1>2, <1>6, <1>8, <1>9, <1>10, <1>11, <1>12, <1>13 DEF Sound, NoRun

\* An append of records may fail before or after the ledger has them.
LEMMA AppendedSound ==
    ASSUME NEW before, NEW after, Sound(before), Sound(after), Grows(before, after),
           NEW o \in Appended(before, after)
    PROVE  /\ Sound(o.ledger) /\ Grows(before, o.ledger)
           /\ o.ok => o.ledger = after
<1>1. Grows(before, before)
  BY DEF Grows
<1>2. CASE o = Outcome(FALSE, before)
  BY <1>1, <1>2 DEF Outcome
<1>3. CASE o = Outcome(FALSE, [after EXCEPT !.whole = FALSE])
  <2>1. Sound([after EXCEPT !.whole = FALSE]) /\ Grows(before, [after EXCEPT !.whole = FALSE])
    <3>1. {} \in SUBSET Digests
      OBVIOUS
    <3>2. /\ Sound([after EXCEPT !.whole = FALSE])
          /\ [after EXCEPT !.whole = FALSE].runs = after.runs
          /\ [after EXCEPT !.whole = FALSE].cells = after.cells
      BY <3>1, ContentApart
    <3> QED BY <3>2 DEF Grows
  <2>2. o.ledger = [after EXCEPT !.whole = FALSE] /\ ~o.ok
    BY <1>3 DEF Outcome
  <2> QED BY <2>1, <2>2
<1>4. CASE o = Outcome(TRUE, after)
  BY <1>4 DEF Outcome
<1> QED BY <1>2, <1>3, <1>4 DEF Appended

\* A suite that is still what the controls say becomes a run of their revision.
LEMMA RunRecordedSound ==
    ASSUME Shape, Sound(ledger), NEW suite \in Suite, IsCurrent(suite),
           NEW o \in RunRecorded(suite)
    PROVE  /\ Sound(o.ledger) /\ Grows(ledger, o.ledger)
           /\ o.ok => /\ ~readOnly
                      /\ Len(o.ledger.runs) \in DOMAIN o.ledger.runs
                      /\ Len(o.ledger.runs) # NoRun
                      /\ o.ledger.runs[Len(o.ledger.runs)].suite = suite
<1>1. PICK p \in Prepared(ledger, inputs, models, FALSE) :
         o \in IF p.ok THEN Appended(p.ledger, WithRun(p.ledger, suite)) ELSE {p}
  BY DEF RunRecorded
<1>2. inputs \in Suite /\ models \in Inventory
  BY DEF Shape
<1>3. /\ Sound(p.ledger) /\ p.ledger.runs = ledger.runs /\ p.ledger.cells = ledger.cells
      /\ p.ok => /\ p.ledger.revisions # <<>>
                 /\ Last(p.ledger.revisions) = ContractOf(inputs, models)
  BY <1>1, <1>2, PreparedSound
<1>4. p.ok => ~readOnly
  <2>1. readOnly => p = Outcome(FALSE, ledger)
    BY <1>1 DEF Prepared
  <2> QED BY <2>1 DEF Outcome
<1>5. CASE ~p.ok
  BY <1>1, <1>3, <1>5 DEF Grows
<1>6. CASE p.ok
  <2>1. /\ suite.model = Last(p.ledger.revisions).model
        /\ suite.seeds = Last(p.ledger.revisions).seeds
    BY <1>3, <1>6 DEF IsCurrent, ContractOf
  <2> DEFINE m == WithRun(p.ledger, suite)
  <2>2. /\ Sound(m) /\ Grows(p.ledger, m)
        /\ Len(m.runs) \in DOMAIN m.runs /\ Len(m.runs) # NoRun
        /\ m.runs[Len(m.runs)].suite = suite
    BY <1>3, <1>6, <2>1, WithRunSound
  <2>3. o \in Appended(p.ledger, m)
    BY <1>1, <1>6
  <2> HIDE DEF m
  <2>4. Sound(o.ledger) /\ Grows(p.ledger, o.ledger) /\ (o.ok => o.ledger = m)
    BY <1>3, <2>2, <2>3, AppendedSound
  <2>5. Grows(ledger, o.ledger)
    BY <1>3, <2>4 DEF Grows
  <2> QED BY <1>4, <1>6, <2>2, <2>4, <2>5
<1> QED BY <1>5, <1>6

\* The selected cell becomes evidence of the run on display.
LEMMA CellRecordedSound ==
    ASSUME Records, NEW cell \in Cell, IsSelected(cell), NEW o \in CellRecorded(cell)
    PROVE  /\ Sound(o.ledger) /\ Grows(ledger, o.ledger)
           /\ o.ok => \E c \in DOMAIN o.ledger.cells :
                         o.ledger.cells[c] = [run |-> display.run, cell |-> cell]
<1> DEFINE evidence == [run |-> display.run, cell |-> cell]
           n == Len(ledger.cells) + 1
           cells == Append(ledger.cells, evidence)
           selection == [run |-> display.run, cell |-> n]
           m == [ledger EXCEPT !.cells = cells, !.selection = selection]
<1>1. /\ ledger \in LedgerRecord /\ RunsFit(ledger) /\ CellsFit(ledger)
      /\ Selects(ledger.selection, ledger)
  BY DEF Records, Sound
<1>2. /\ display \in Display /\ display.suite # Nothing
      /\ display.run \in DOMAIN ledger.runs /\ display.run \in Nat /\ display.run # NoRun
      /\ ledger.runs[display.run].suite = display.suite
  <2>1. display.suite # Nothing /\ Shows(display, ledger)
    BY DEF IsSelected, Records
  <2>2. DOMAIN ledger.runs = 1 .. Len(ledger.runs) /\ Len(ledger.runs) \in Nat
    BY <1>1, LedgerFields
  <2> QED BY <2>1, <2>2 DEF Shows, NoRun
<1>3. cell \in CellsOf(display.suite)
  <2>1. /\ display.selected \in Places /\ display.selected # Unselected
        /\ display.selected[1] \in DOMAIN display.suite.seeds
        /\ display.suite.seeds[display.selected[1]] = cell.seed
        /\ Horizons[display.selected[2]] = cell.horizon
    BY <1>2 DEF IsSelected, Display
  <2>2. display.selected[2] \in DOMAIN Horizons
    BY <2>1 DEF Places
  <2> QED BY <2>1, <2>2 DEF CellsOf, Cell
<1>4. evidence \in Evidence
  BY <1>2 DEF Evidence
<1> HIDE DEF evidence
<1>5. /\ cells \in Seq(Evidence) /\ Len(ledger.cells) \in Nat
      /\ DOMAIN ledger.cells = 1 .. Len(ledger.cells) /\ DOMAIN cells = 1 .. n
      /\ \A c \in 1 .. Len(ledger.cells) : cells[c] = ledger.cells[c]
      /\ cells[n] = evidence
  BY <1>1, <1>4, LedgerFields, Appending
<1> HIDE DEF cells
<1>6. selection \in [run : Nat, cell : Nat]
  BY <1>2, <1>5
<1>7. /\ m \in LedgerRecord /\ m.runs = ledger.runs /\ m.cells = cells
      /\ m.revisions = ledger.revisions /\ m.selection = selection
  BY <1>1, <1>5, <1>6 DEF LedgerRecord
<1> HIDE DEF m
<1>8. RunsFit(m)
  BY <1>1, <1>7 DEF RunsFit
<1>9. CellsFit(m)
  <2> SUFFICES ASSUME NEW c \in DOMAIN m.cells
               PROVE  /\ m.cells[c].run \in DOMAIN m.runs
                      /\ m.cells[c].cell \in CellsOf(m.runs[m.cells[c].run].suite)
    BY DEF CellsFit
  <2>1. CASE c \in DOMAIN ledger.cells
    BY <1>1, <1>5, <1>7, <2>1 DEF CellsFit
  <2>2. CASE c = n
    <3>1. m.cells[c].run = display.run /\ m.cells[c].cell = cell
      BY <1>5, <1>7, <2>2 DEF evidence
    <3> QED BY <1>2, <1>3, <1>7, <3>1
  <2> QED BY <1>5, <1>7, <2>1, <2>2
<1>10. Selects(m.selection, m)
  <2>1. m.cells[n].run = display.run /\ n \in DOMAIN m.cells
    BY <1>5, <1>7 DEF evidence
  <2> QED BY <1>2, <1>7, <2>1 DEF Selects
<1>11. Sound(m) /\ Grows(ledger, m)
  BY <1>5, <1>7, <1>8, <1>9, <1>10 DEF Sound, Grows
<1>12. o = Outcome(FALSE, ledger) \/ o \in Appended(ledger, m)
  BY <1>2 DEF CellRecorded, m, cells, evidence
<1>13. CASE o = Outcome(FALSE, ledger)
  BY <1>1, <1>13 DEF Outcome, Sound, Grows
<1>14. CASE o \in Appended(ledger, m)
  <2>1. Sound(o.ledger) /\ Grows(ledger, o.ledger) /\ (o.ok => o.ledger = m)
    BY <1>11, <1>14, AppendedSound DEF Records
  <2>2. n \in DOMAIN m.cells /\ m.cells[n] = [run |-> display.run, cell |-> cell]
    BY <1>5, <1>7 DEF evidence
  <2> QED BY <2>1, <2>2
<1> QED BY <1>12, <1>13, <1>14

-----------------------------------------------------------------------------
(* Showing.                                                                *)

\* What is shown stays recorded while the ledger grows.
LEMMA ShowsMore ==
    ASSUME NEW d, NEW l, NEW m, Shows(d, l), Grows(l, m)
    PROVE  Shows(d, m)
<1>1. d.suite # Nothing => d.run \in DOMAIN m.runs /\ m.runs[d.run].suite = d.suite
  BY DEF Shows, Grows
<1>2. ASSUME d.suite # Nothing, d.inspector # Nothing
      PROVE  \E c \in DOMAIN m.cells : m.cells[c] = [run |-> d.run, cell |-> d.inspector]
  BY <1>2 DEF Shows, Grows
<1> QED BY <1>1, <1>2 DEF Shows

LEMMA BlankShows ==
    ASSUME NEW l PROVE Shows(Blank, l) /\ Blank \in Display
BY DEF Shows, Blank, Display, Places, NoRun

\* A selection of the ledger brings on display what is recorded.
LEMMA HydratedShows ==
    ASSUME NEW l, Sound(l), NEW sel \in [run : Nat, cell : Nat], Selects(sel, l)
    PROVE  /\ Shows(Hydrated(l, sel), l)
           /\ sel.run # NoRun => l.runs[sel.run].suite \in Suite
<1>1. l \in LedgerRecord /\ CellsFit(l)
  BY DEF Sound
<1>2. CASE sel.run = NoRun
  BY <1>2, BlankShows DEF Hydrated
<1>3. CASE sel.run # NoRun
  <2> DEFINE suite == l.runs[sel.run].suite
             shown == [Blank EXCEPT !.suite = suite, !.run = sel.run]
  <2>1. /\ sel.run \in DOMAIN l.runs /\ suite \in Suite /\ sel.run \in Nat
        /\ sel.cell # NoCell =>
              sel.cell \in DOMAIN l.cells /\ l.cells[sel.cell].run = sel.run
    BY <1>1, <1>3, LedgerFields DEF Selects, Run
  <2> HIDE DEF suite
  <2>2. /\ shown \in Display /\ shown.suite = suite /\ shown.run = sel.run
        /\ shown.inspector = Nothing /\ shown.waiting = FALSE
    BY <2>1 DEF Display, Blank, Places
  <2> HIDE DEF shown
  <2>3. CASE sel.cell = NoCell
    <3>1. Hydrated(l, sel) = shown
      BY <1>3, <2>3 DEF Hydrated, suite, shown
    <3> QED BY <2>1, <2>2, <3>1 DEF Shows, suite
  <2>4. CASE sel.cell # NoCell
    <3> DEFINE cell == l.cells[sel.cell].cell
               i == IndexIn(suite.seeds, cell.seed)
               j == IndexIn(Horizons, cell.horizon)
               place == IF i = 0 \/ j = 0 THEN Unselected ELSE <<i, j>>
               d == [shown EXCEPT !.inspector = cell, !.selected = place]
    <3>1. Hydrated(l, sel) = d
      BY <1>3, <2>4 DEF Hydrated, suite, shown
    <3>2. cell \in Cell /\ cell \in CellsOf(suite)
      BY <1>1, <2>1, <2>4, LedgerFields DEF CellsFit, Evidence, suite
    <3>3. suite.seeds \in Seq(Nat) /\ Horizons \in Seq(Nat)
      BY <2>1, BenchmarkAssumption DEF Suite
    <3> HIDE DEF cell
    <3>4. /\ \E x \in DOMAIN suite.seeds : suite.seeds[x] = cell.seed
          /\ \E x \in DOMAIN Horizons : Horizons[x] = cell.horizon
      BY <3>2 DEF CellsOf
    <3>5. i # 0 /\ i \in Nat /\ i \in DOMAIN suite.seeds /\ suite.seeds[i] = cell.seed
      BY <3>3, <3>4, IndexFinds
    <3>6. j # 0 /\ j \in DOMAIN Horizons /\ Horizons[j] = cell.horizon
      BY <3>3, <3>4, IndexFinds
    <3> HIDE DEF i, j
    <3>7. place = <<i, j>> /\ place \in Places /\ place # Unselected
      BY <3>5, <3>6 DEF Places, Unselected
    <3> HIDE DEF place
    <3>8. /\ d \in Display /\ d.suite = suite /\ d.run = sel.run /\ d.inspector = cell
          /\ d.selected = place /\ d.waiting = FALSE
      BY <2>2, <3>2, <3>7 DEF Display
    <3> HIDE DEF d
    <3>9. Selected(d, cell)
      BY <3>5, <3>6, <3>7, <3>8 DEF Selected
    <3>10. l.cells[sel.cell] = [run |-> sel.run, cell |-> cell] /\ sel.cell \in DOMAIN l.cells
      BY <1>1, <2>1, <2>4, LedgerFields DEF Evidence, cell
    <3> QED BY <2>1, <3>1, <3>8, <3>9, <3>10 DEF Shows, suite
  <2> QED BY <2>1, <2>3, <2>4 DEF suite
<1> QED BY <1>2, <1>3

\* A suite that is shown goes on being shown when a cell of it is selected.
LEMMA SelectOnShows ==
    ASSUME NEW l, NEW d \in Display, NEW at \in Nat \X DOMAIN Horizons, NEW up,
           d.run \in DOMAIN l.runs, l.runs[d.run].suite = d.suite,
           d.waiting => d.inspector = Nothing,
           ~readOnly \/ Shows(d, l),
           SelectOn(d, at, up)
    PROVE  Shows(display', l)
<1> DEFINE selected == [d EXCEPT !.selected = at, !.inspector = Nothing]
           waiting == [selected EXCEPT !.waiting = TRUE]
<1>1. at \in Places
  BY DEF Places
<1>2. /\ selected \in Display /\ selected.suite = d.suite /\ selected.run = d.run
      /\ selected.inspector = Nothing
      /\ waiting \in Display /\ waiting.suite = d.suite /\ waiting.run = d.run
      /\ waiting.inspector = Nothing
  BY <1>1 DEF Display
<1>3. \/ display' = d /\ (readOnly \/ d.waiting)
      \/ display' = selected
      \/ display' = waiting
  BY DEF SelectOn
<1> HIDE DEF selected, waiting
<1>4. CASE display' = d /\ (readOnly \/ d.waiting)
  BY <1>4 DEF Shows
<1>5. CASE display' = selected
  BY <1>2, <1>5 DEF Shows
<1>6. CASE display' = waiting
  BY <1>2, <1>6 DEF Shows
<1> QED BY <1>3, <1>4, <1>5, <1>6

-----------------------------------------------------------------------------
(* The queues.                                                             *)

LEMMA Positions ==
    ASSUME NEW S, NEW s \in Seq(S)
    PROVE  DOMAIN s = 1 .. Len(s) /\ Len(s) \in Nat
OBVIOUS

\* A request of another kind changes nothing; one of the kind may be sent if there
\* is none.
LEMMA QueueGrows ==
    ASSUME NEW rq \in Seq(Asked), NEW rp \in Seq(Answer), NEW q \in Asked,
           NEW kind, NEW flag, Coalesced(rq, rp, kind, flag)
    PROVE  /\ q.kind # kind => Coalesced(Append(rq, q), rp, kind, flag)
           /\ Free(rq, rp, kind) => Coalesced(Append(rq, q), rp, kind, TRUE)
<1> DEFINE s == Append(rq, q)
<1>1. /\ DOMAIN rq = 1 .. Len(rq) /\ Len(rq) \in Nat /\ DOMAIN s = 1 .. Len(rq) + 1
      /\ \A i \in 1 .. Len(rq) : s[i] = rq[i]
      /\ s[Len(rq) + 1] = q
  BY Appending
<1> HIDE DEF s
<1>2. ASSUME q.kind # kind
      PROVE  Alone(s, rp, kind) /\ (Free(rq, rp, kind) => Free(s, rp, kind))
  BY <1>1, <1>2 DEF Coalesced, Alone, Free
<1>3. ASSUME Free(rq, rp, kind)
      PROVE  Alone(s, rp, kind)
  BY <1>1, <1>3 DEF Alone, Free
<1> QED BY <1>2, <1>3 DEF Coalesced, s

\* A request is answered.
LEMMA QueueMoves ==
    ASSUME NEW rq \in Seq(Asked), NEW rp \in Seq(Answer), rq # <<>>, NEW a \in Answer,
           a.request = Head(rq), NEW kind, NEW flag, Coalesced(rq, rp, kind, flag)
    PROVE  Coalesced(Tail(rq), Append(rp, a), kind, flag)
<1> DEFINE s == Tail(rq)
           t == Append(rp, a)
<1>1. /\ DOMAIN rq = 1 .. Len(rq) /\ Len(rq) \in Nat /\ Len(rq) >= 1
      /\ DOMAIN s = 1 .. Len(rq) - 1
      /\ \A i \in 1 .. Len(rq) - 1 : s[i] = rq[i + 1]
      /\ a.request = rq[1]
  BY Dropping
<1>2. /\ DOMAIN rp = 1 .. Len(rp) /\ Len(rp) \in Nat /\ DOMAIN t = 1 .. Len(rp) + 1
      /\ \A i \in 1 .. Len(rp) : t[i] = rp[i]
      /\ t[Len(rp) + 1] = a
  BY Appending
<1> HIDE DEF s, t
<1>3. /\ \A i \in DOMAIN s : i \in Nat /\ i + 1 \in DOMAIN rq /\ i + 1 # 1 /\ s[i] = rq[i + 1]
      /\ 1 \in DOMAIN rq
      /\ \A j \in DOMAIN t : \/ j \in DOMAIN rp /\ t[j] = rp[j]
                             \/ j = Len(rp) + 1 /\ t[j].request = rq[1]
  BY <1>1, <1>2
<1>4. Alone(s, t, kind)
  <2>1. ASSUME NEW i \in DOMAIN s, NEW j \in DOMAIN s, s[i].kind = kind, s[j].kind = kind
        PROVE  i = j
    <3>1. i + 1 = j + 1
      BY <1>3, <2>1 DEF Coalesced, Alone
    <3> QED BY <1>3, <3>1
  <2>2. ASSUME NEW i \in DOMAIN t, NEW j \in DOMAIN t,
               t[i].request.kind = kind, t[j].request.kind = kind
        PROVE  i = j
    BY <1>3, <2>2 DEF Coalesced, Alone
  <2>3. ASSUME NEW i \in DOMAIN s, NEW j \in DOMAIN t, s[i].kind = kind, t[j].request.kind = kind
        PROVE  FALSE
    <3>1. i + 1 \in DOMAIN rq /\ rq[i + 1].kind = kind /\ i + 1 # 1 /\ 1 \in DOMAIN rq
      BY <1>3, <2>3
    <3>2. CASE j \in DOMAIN rp /\ t[j] = rp[j]
      BY <2>3, <3>1, <3>2 DEF Coalesced, Alone
    <3>3. CASE t[j].request = rq[1]
      BY <2>3, <3>1, <3>3 DEF Coalesced, Alone
    <3> QED BY <1>3, <3>2, <3>3
  <2> QED BY <2>1, <2>2, <2>3 DEF Alone
<1>5. Free(rq, rp, kind) => Free(s, t, kind)
  BY <1>3 DEF Free
<1> QED BY <1>4, <1>5 DEF Coalesced, s, t

\* A reply is taken; if it was of the kind, there is none left.
LEMMA QueueTaken ==
    ASSUME NEW rq \in Seq(Asked), NEW rp \in Seq(Answer), rp # <<>>,
           NEW kind, NEW flag, Coalesced(rq, rp, kind, flag)
    PROVE  /\ Coalesced(rq, Tail(rp), kind, flag)
           /\ Head(rp).request.kind = kind => Free(rq, Tail(rp), kind)
<1> DEFINE t == Tail(rp)
<1>1. /\ DOMAIN rp = 1 .. Len(rp) /\ Len(rp) \in Nat /\ Len(rp) >= 1
      /\ DOMAIN t = 1 .. Len(rp) - 1
      /\ \A i \in 1 .. Len(rp) - 1 : t[i] = rp[i + 1]
      /\ Head(rp) = rp[1]
  BY Dropping
<1> HIDE DEF t
<1>2. /\ \A i \in DOMAIN t : i \in Nat /\ i + 1 \in DOMAIN rp /\ i + 1 # 1 /\ t[i] = rp[i + 1]
      /\ 1 \in DOMAIN rp
  BY <1>1
<1>3. Alone(rq, t, kind)
  <2>1. ASSUME NEW i \in DOMAIN t, NEW j \in DOMAIN t,
               t[i].request.kind = kind, t[j].request.kind = kind
        PROVE  i = j
    <3>1. i + 1 = j + 1
      BY <1>2, <2>1 DEF Coalesced, Alone
    <3> QED BY <1>2, <3>1
  <2>2. ASSUME NEW i \in DOMAIN rq, NEW j \in DOMAIN t, rq[i].kind = kind, t[j].request.kind = kind
        PROVE  FALSE
    <3>1. j + 1 \in DOMAIN rp /\ rp[j + 1].request.kind = kind
      BY <1>2, <2>2
    <3> QED BY <2>2, <3>1 DEF Coalesced, Alone
  <2> QED BY <2>1, <2>2 DEF Coalesced, Alone
<1>4. Free(rq, rp, kind) => Free(rq, t, kind)
  BY <1>2 DEF Free
<1>5. ASSUME rp[1].request.kind = kind PROVE Free(rq, t, kind)
  <2>1. ASSUME NEW j \in DOMAIN t, t[j].request.kind = kind PROVE FALSE
    <3>1. j + 1 \in DOMAIN rp /\ rp[j + 1].request.kind = kind /\ j + 1 # 1 /\ 1 \in DOMAIN rp
      BY <1>2, <2>1
    <3> QED BY <1>5, <3>1 DEF Coalesced, Alone
  <2>2. \A i \in DOMAIN rq : rq[i].kind # kind
    BY <1>2, <1>5 DEF Coalesced, Alone
  <2> QED BY <2>1, <2>2 DEF Free
<1> QED BY <1>1, <1>3, <1>4, <1>5 DEF Coalesced, t

\* A reply to nothing of the kind comes.
LEMMA QueueTold ==
    ASSUME NEW rq, NEW rp \in Seq(Answer), NEW a \in Answer,
           NEW kind, a.request.kind # kind, NEW flag, Coalesced(rq, rp, kind, flag)
    PROVE  Coalesced(rq, Append(rp, a), kind, flag)
<1> DEFINE t == Append(rp, a)
<1>1. /\ DOMAIN rp = 1 .. Len(rp) /\ Len(rp) \in Nat /\ DOMAIN t = 1 .. Len(rp) + 1
      /\ \A i \in 1 .. Len(rp) : t[i] = rp[i]
      /\ t[Len(rp) + 1] = a
  BY Appending
<1> HIDE DEF t
<1>2. Alone(rq, t, kind) /\ (Free(rq, rp, kind) => Free(rq, t, kind))
  BY <1>1 DEF Coalesced, Alone, Free
<1> QED BY <1>2 DEF Coalesced, t

\* The queue is lost.
LEMMA QueueCut ==
    ASSUME NEW rq, NEW rp, NEW kind, NEW flag, Coalesced(rq, rp, kind, flag)
    PROVE  Coalesced(<<>>, rp, kind, flag)
<1>1. DOMAIN <<>> = {}
  OBVIOUS
<1> QED BY <1>1 DEF Coalesced, Alone, Free

\* A flag that is set stays true to the queue.
LEMMA FlagSet ==
    ASSUME NEW rq, NEW rp, NEW kind, NEW flag, Coalesced(rq, rp, kind, flag)
    PROVE  /\ Coalesced(rq, rp, kind, TRUE)
           /\ Free(rq, rp, kind) => Coalesced(rq, rp, kind, FALSE)
BY DEF Coalesced

\* A new handle starts with no more than a list.
LEMMA QueueNew ==
    ASSUME NEW q \in Asked, q.kind = "list", NEW pending, NEW computing
    PROVE  Queue(<<q>>, <<>>, pending, computing) /\ Queue(<<>>, <<>>, pending, computing)
<1>1. DOMAIN <<>> = {} /\ <<>> \in Seq(Asked) /\ <<>> \in Seq(Answer) /\ <<q>> \in Seq(Asked)
      /\ DOMAIN <<q>> = {1} /\ <<q>>[1] = q
  OBVIOUS
<1> DEFINE one == <<q>>
<1> HIDE DEF one
<1>2. \A kind \in {"field", "suite"} : Free(one, <<>>, kind) /\ Alone(one, <<>>, kind)
                                       /\ Free(<<>>, <<>>, kind) /\ Alone(<<>>, <<>>, kind)
  BY <1>1 DEF Free, Alone, one
<1> QED BY <1>1, <1>2 DEF Queue, Coalesced, one

\* What q becomes of the queue when it is sent.
LEMMA SentQueue ==
    ASSUME NEW q \in Asked, requests \in Seq(Asked), NEW rp \in Seq(Answer),
           NEW pending, NEW computing, Queue(requests, rp, pending, computing)
    PROVE  /\ q.kind \notin {"field", "suite"} => Queue(Sent(q), rp, pending, computing)
           /\ q.kind = "field" /\ ~pending => Queue(Sent(q), rp, TRUE, computing)
           /\ q.kind = "suite" /\ ~computing => Queue(Sent(q), rp, pending, TRUE)
<1>1. /\ Coalesced(requests, rp, "field", pending)
      /\ Coalesced(requests, rp, "suite", computing)
  BY DEF Queue
<1>2. CASE Sent(q) = requests
  BY <1>1, <1>2, FlagSet DEF Queue
<1>3. CASE Sent(q) = Append(requests, q)
  <2>1. Append(requests, q) \in Seq(Asked)
    BY Appending
  <2>2. q.kind # "field" => Coalesced(Append(requests, q), rp, "field", pending)
    BY <1>1, QueueGrows
  <2>3. q.kind # "suite" => Coalesced(Append(requests, q), rp, "suite", computing)
    BY <1>1, QueueGrows
  <2>4. ~pending => Coalesced(Append(requests, q), rp, "field", TRUE)
    <3>1. rp \in Seq(Answer)
      BY DEF Queue
    <3>2. ~pending => Free(requests, rp, "field")
      BY <1>1 DEF Coalesced
    <3>3. Free(requests, rp, "field") =>
            Coalesced(Append(requests, q), rp, "field", TRUE)
      BY <1>1, <3>1, QueueGrows
    <3> QED BY <3>2, <3>3
  <2>5. ~computing => Coalesced(Append(requests, q), rp, "suite", TRUE)
    <3>1. rp \in Seq(Answer)
      BY DEF Queue
    <3>2. ~computing => Free(requests, rp, "suite")
      BY <1>1 DEF Coalesced
    <3>3. Free(requests, rp, "suite") =>
            Coalesced(Append(requests, q), rp, "suite", TRUE)
      BY <1>1, <3>1, QueueGrows
    <3> QED BY <3>2, <3>3
  <2> QED BY <1>3, <2>1, <2>2, <2>3, <2>4, <2>5 DEF Queue
<1> QED BY <1>2, <1>3 DEF Sent

-----------------------------------------------------------------------------
(* What is asked and answered.                                             *)

LEMMA AskedFor ==
    /\ \A m \in Models :
          /\ Request("field", m, Nothing) \in Asked
          /\ \A seeds \in SeedLists : Request("suite", m, seeds) \in Asked
          /\ \A cell \in Cell : Request("cell", m, cell) \in Asked
    /\ NoRequest \in Asked
    /\ [Request("list", Nothing, Nothing) EXCEPT !.id = 1] \in Asked
BY DEF Asked, Request, NoRequest

\* An id that no request in flight has: fewer are in flight than there are ids.
LEMMA FreshId ==
    ASSUME requests \in Seq(Asked), replies \in Seq(Answer), Room
    PROVE  \E n \in 1 .. (MaxQueue + 1) : \A q \in InFlight : q.id # n
<1> DEFINE lq == Len(requests)
           lp == Len(replies)
           id(i) == IF i <= lq THEN requests[i].id ELSE replies[i - lq].request.id
<1>1. lq \in Nat /\ lp \in Nat /\ MaxQueue \in Nat /\ lq + lp < MaxQueue
  BY BenchmarkAssumption DEF Room
<1>2. DOMAIN requests = 1 .. lq /\ DOMAIN replies = 1 .. lp
  OBVIOUS
<1> SUFFICES ASSUME \A n \in 1 .. (MaxQueue + 1) : \E q \in InFlight : q.id = n
             PROVE  FALSE
  OBVIOUS
<1>3. \A n \in 1 .. (MaxQueue + 1) : \E i \in 1 .. (lq + lp) : id(i) = n
  <2> SUFFICES ASSUME NEW n \in 1 .. (MaxQueue + 1)
               PROVE  \E i \in 1 .. (lq + lp) : id(i) = n
    OBVIOUS
  <2>1. PICK q \in InFlight : q.id = n
    OBVIOUS
  <2>2. CASE \E i \in DOMAIN requests : q = requests[i]
    <3>1. PICK i \in 1 .. lq : q = requests[i]
      BY <1>2, <2>2
    <3>2. id(i) = n /\ i \in 1 .. (lq + lp)
      BY <1>1, <2>1, <3>1
    <3> QED BY <3>2
  <2>3. CASE \E j \in DOMAIN replies : q = replies[j].request
    <3>1. PICK j \in 1 .. lp : q = replies[j].request
      BY <1>2, <2>3
    <3>2. lq + j \in 1 .. (lq + lp) /\ ~(lq + j <= lq) /\ (lq + j) - lq = j
      BY <1>1
    <3>3. id(lq + j) = n
      BY <2>1, <3>1, <3>2
    <3> QED BY <3>2, <3>3
  <2> QED BY <2>2, <2>3 DEF InFlight
<1> HIDE DEF id
<1> DEFINE S == 1 .. (MaxQueue + 1)
           T == 1 .. (lq + lp)
           f == [n \in S |-> CHOOSE i \in T : id(i) = n]
<1>4. \A n \in S : f[n] \in T /\ id(f[n]) = n
  BY <1>3
<1>5. f \in [S -> T]
  BY <1>4
<1>6. IsFiniteSet(S) /\ Cardinality(S) = MaxQueue + 1
  BY <1>1, FS_Interval
<1>7. IsFiniteSet(T) /\ Cardinality(T) = lq + lp
  BY <1>1, FS_Interval
<1> HIDE DEF S, T, f
<1>8. Cardinality(T) < Cardinality(S)
  BY <1>1, <1>6, <1>7
<1>9. \E x, y \in S : x # y /\ f[x] = f[y]
  BY <1>5, <1>6, <1>7, <1>8, FS_PigeonHole
<1> QED BY <1>4, <1>9

\* A library request is well formed, its id is fresh.
LEMMA LibraryAsked ==
    ASSUME requests \in Seq(Asked), replies \in Seq(Answer), Room
    PROVE  /\ LibraryRequest("list", Nothing, Nothing) \in Asked
           /\ LibraryRequest("list", Nothing, Nothing).kind = "list"
           /\ \A m \in Models :
                 /\ LibraryRequest("delete", m, Nothing) \in Asked
                 /\ LibraryRequest("delete", m, Nothing).kind = "delete"
                 /\ \A d \in Digests :
                       /\ LibraryRequest("import", m, d) \in Asked
                       /\ LibraryRequest("import", m, d).kind = "import"
<1> DEFINE S == {n \in 1 .. (MaxQueue + 1) : \A q \in InFlight : q.id # n}
           id == Min(S)
<1>1. S \in SUBSET Nat /\ S # {}
  <2>1. \E n \in 1 .. (MaxQueue + 1) : \A q \in InFlight : q.id # n
    BY FreshId
  <2>2. 1 .. (MaxQueue + 1) \subseteq Nat
    OBVIOUS
  <2> QED BY <2>1, <2>2
<1>2. id \in Nat
  <2> HIDE DEF S
  <2>1. Min(S) \in S
    BY <1>1, MinIsElement
  <2> QED BY <1>1, <2>1
<1>3. \A kind, model, data : LibraryRequest(kind, model, data) =
            [kind |-> kind, model |-> model, data |-> data, id |-> id]
  BY DEF LibraryRequest, Request
<1> HIDE DEF id
<1> QED BY <1>2, <1>3 DEF Asked

BundleFiles == [Models -> Digests \cup {Nothing, Torn}]

\* Whatever the sidecar does to its bundles, they are bundles, torn or gone.
LEMMA FilesTyped ==
    ASSUME bundles \in BundleFiles, NEW q \in Asked
    PROVE  Files(q) \in BundleFiles /\ FilesHalfway(q) \subseteq BundleFiles
<1>1. Importing(q) => q.data \in Digests
  BY DEF Importing, Asked
<1>2. Files(q) \in BundleFiles
  BY <1>1 DEF Files, BundleFiles
<1>3. [bundles EXCEPT ![q.model] = Torn] \in BundleFiles
  BY DEF BundleFiles
<1> QED BY <1>2, <1>3 DEF FilesHalfway

LEMMA ReplyTyped ==
    ASSUME NEW q \in Asked, NEW files \in BundleFiles,
           NEW kind \in {"ready", "done", "rejected", "refused", "broken"}
    PROVE  Reply(q, kind, files) \in Answer /\ Reply(q, kind, files).request = q
<1>1. Listed(files) \in Inventory
  BY DEF Listed, Inventory, BundleFiles
<1> HIDE DEF Inventory
<1> QED BY <1>1 DEF Reply, Answer

\* The reply at hand, and the queues without it.
LEMMA MessageFacts ==
    ASSUME Queues, Drained
    PROVE  /\ Message \in Answer /\ Message.request \in Asked
           /\ Queue(requests, replies', field.pending, running)
           /\ Message.request.kind = "field" => Free(requests, replies', "field")
           /\ Message.request.kind = "suite" => Free(requests, replies', "suite")
<1>1. /\ requests \in Seq(Asked) /\ replies \in Seq(Answer)
      /\ replies # <<>> /\ replies' = Tail(replies)
      /\ Coalesced(requests, replies, "field", field.pending)
      /\ Coalesced(requests, replies, "suite", running)
  BY DEF Queues, Queue, Drained
<1>2. Message \in Answer /\ replies' \in Seq(Answer)
  BY <1>1, Dropping DEF Message
<1>3. Message.request \in Asked
  BY <1>2 DEF Answer
<1>4. /\ Coalesced(requests, replies', "field", field.pending)
      /\ Message.request.kind = "field" => Free(requests, replies', "field")
  BY <1>1, QueueTaken DEF Message
<1>5. /\ Coalesced(requests, replies', "suite", running)
      /\ Message.request.kind = "suite" => Free(requests, replies', "suite")
  BY <1>1, QueueTaken DEF Message
<1> QED BY <1>1, <1>2, <1>3, <1>4, <1>5 DEF Queue

\* A flag that was cleared with the last request of its kind.
LEMMA FlagCleared ==
    ASSUME NEW rq, NEW rp, NEW pending \in BOOLEAN, NEW computing \in BOOLEAN,
           Queue(rq, rp, pending, computing)
    PROVE  /\ Free(rq, rp, "field") => Queue(rq, rp, FALSE, computing)
           /\ Free(rq, rp, "suite") => Queue(rq, rp, pending, FALSE)
BY DEF Queue, Coalesced

\* request_2d keeps at most one field with the engine.
LEMMA AskFieldQueue ==
    ASSUME inputs' \in Suite, NEW f \in [pending : BOOLEAN, dirty : BOOLEAN], NEW up,
           NEW rp, NEW computing \in BOOLEAN, Queue(requests, rp, f.pending, computing),
           AskField(f, up)
    PROVE  /\ field' \in [pending : BOOLEAN, dirty : BOOLEAN]
           /\ Queue(requests', rp, field'.pending, computing)
<1>1. CASE requests' = requests /\ (field' = f \/ field' = [f EXCEPT !.dirty = TRUE])
  <2>1. field' \in [pending : BOOLEAN, dirty : BOOLEAN] /\ field'.pending = f.pending
    BY <1>1
  <2> QED BY <1>1, <2>1
<1>2. CASE /\ ~f.pending /\ field' = [f EXCEPT !.pending = TRUE]
           /\ requests' = Sent(Request("field", inputs'.model, Nothing))
  <2> DEFINE q == Request("field", inputs'.model, Nothing)
  <2>1. q \in Asked /\ q.kind = "field"
    BY AskedFor DEF Suite, Request
  <2>2. requests \in Seq(Asked) /\ rp \in Seq(Answer) /\ f.pending = FALSE
    BY <1>2 DEF Queue
  <2> HIDE DEF q
  <2>3. Queue(Sent(q), rp, TRUE, computing)
    BY <2>1, <2>2, SentQueue
  <2>4. field' \in [pending : BOOLEAN, dirty : BOOLEAN] /\ field'.pending = TRUE
    BY <1>2
  <2> QED BY <1>2, <2>3, <2>4 DEF q
<1> QED BY <1>1, <1>2 DEF AskField

\* A cell of a suite is asked for.
LEMMA SelectOnQueue ==
    ASSUME NEW d \in Display, d.suite \in Suite, NEW at \in Nat \X DOMAIN Horizons,
           at[1] \in DOMAIN d.suite.seeds, NEW up, NEW rp,
           NEW pending \in BOOLEAN, NEW computing \in BOOLEAN,
           Queue(requests, rp, pending, computing), SelectOn(d, at, up)
    PROVE  Queue(requests', rp, pending, computing)
<1> DEFINE cell == [seed |-> d.suite.seeds[at[1]], horizon |-> Horizons[at[2]]]
           q == Request("cell", d.suite.model, cell)
<1>1. cell \in Cell
  <2>1. d.suite.seeds \in Seq(Nat) /\ Horizons \in Seq(Nat)
    BY BenchmarkAssumption DEF Suite
  <2>2. d.suite.seeds[at[1]] \in Nat
    BY <2>1
  <2>3. Horizons[at[2]] \in Nat
    BY <2>1
  <2> QED BY <2>2, <2>3 DEF Cell
<1>2. requests' = requests \/ requests' = Sent(q)
  BY DEF SelectOn
<1> HIDE DEF cell
<1>3. q \in Asked /\ q.kind = "cell"
  BY <1>1, AskedFor DEF Suite, Request
<1> HIDE DEF q
<1>4. requests \in Seq(Asked) /\ rp \in Seq(Answer)
  BY DEF Queue
<1>5. Queue(Sent(q), rp, pending, computing)
  BY <1>3, <1>4, SentQueue
<1> QED BY <1>2, <1>5

\* A library request is sent.
LEMMA SendLibraryQueue ==
    ASSUME NEW kind, NEW m, NEW data, LibraryRequest(kind, m, data) \in Asked,
           LibraryRequest(kind, m, data).kind \in LibraryKinds, Shape, Queues,
           SendLibrary(kind, m, data)
    PROVE  /\ library' \in [busy : BOOLEAN, request : Nat]
           /\ Queue(requests', replies, field.pending, running)
<1> DEFINE q == LibraryRequest(kind, m, data)
<1>1. \/ requests' = Sent(q) /\ library' = [busy |-> TRUE, request |-> q.id]
      \/ requests' = requests /\ library' = [busy |-> TRUE, request |-> 0]
  BY DEF SendLibrary
<1>2. q \in Asked /\ q.kind \notin {"field", "suite"}
  BY DEF LibraryKinds
<1> HIDE DEF q
<1>3. q.id \in Nat
  BY <1>2 DEF Asked
<1>4. requests \in Seq(Asked) /\ replies \in Seq(Answer)
  BY DEF Queues, Queue
<1>5. Queue(Sent(q), replies, field.pending, running)
  BY <1>2, <1>4, SentQueue DEF Queues
<1>6. library' \in [busy : BOOLEAN, request : Nat]
  <2>1. \A n \in Nat : [busy |-> TRUE, request |-> n] \in [busy : BOOLEAN, request : Nat]
    OBVIOUS
  <2>2. library' = [busy |-> TRUE, request |-> q.id] \/ library' = [busy |-> TRUE, request |-> 0]
    BY <1>1
  <2>3. 0 \in Nat
    OBVIOUS
  <2> QED BY <1>3, <2>1, <2>2, <2>3
<1>7. requests' = Sent(q) \/ requests' = requests
  BY <1>1
<1>8. Queue(requests, replies, field.pending, running)
  BY DEF Queues
<1> QED BY <1>5, <1>6, <1>7, <1>8

\* A new handle: what was queued is gone.
LEMMA NewEngineQueue ==
    ASSUME Shape, Queues, NEW q \in Asked, q.kind = "list",
           NewEngine(<<q>>) \/ NewEngine(<<>>), NEW pending, NEW computing
    PROVE  /\ bundles' \in BundleFiles
           /\ Queue(requests', replies', pending, computing)
<1>1. bundles \in BundleFiles /\ requests \in Seq(Asked)
  BY DEF Shape, Queues, Queue, BundleFiles
<1>2. requests # <<>> => FilesHalfway(Head(requests)) \subseteq BundleFiles
  BY <1>1, Dropping, FilesTyped
<1>3. bundles' \in BundleFiles
  BY <1>1, <1>2 DEF NewEngine
<1>4. (requests' = <<q>> \/ requests' = <<>>) /\ replies' = <<>>
  BY DEF NewEngine
<1> QED BY <1>3, <1>4, QueueNew

-----------------------------------------------------------------------------
(* The engine thread.                                                      *)

LEMMA RecordsKept ==
    ASSUME Records, ledger' = ledger, display' = display \/ display' = Blank
    PROVE  Records'
BY BlankShows DEF Records

LEMMA StartStep == ASSUME IInv, Start PROVE IInv'
<1> USE DEF IInv
<1>1. Shape' /\ Records'
  BY RecordsKept DEF Start, view, Shape
<1>2. PICK kind \in {"ready", "broken"} :
         /\ requests' = requests \/ requests' = <<>>
         /\ replies' = Append(replies, Reply(NoRequest, kind, bundles))
  BY DEF Start
<1> DEFINE a == Reply(NoRequest, kind, bundles)
<1>3. /\ requests \in Seq(Asked) /\ replies \in Seq(Answer)
      /\ Coalesced(requests, replies, "field", field.pending)
      /\ Coalesced(requests, replies, "suite", running)
  BY DEF Queues, Queue
<1>4. bundles \in BundleFiles /\ NoRequest \in Asked
  BY AskedFor DEF Shape, BundleFiles
<1>5. a \in Answer /\ a.request = NoRequest
  BY <1>4, ReplyTyped
<1>6. NoRequest.kind = "none"
  BY DEF NoRequest, Request
<1> HIDE DEF a
<1>7. /\ Coalesced(requests, Append(replies, a), "field", field.pending)
      /\ Coalesced(requests, Append(replies, a), "suite", running)
  BY <1>3, <1>5, <1>6, QueueTold
<1>8. /\ Coalesced(requests', Append(replies, a), "field", field.pending)
      /\ Coalesced(requests', Append(replies, a), "suite", running)
  <2>1. /\ Coalesced(<<>>, Append(replies, a), "field", field.pending)
        /\ Coalesced(<<>>, Append(replies, a), "suite", running)
    BY <1>7, QueueCut
  <2>2. requests' = requests \/ requests' = <<>>
    BY <1>2
  <2> QED BY <1>7, <2>1, <2>2
<1>9. requests' \in Seq(Asked) /\ replies' \in Seq(Answer) /\ replies' = Append(replies, a)
  <2>1. <<>> \in Seq(Asked)
    OBVIOUS
  <2>2. Append(replies, a) \in Seq(Answer)
    BY <1>3, <1>5, Appending
  <2>3. replies' = Append(replies, a)
    BY <1>2 DEF a
  <2>4. requests' = requests \/ requests' = <<>>
    BY <1>2
  <2> QED BY <1>3, <2>1, <2>2, <2>3, <2>4
<1>10. field' = field /\ running' = running
  BY DEF Start
<1> QED BY <1>1, <1>8, <1>9, <1>10 DEF Queues, Queue

\* The head of the queue is answered, and the rest may be lost.
LEMMA AnswerStep ==
    ASSUME IInv, requests # <<>>, NEW files \in BundleFiles,
           NEW kind \in {"ready", "done", "rejected", "refused", "broken"},
           bundles' = files, replies' = Append(replies, Reply(Head(requests), kind, files)),
           requests' = Tail(requests) \/ requests' = <<>>,
           UNCHANGED <<ledger, view, running, field, models, library>>
    PROVE  IInv'
<1> USE DEF IInv
<1>1. Shape' /\ Records'
  BY RecordsKept DEF view, Shape, BundleFiles
<1> DEFINE a == Reply(Head(requests), kind, files)
<1>2. /\ requests \in Seq(Asked) /\ replies \in Seq(Answer)
      /\ Coalesced(requests, replies, "field", field.pending)
      /\ Coalesced(requests, replies, "suite", running)
  BY DEF Queues, Queue
<1>3. Head(requests) \in Asked /\ Tail(requests) \in Seq(Asked)
  BY <1>2, Dropping
<1>4. a \in Answer /\ a.request = Head(requests)
  BY <1>3, ReplyTyped
<1>5. replies' = Append(replies, a)
  OBVIOUS
<1> HIDE DEF a
<1>6. /\ Coalesced(Tail(requests), Append(replies, a), "field", field.pending)
      /\ Coalesced(Tail(requests), Append(replies, a), "suite", running)
  BY <1>2, <1>4, QueueMoves
<1>7. /\ Coalesced(requests', Append(replies, a), "field", field.pending)
      /\ Coalesced(requests', Append(replies, a), "suite", running)
  <2>1. /\ Coalesced(<<>>, Append(replies, a), "field", field.pending)
        /\ Coalesced(<<>>, Append(replies, a), "suite", running)
    BY <1>6, QueueCut
  <2> QED BY <1>6, <2>1
<1>8. requests' \in Seq(Asked) /\ replies' \in Seq(Answer)
  <2>1. <<>> \in Seq(Asked)
    OBVIOUS
  <2>2. Append(replies, a) \in Seq(Answer)
    BY <1>2, <1>4, Appending
  <2> QED BY <1>3, <1>5, <2>1, <2>2
<1> QED BY <1>1, <1>5, <1>7, <1>8 DEF Queues, Queue

LEMMA ServeStep == ASSUME IInv, Serve \/ Fail PROVE IInv'
<1>1. requests # <<>> /\ UNCHANGED <<ledger, view, running, field, models, library>>
  BY DEF Serve, Fail
<1>2. Head(requests) \in Asked /\ bundles \in BundleFiles
  BY <1>1, Dropping DEF IInv, Shape, Queues, Queue, BundleFiles
<1>3. CASE Serve
  <2>1. /\ bundles' = Files(Head(requests)) /\ requests' = Tail(requests)
        /\ \E kind \in {"done", "rejected", "refused"} :
              replies' = Append(replies, Reply(Head(requests), kind, bundles'))
    BY <1>3 DEF Serve
  <2>2. bundles' \in BundleFiles
    BY <1>2, <2>1, FilesTyped
  <2> QED BY <1>1, <2>1, <2>2, AnswerStep
<1>4. CASE Fail
  <2>1. PICK kind \in {"refused", "broken"} :
          /\ bundles' \in FilesHalfway(Head(requests))
          /\ replies' = Append(replies, Reply(Head(requests), kind, bundles'))
          /\ requests' = IF kind = "broken" THEN <<>> ELSE Tail(requests)
    BY <1>4 DEF Fail
  <2>2. bundles' \in BundleFiles
    BY <1>2, <2>1, FilesTyped
  <2> QED BY <1>1, <2>1, <2>2, AnswerStep
<1> QED BY <1>3, <1>4

-----------------------------------------------------------------------------
(* The operator.                                                           *)

LEMMA ChangeInputsStep == ASSUME IInv, ChangeInputs PROVE IInv'
<1> USE DEF IInv
<1>1. inputs' \in Suite
  BY DEF ChangeInputs, Shape, Suite
<1>2. PICK p \in Prepared(ledger, inputs', models, TRUE) : ledger' = p.ledger
  BY DEF ChangeInputs
<1>3. Sound(ledger')
  BY <1>1, <1>2, PreparedSound DEF Records, Shape
<1>4. Records'
  BY <1>3, BlankShows DEF ChangeInputs, Records
<1>5. Shape'
  BY <1>1 DEF ChangeInputs, engine, Shape
<1> QED BY <1>4, <1>5 DEF ChangeInputs, engine, Queues

LEMMA RunSuiteStep == ASSUME IInv, RunSuite PROVE IInv'
<1> USE DEF IInv
<1>1. PICK p \in Prepared(ledger, inputs, models, TRUE) :
          /\ ledger' = p.ledger
          /\ \/ ~p.ok /\ UNCHANGED <<display, running, requests>>
             \/ /\ p.ok
                /\ display' = [Blank EXCEPT !.run = display.run]
                /\ \/ /\ running' = TRUE
                      /\ requests' = Sent(Request("suite", inputs.model, inputs.seeds))
                   \/ Closed /\ running' = FALSE /\ UNCHANGED requests
  BY DEF RunSuite
<1>2. inputs \in Suite /\ models \in Inventory /\ Sound(ledger)
  BY DEF Shape, Records
<1>3. Sound(ledger') /\ Grows(ledger, ledger')
  <2>1. p \in Prepared(ledger, inputs, models, TRUE) /\ ledger' = p.ledger
    BY <1>1
  <2>2. Sound(p.ledger) /\ Grows(ledger, p.ledger)
    BY <1>2, <2>1, PreparedGrows
  <2> QED BY <2>1, <2>2
<1>4. Shows(display', ledger')
  <2>1. CASE display' = display
    BY <1>3, <2>1, ShowsMore DEF Records
  <2>2. CASE display' = [Blank EXCEPT !.run = display.run]
    <3>1. display.run \in Nat
      BY DEF Records, Shows, Display
    <3>2. /\ display' \in Display /\ display'.suite = Nothing /\ display'.waiting = FALSE
      BY <2>2, <3>1 DEF Blank, Display, Places
    <3> QED BY <3>2 DEF Shows
  <2> QED BY <1>1, <2>1, <2>2
<1>5. UNCHANGED <<inputs, field, models, library, bundles, replies>> /\ ~running
  BY DEF RunSuite, MayRun
<1>6. running' \in BOOLEAN /\ Queue(requests', replies, field.pending, running')
  <2>1. running = FALSE /\ running \in BOOLEAN
    BY <1>5 DEF Shape
  <2>2. Queue(requests, replies, field.pending, running)
    BY DEF Queues
  <2>3. CASE UNCHANGED <<running, requests>>
    BY <2>1, <2>2, <2>3
  <2>4. CASE running' = FALSE /\ requests' = requests
    BY <2>1, <2>2, <2>4
  <2>5. CASE running' = TRUE /\ requests' = Sent(Request("suite", inputs.model, inputs.seeds))
    <3> DEFINE q == Request("suite", inputs.model, inputs.seeds)
    <3>1. q \in Asked /\ q.kind = "suite"
      BY <1>2, AskedFor DEF Suite, Request
    <3>2. requests \in Seq(Asked) /\ replies \in Seq(Answer)
      BY DEF Queues, Queue
    <3> HIDE DEF q
    <3>3. Queue(Sent(q), replies, field.pending, TRUE)
      BY <2>1, <2>2, <3>1, <3>2, SentQueue
    <3>4. running' = TRUE /\ requests' = Sent(q)
      BY <2>5 DEF q
    <3> QED BY <3>3, <3>4
  <2> QED BY <1>1, <2>3, <2>4, <2>5
<1>7. Shape' /\ Records'
  BY <1>3, <1>4, <1>5, <1>6 DEF Shape, Records
<1> QED BY <1>5, <1>6, <1>7 DEF Queues

LEMMA SelectCellStep == ASSUME IInv, SelectCell PROVE IInv'
<1> USE DEF IInv
<1>1. PICK i \in DOMAIN display.suite.seeds, j \in DOMAIN Horizons :
         SelectOn(display, <<i, j>>, engineOk)
  BY DEF SelectCell
<1>2. /\ display.suite # Nothing /\ display \in Display /\ display.suite \in Suite
      /\ display.run \in DOMAIN ledger.runs /\ ledger.runs[display.run].suite = display.suite
      /\ display.waiting => display.inspector = Nothing
      /\ Shows(display, ledger)
  BY DEF SelectCell, Records, Shows, Display
<1>3. i \in Nat
  <2>1. display.suite.seeds \in Seq(Nat)
    BY <1>2, BenchmarkAssumption DEF Suite
  <2> QED BY <2>1, Positions
<1> DEFINE at == <<i, j>>
<1>4. at \in Nat \X DOMAIN Horizons /\ at[1] \in DOMAIN display.suite.seeds
  BY <1>3
<1>5. SelectOn(display, at, engineOk)
  BY <1>1
<1> HIDE DEF at
<1>6. Shows(display', ledger)
  BY <1>2, <1>4, <1>5, SelectOnShows
<1>7. field.pending \in BOOLEAN /\ running \in BOOLEAN
  BY DEF Shape
<1>8. Queue(requests', replies, field.pending, running)
  BY <1>2, <1>4, <1>5, <1>7, SelectOnQueue DEF Queues
<1>9. UNCHANGED <<ledger, inputs, running, field, models, library, bundles, replies>>
  BY DEF SelectCell
<1>10. Shape' /\ Records'
  BY <1>6, <1>9 DEF Shape, Records
<1> QED BY <1>8, <1>9, <1>10 DEF Queues

\* Opening a stored run shows what is recorded of it.
LEMMA HydrateFacts ==
    ASSUME NEW l, Sound(l), NEW sel \in [run : Nat, cell : Nat], Selects(sel, l),
           NEW otherwise \in Suite, Hydrate(l, sel, otherwise)
    PROVE  Shows(display', l) /\ inputs' \in Suite
<1>1. PICK readable \in BOOLEAN :
         /\ display' = IF readable THEN Hydrated(l, sel) ELSE Blank
         /\ inputs' = IF readable /\ sel.run # NoRun THEN l.runs[sel.run].suite ELSE otherwise
  BY DEF Hydrate
<1>2. Shows(Hydrated(l, sel), l) /\ (sel.run # NoRun => l.runs[sel.run].suite \in Suite)
  BY HydratedShows
<1>3. Shows(Blank, l)
  BY BlankShows
<1> QED BY <1>1, <1>2, <1>3

\* The last cell of a run is a cell of it.
LEMMA SelectionOfRun ==
    ASSUME Sound(ledger), NEW r \in DOMAIN ledger.runs
    PROVE  SelectionOf(r) \in [run : Nat, cell : Nat] /\ Selects(SelectionOf(r), ledger)
<1> DEFINE own == {c \in DOMAIN ledger.cells : ledger.cells[c].run = r}
           cell == IF own = {} THEN NoCell ELSE Max(own)
<1>1. /\ own \in SUBSET (1 .. Len(ledger.cells)) /\ Len(ledger.cells) \in Nat
      /\ r \in Nat /\ own \subseteq Nat
  BY LedgerFields DEF Sound
<1>2. own # {} => Max(own) \in own
  <2> HIDE DEF own
  <2> QED BY <1>1, MaxIsElement
<1>3. SelectionOf(r) = [run |-> r, cell |-> cell]
  BY DEF SelectionOf
<1>4. cell \in Nat /\ (cell # NoCell => cell \in own)
  <2> HIDE DEF own
  <2> QED BY <1>1, <1>2 DEF NoCell
<1> HIDE DEF cell
<1> QED BY <1>1, <1>3, <1>4 DEF Selects

\* A selection that names something of the ledger may become its selection.
LEMMA SelectionSound ==
    ASSUME NEW l, Sound(l), NEW sel \in [run : Nat, cell : Nat], Selects(sel, l),
           NEW reports \in SUBSET Report
    PROVE  /\ Sound([l EXCEPT !.selection = sel])
           /\ Grows(l, [l EXCEPT !.selection = sel])
           /\ Sound([l EXCEPT !.reports = reports, !.selection = sel])
           /\ Grows(l, [l EXCEPT !.reports = reports, !.selection = sel])
<1> DEFINE m == [l EXCEPT !.selection = sel]
           n == [l EXCEPT !.reports = reports, !.selection = sel]
<1>1. l \in LedgerRecord /\ RunsFit(l) /\ CellsFit(l)
  BY DEF Sound
<1>2. /\ m \in LedgerRecord /\ m.runs = l.runs /\ m.cells = l.cells
      /\ m.revisions = l.revisions /\ m.selection = sel
  BY <1>1 DEF LedgerRecord
<1>3. /\ n \in LedgerRecord /\ n.runs = l.runs /\ n.cells = l.cells
      /\ n.revisions = l.revisions /\ n.selection = sel
  BY <1>1 DEF LedgerRecord
<1> HIDE DEF m, n
<1>4. Sound(m) /\ Grows(l, m) /\ Sound(n) /\ Grows(l, n)
  BY <1>1, <1>2, <1>3 DEF Sound, Grows, RunsFit, CellsFit, Selects
<1> QED BY <1>4 DEF m, n

LEMMA InspectRunStep == ASSUME IInv, InspectRun PROVE IInv'
<1> USE DEF IInv
<1>1. PICK r \in DOMAIN ledger.runs :
         /\ \/ ledger' = ledger
            \/ ledger' = [ledger EXCEPT !.selection = SelectionOf(r)]
         /\ Hydrate(ledger, SelectionOf(r), inputs)
  BY DEF InspectRun
<1>2. Sound(ledger) /\ inputs \in Suite
  BY DEF Records, Shape
<1>3. SelectionOf(r) \in [run : Nat, cell : Nat] /\ Selects(SelectionOf(r), ledger)
  BY <1>2, SelectionOfRun
<1>4. Shows(display', ledger) /\ inputs' \in Suite
  BY <1>1, <1>2, <1>3, HydrateFacts
<1>5. Sound(ledger') /\ Grows(ledger, ledger')
  <2>1. {} \in SUBSET Report
    OBVIOUS
  <2>2. /\ Sound([ledger EXCEPT !.selection = SelectionOf(r)])
        /\ Grows(ledger, [ledger EXCEPT !.selection = SelectionOf(r)])
    BY <1>2, <1>3, <2>1, SelectionSound
  <2>3. Grows(ledger, ledger)
    BY DEF Grows
  <2> QED BY <1>1, <1>2, <2>2, <2>3
<1>6. Records'
  BY <1>4, <1>5, ShowsMore DEF Records
<1> QED BY <1>4, <1>6 DEF InspectRun, engine, Shape, Queues

LEMMA SignReportStep == ASSUME IInv, SignReport PROVE IInv'
<1> USE DEF IInv
<1> DEFINE sel == [run |-> display.run, cell |-> NoCell]
           reports == ledger.reports \cup {ReportIdentity}
<1>1. /\ ledger' = [ledger EXCEPT !.reports = reports, !.selection = sel]
      /\ display.suite # Nothing
      /\ UNCHANGED <<view, running, field, models, library, engine>>
  BY DEF SignReport
<1>2. /\ Sound(ledger) /\ Shows(display, ledger) /\ display.run \in DOMAIN ledger.runs
      /\ display.run \in Nat /\ display.suite \in Suite
  BY <1>1 DEF Records, Shows, Display
<1>3. sel \in [run : Nat, cell : Nat] /\ Selects(sel, ledger)
  BY <1>2 DEF Selects, NoCell
<1>4. reports \in SUBSET Report
  <2>1. ledger.reports \in SUBSET Report
    BY <1>2, LedgerFields DEF Sound
  <2>2. ReportIdentity \in Report
    BY <1>2 DEF ReportIdentity, Report, Shape, Inventory, Suite
  <2> QED BY <2>1, <2>2
<1> HIDE DEF sel, reports
<1>5. Sound(ledger') /\ Grows(ledger, ledger')
  BY <1>1, <1>2, <1>3, <1>4, SelectionSound
<1>6. Shows(display', ledger')
  BY <1>1, <1>2, <1>5, ShowsMore DEF view
<1> QED BY <1>1, <1>5, <1>6 DEF view, engine, Records, Shape, Queues

LEMMA ChangeFieldStep == ASSUME IInv, ChangeField PROVE IInv'
<1> USE DEF IInv
<1>1. inputs' \in Suite
  BY DEF ChangeField, Shape, Suite
<1>2. /\ field \in [pending : BOOLEAN, dirty : BOOLEAN] /\ running \in BOOLEAN
      /\ Queue(requests, replies, field.pending, running)
  BY DEF Shape, Queues
<1>3. /\ AskField(field, engineOk)
      /\ UNCHANGED <<ledger, display, running, models, library, bundles, replies>>
  BY DEF ChangeField
<1>4. /\ field' \in [pending : BOOLEAN, dirty : BOOLEAN]
      /\ Queue(requests', replies, field'.pending, running)
  BY <1>1, <1>2, <1>3, AskFieldQueue
<1>5. Shape' /\ Records'
  BY <1>1, <1>3, <1>4, RecordsKept DEF Shape
<1> QED BY <1>3, <1>4, <1>5 DEF Queues

LEMMA ManageModelsStep == ASSUME IInv, ManageModels PROVE IInv'
<1> USE DEF IInv
<1>1. requests \in Seq(Asked) /\ replies \in Seq(Answer) /\ Room
  BY DEF ManageModels, Queues, Queue
<1>2. UNCHANGED <<ledger, view, running, field, models, bundles, replies>>
  BY DEF ManageModels
<1>3. /\ library' \in [busy : BOOLEAN, request : Nat]
      /\ Queue(requests', replies, field.pending, running)
  <2>1. CASE SendLibrary("list", Nothing, Nothing)
    BY <1>1, <2>1, LibraryAsked, SendLibraryQueue DEF LibraryKinds
  <2>2. ASSUME NEW m \in Models, SendLibrary("delete", m, Nothing)
        PROVE  /\ library' \in [busy : BOOLEAN, request : Nat]
               /\ Queue(requests', replies, field.pending, running)
    BY <1>1, <2>2, LibraryAsked, SendLibraryQueue DEF LibraryKinds
  <2>3. ASSUME NEW m \in Models, NEW d \in Digests, SendLibrary("import", m, d)
        PROVE  /\ library' \in [busy : BOOLEAN, request : Nat]
               /\ Queue(requests', replies, field.pending, running)
    BY <1>1, <2>3, LibraryAsked, SendLibraryQueue DEF LibraryKinds
  <2>4. CASE library' = [library EXCEPT !.busy = FALSE] /\ UNCHANGED requests
    <3>1. library' \in [busy : BOOLEAN, request : Nat]
      BY <2>4 DEF Shape
    <3>2. requests' = requests /\ Queue(requests, replies, field.pending, running)
      BY <2>4 DEF Queues
    <3> QED BY <3>1, <3>2
  <2> QED BY <2>1, <2>2, <2>3, <2>4 DEF ManageModels, ImportModel
<1>4. Shape' /\ Records'
  BY <1>2, <1>3, RecordsKept DEF view, Shape
<1> QED BY <1>2, <1>3, <1>4 DEF Queues

\* Activating a model revises the case, and what was on display goes.
LEMMA ActivatedFacts ==
    ASSUME Records, inputs \in Suite, field \in [pending : BOOLEAN, dirty : BOOLEAN],
           NEW m \in Models, NEW inv \in Inventory, NEW rp, NEW computing \in BOOLEAN,
           Queue(requests, rp, field.pending, computing), Activated(m, inv)
    PROVE  /\ Records' /\ inputs' \in Suite
           /\ field' \in [pending : BOOLEAN, dirty : BOOLEAN]
           /\ Queue(requests', rp, field'.pending, computing)
<1>1. CASE UNCHANGED <<ledger, view, field, requests>>
  <2>1. ledger' = ledger /\ display' = display /\ inputs' = inputs /\ field' = field
        /\ requests' = requests
    BY <1>1 DEF view
  <2> QED BY <2>1, RecordsKept
<1>2. CASE /\ inputs' = [inputs EXCEPT !.model = m]
           /\ display' = Blank
           /\ \/ ledger' = ledger
              \/ \E p \in Prepared(ledger, inputs', inv, TRUE) : ledger' = p.ledger
           /\ \/ UNCHANGED <<field, requests>>
              \/ AskField(field, engineOk)
  <2>1. inputs' \in Suite
    BY <1>2 DEF Suite
  <2>2. Sound(ledger')
    <3>1. CASE ledger' = ledger
      BY <3>1 DEF Records
    <3>2. ASSUME NEW p \in Prepared(ledger, inputs', inv, TRUE), ledger' = p.ledger
          PROVE  Sound(ledger')
      <4>1. Sound(p.ledger)
        BY <2>1, PreparedGrows DEF Records
      <4> QED BY <3>2, <4>1
    <3> QED BY <1>2, <3>1, <3>2
  <2>3. Records'
    BY <1>2, <2>2, BlankShows DEF Records
  <2>4. CASE UNCHANGED <<field, requests>>
    BY <2>1, <2>3, <2>4
  <2>5. CASE AskField(field, engineOk)
    <3>1. /\ field' \in [pending : BOOLEAN, dirty : BOOLEAN]
          /\ Queue(requests', rp, field'.pending, computing)
      BY <2>1, <2>5, AskFieldQueue
    <3> QED BY <2>1, <2>3, <3>1
  <2> QED BY <1>2, <2>4, <2>5
<1> QED BY <1>1, <1>2 DEF Activated

LEMMA SetActiveStep == ASSUME IInv, SetActive PROVE IInv'
<1> USE DEF IInv
<1>1. PICK m \in Models : Activated(m, models)
  BY DEF SetActive
<1>2. UNCHANGED <<running, models, library, bundles, replies>>
  BY DEF SetActive
<1>3. /\ inputs \in Suite /\ field \in [pending : BOOLEAN, dirty : BOOLEAN]
      /\ running \in BOOLEAN /\ models \in Inventory
      /\ Queue(requests, replies, field.pending, running)
  BY DEF Shape, Queues
<1>4. /\ Records' /\ inputs' \in Suite
      /\ field' \in [pending : BOOLEAN, dirty : BOOLEAN]
      /\ Queue(requests', replies, field'.pending, running)
  BY <1>1, <1>3, ActivatedFacts
<1> QED BY <1>2, <1>4 DEF Shape, Queues

\* A restart, a lost engine, another project or the same one again.
LEMMA RestartStep ==
    ASSUME IInv, RestartEngine \/ InterruptEngine \/ NewProject \/ Reopen
    PROVE  IInv'
<1> USE DEF IInv
<1> DEFINE list == [Request("list", Nothing, Nothing) EXCEPT !.id = 1]
<1>1. list \in Asked /\ list.kind = "list"
  BY AskedFor DEF Request
<1>2. NewEngine(<<list>>) \/ NewEngine(<<>>)
  BY DEF RestartEngine, InterruptEngine, NewProject, Reopen, ListFirst
<1> HIDE DEF list
<1>3. /\ bundles' \in BundleFiles
      /\ Queue(requests', replies', field'.pending, running')
  BY <1>1, <1>2, NewEngineQueue
<1>4. /\ models' = models
      /\ library' = library \/ library' = [busy |-> TRUE, request |-> 1]
      /\ \/ field' = field /\ running' = running
         \/ field' = [pending |-> FALSE, dirty |-> FALSE] /\ running' = FALSE
  BY DEF RestartEngine, InterruptEngine, NewProject, Reopen, ListFirst, Invalidated
<1>5. inputs' \in Suite /\ Records'
  <2>1. CASE RestartEngine \/ InterruptEngine
    BY <2>1, RecordsKept DEF RestartEngine, InterruptEngine, Invalidated, view, Shape
  <2>2. CASE NewProject
    <3>1. Sound(EmptyLedger)
      <4>1. DOMAIN <<>> = {} /\ <<>> \in Seq(Contract) /\ <<>> \in Seq(Run)
            /\ <<>> \in Seq(Evidence)
        OBVIOUS
      <4>2. EmptyLedger \in LedgerRecord
        BY <4>1, NothingSelected DEF EmptyLedger, LedgerRecord
      <4> QED BY <4>1, <4>2, NothingSelected DEF EmptyLedger, Sound, RunsFit, CellsFit
    <3> QED BY <2>2, <3>1, BlankShows DEF NewProject, Invalidated, Records, DefaultInputs, Suite
  <2>3. CASE Reopen
    <3>1. PICK default \in DefaultInputs : Hydrate(ledger, ledger.selection, default)
      BY <2>3 DEF Reopen
    <3>2. /\ Sound(ledger) /\ Selects(ledger.selection, ledger)
          /\ ledger.selection \in [run : Nat, cell : Nat]
      BY LedgerFields DEF Records, Sound
    <3>3. default \in Suite /\ ledger' = ledger
      BY <2>3 DEF DefaultInputs, Suite, Reopen
    <3>4. Shows(display', ledger) /\ inputs' \in Suite
      BY <3>1, <3>2, <3>3, HydrateFacts
    <3> QED BY <3>2, <3>3, <3>4 DEF Records
  <2> QED BY <2>1, <2>2, <2>3
<1>6. library' \in [busy : BOOLEAN, request : Nat]
  <2>1. [busy |-> TRUE, request |-> 1] \in [busy : BOOLEAN, request : Nat]
    OBVIOUS
  <2> QED BY <1>4, <2>1 DEF Shape
<1>7. field' \in [pending : BOOLEAN, dirty : BOOLEAN] /\ running' \in BOOLEAN
  <2>1. [pending |-> FALSE, dirty |-> FALSE] \in [pending : BOOLEAN, dirty : BOOLEAN]
    OBVIOUS
  <2>2. CASE field' = field /\ running' = running
    BY <2>2 DEF Shape
  <2>3. CASE field' = [pending |-> FALSE, dirty |-> FALSE] /\ running' = FALSE
    BY <2>1, <2>3
  <2> QED BY <1>4, <2>2, <2>3
<1> QED BY <1>3, <1>4, <1>5, <1>6, <1>7 DEF Shape, Queues, BundleFiles

-----------------------------------------------------------------------------
(* A frame drains replies.                                                 *)

\* The case IInv is in while a reply is taken.
LEMMA TakingFacts ==
    ASSUME IInv, Drained
    PROVE  /\ Records /\ inputs \in Suite /\ models \in Inventory
           /\ field \in [pending : BOOLEAN, dirty : BOOLEAN] /\ field.pending \in BOOLEAN
           /\ running \in BOOLEAN
           /\ Message \in Answer /\ Message.request \in Asked
           /\ Queue(requests, replies', field.pending, running)
           /\ Message.request.kind = "field" => Queue(requests, replies', FALSE, running)
           /\ Message.request.kind = "suite" => Queue(requests, replies', field.pending, FALSE)
<1>1. /\ field \in [pending : BOOLEAN, dirty : BOOLEAN] /\ running \in BOOLEAN
      /\ inputs \in Suite /\ models \in Inventory
  BY DEF IInv, Shape
<1>2. field.pending \in BOOLEAN
  BY <1>1
<1>3. /\ Message \in Answer /\ Message.request \in Asked
      /\ Queue(requests, replies', field.pending, running)
      /\ Message.request.kind = "field" => Free(requests, replies', "field")
      /\ Message.request.kind = "suite" => Free(requests, replies', "suite")
  BY MessageFacts DEF IInv
<1>4. /\ Message.request.kind = "field" => Queue(requests, replies', FALSE, running)
      /\ Message.request.kind = "suite" => Queue(requests, replies', field.pending, FALSE)
  BY <1>1, <1>2, <1>3, FlagCleared
<1> QED BY <1>1, <1>2, <1>3, <1>4 DEF IInv

LEMMA TakeStatusStep == ASSUME IInv, TakeStatus PROVE IInv'
<1> USE DEF IInv
<1>1. /\ Drained /\ inputs' = inputs
      /\ \/ UNCHANGED <<field, requests>>
         \/ AskField(field, TRUE)
      /\ UNCHANGED <<ledger, display, running, models, library, bundles>>
  BY DEF TakeStatus
<1>2. /\ inputs \in Suite /\ field \in [pending : BOOLEAN, dirty : BOOLEAN]
      /\ running \in BOOLEAN /\ Queue(requests, replies', field.pending, running)
  BY <1>1, TakingFacts
<1>3. /\ field' \in [pending : BOOLEAN, dirty : BOOLEAN]
      /\ Queue(requests', replies', field'.pending, running)
  <2>1. CASE UNCHANGED <<field, requests>>
    BY <1>2, <2>1
  <2>2. CASE AskField(field, TRUE)
    BY <1>1, <1>2, <2>2, AskFieldQueue
  <2> QED BY <1>1, <2>1, <2>2
<1>4. Shape' /\ Records'
  BY <1>1, <1>3, RecordsKept DEF Shape
<1> QED BY <1>1, <1>3, <1>4 DEF Queues

LEMMA TakeFieldStep == ASSUME IInv, TakeField PROVE IInv'
<1> USE DEF IInv
<1> DEFINE none == [pending |-> FALSE, dirty |-> FALSE]
<1>1. /\ Drained /\ Message.request.kind = "field" /\ inputs' = inputs
      /\ \/ AskField(none, TRUE)
         \/ field' = [field EXCEPT !.pending = FALSE] /\ requests' = requests
      /\ UNCHANGED <<ledger, display, running, models, library, bundles>>
  BY DEF TakeField
<1>2. /\ inputs \in Suite /\ field \in [pending : BOOLEAN, dirty : BOOLEAN]
      /\ running \in BOOLEAN /\ Queue(requests, replies', FALSE, running)
  BY <1>1, TakingFacts
<1>3. none \in [pending : BOOLEAN, dirty : BOOLEAN] /\ none.pending = FALSE
  OBVIOUS
<1> HIDE DEF none
<1>4. /\ field' \in [pending : BOOLEAN, dirty : BOOLEAN]
      /\ Queue(requests', replies', field'.pending, running)
  <2>1. CASE field' = [field EXCEPT !.pending = FALSE] /\ requests' = requests
    <3>1. field' \in [pending : BOOLEAN, dirty : BOOLEAN] /\ field'.pending = FALSE
      BY <1>2, <2>1
    <3> QED BY <1>2, <2>1, <3>1
  <2>2. CASE AskField(none, TRUE)
    <3>1. Queue(requests, replies', none.pending, running)
      BY <1>2, <1>3
    <3> QED BY <1>1, <1>2, <1>3, <2>2, <3>1, AskFieldQueue
  <2> QED BY <1>1, <2>1, <2>2
<1>5. Shape' /\ Records'
  BY <1>1, <1>4, RecordsKept DEF Shape
<1> QED BY <1>1, <1>4, <1>5 DEF Queues

LEMMA TakeLibraryStep == ASSUME IInv, TakeLibrary PROVE IInv'
<1> USE DEF IInv
<1>1. /\ Drained /\ Message.request.kind \in LibraryKinds
      /\ UNCHANGED <<running, bundles>>
  BY DEF TakeLibrary
<1>2. /\ Records /\ inputs \in Suite /\ models \in Inventory
      /\ field \in [pending : BOOLEAN, dirty : BOOLEAN] /\ running \in BOOLEAN
      /\ Message \in Answer /\ Message.request \in Asked
      /\ Queue(requests, replies', field.pending, running)
  BY <1>1, TakingFacts
<1>3. Message.inventory \in Inventory
  BY <1>1, <1>2 DEF Answer
<1>4. models' \in Inventory /\ library' \in [busy : BOOLEAN, request : Nat]
  <2>1. models' \in {models, Message.inventory} /\ (library' = library \/ Answered)
    BY DEF TakeLibrary
  <2>2. Answered => library' \in [busy : BOOLEAN, request : Nat]
    BY DEF Answered
  <2> QED BY <1>2, <1>3, <2>1, <2>2 DEF Shape
<1>5. /\ Records' /\ inputs' \in Suite
      /\ field' \in [pending : BOOLEAN, dirty : BOOLEAN]
      /\ Queue(requests', replies', field'.pending, running)
  <2>1. CASE UNCHANGED <<ledger, view, field, requests>>
    <3>1. ledger' = ledger /\ display' = display /\ inputs' = inputs /\ field' = field
          /\ requests' = requests
      BY <2>1 DEF view
    <3> QED BY <1>2, <3>1, RecordsKept
  <2>2. CASE Message.request.kind = "import"
             /\ Activated(Message.request.model, Message.inventory)
    <3>1. Message.request.model \in Models
      BY <1>2, <2>2 DEF Asked
    <3> QED BY <1>2, <1>3, <2>2, <3>1, ActivatedFacts
  <2> QED BY <2>1, <2>2 DEF TakeLibrary
<1> QED BY <1>1, <1>4, <1>5 DEF Shape, Queues

LEMMA TakeSuiteStep == ASSUME IInv, TakeSuite PROVE IInv'
<1> USE DEF IInv
<1> DEFINE suite == [model |-> Message.request.model, seeds |-> Message.request.data]
<1>1. /\ Drained /\ Message.request.kind = "suite" /\ running' = FALSE
      /\ UNCHANGED <<inputs, field, models, library, bundles>>
  BY DEF TakeSuite
<1>2. /\ Records /\ field.pending \in BOOLEAN /\ Message.request \in Asked
      /\ Queue(requests, replies', field.pending, FALSE)
  BY <1>1, TakingFacts
<1>3. suite \in Suite
  BY <1>1, <1>2 DEF Asked, Suite
<1>4. \/ UNCHANGED <<ledger, display, requests>>
      \/ /\ IsCurrent(suite)
         /\ \E o \in RunRecorded(suite) :
               /\ ledger' = o.ledger
               /\ \/ /\ o.ok
                     /\ SelectOn([display EXCEPT !.suite = suite,
                                                 !.run = Len(o.ledger.runs)], <<1, 1>>, TRUE)
                  \/ /\ ~o.ok
                     /\ display' = SuiteDropped(display)
                     /\ UNCHANGED requests
  BY DEF TakeSuite
<1> HIDE DEF suite
<1>5. Records' /\ Queue(requests', replies', field.pending, FALSE)
  <2>1. CASE UNCHANGED <<ledger, display, requests>>
    BY <1>2, <2>1, RecordsKept
  <2>2. ASSUME IsCurrent(suite), NEW o \in RunRecorded(suite), ledger' = o.ledger
        PROVE  /\ Sound(ledger') /\ Grows(ledger, ledger')
               /\ o.ok => /\ ~readOnly
                          /\ Len(ledger'.runs) \in DOMAIN ledger'.runs
                          /\ ledger'.runs[Len(ledger'.runs)].suite = suite
    BY <1>2, <1>3, <2>2, RunRecordedSound DEF Records
  <2>3. ASSUME IsCurrent(suite), NEW o \in RunRecorded(suite), ledger' = o.ledger, o.ok,
               SelectOn([display EXCEPT !.suite = suite, !.run = Len(o.ledger.runs)],
                        <<1, 1>>, TRUE)
        PROVE  Records' /\ Queue(requests', replies', field.pending, FALSE)
    <3> DEFINE n == Len(ledger'.runs)
               d == [display EXCEPT !.suite = suite, !.run = n]
               at == <<1, 1>>
    <3>1. /\ Sound(ledger') /\ ~readOnly /\ n \in DOMAIN ledger'.runs
          /\ ledger'.runs[n].suite = suite
      BY <2>2, <2>3
    <3>2. n \in Nat
      BY <3>1, LedgerFields DEF Sound
    <3>3. display \in Display /\ (display.waiting => display.inspector = Nothing)
      BY <1>2 DEF Records, Shows
    <3>4. SelectOn(d, at, TRUE)
      BY <2>3
    <3>5. at \in Nat \X DOMAIN Horizons /\ at[1] \in DOMAIN suite.seeds
      <4>1. suite.seeds \in Seq(Nat) /\ suite.seeds # <<>>
        BY <1>3, BenchmarkAssumption DEF Suite
      <4>2. Horizons \in Seq(Nat) /\ Horizons # <<>>
        BY BenchmarkAssumption
      <4>3. 1 \in DOMAIN suite.seeds /\ 1 \in DOMAIN Horizons
        BY <4>1, <4>2, Dropping
      <4> QED BY <4>3
    <3> HIDE DEF n, at
    <3>6. /\ d \in Display /\ d.suite = suite /\ d.run = n
          /\ d.waiting = display.waiting /\ d.inspector = display.inspector
      BY <1>3, <3>2, <3>3 DEF Display
    <3> HIDE DEF d
    <3>7. Shows(display', ledger')
      BY <3>1, <3>3, <3>4, <3>5, <3>6, SelectOnShows
    <3>8. Queue(requests', replies', field.pending, FALSE)
      BY <1>2, <1>3, <3>4, <3>5, <3>6, SelectOnQueue
    <3> QED BY <3>1, <3>7, <3>8 DEF Records
  <2>4. ASSUME IsCurrent(suite), NEW o \in RunRecorded(suite), ledger' = o.ledger,
               display' = SuiteDropped(display), UNCHANGED requests
        PROVE  Records' /\ Queue(requests', replies', field.pending, FALSE)
    <3>1. Sound(ledger')
      BY <2>2, <2>4
    <3>2. display \in Display /\ (display.waiting => display.inspector = Nothing)
      BY <1>2 DEF Records, Shows
    <3>3. /\ display' \in Display /\ display'.suite = Nothing
          /\ display'.waiting = display.waiting /\ display'.inspector = display.inspector
      BY <2>4, <3>2 DEF SuiteDropped, Display, NoRun
    <3>4. Shows(display', ledger')
      BY <3>2, <3>3 DEF Shows
    <3> QED BY <1>2, <2>4, <3>1, <3>4 DEF Records
  <2> QED BY <1>4, <2>1, <2>3, <2>4
<1>6. Shape'
  BY <1>1 DEF Shape
<1> QED BY <1>1, <1>5, <1>6 DEF Queues

LEMMA TakeCellStep == ASSUME IInv, TakeCell PROVE IInv'
<1> USE DEF IInv
<1> DEFINE cell == Message.request.data
<1>1. /\ Drained /\ Message.request.kind = "cell"
      /\ UNCHANGED <<inputs, running, field, models, library, requests, bundles>>
  BY DEF TakeCell
<1>2. /\ Records /\ Message.request \in Asked
      /\ Queue(requests, replies', field.pending, running)
  BY <1>1, TakingFacts
<1>3. cell \in Cell
  BY <1>1, <1>2 DEF Asked
<1>4. \/ /\ IsSelected(cell)
         /\ \E o \in CellRecorded(cell) :
               /\ ledger' = o.ledger
               /\ display' = [display EXCEPT !.waiting = FALSE,
                                             !.inspector = IF o.ok THEN cell ELSE Nothing]
      \/ display' = [display EXCEPT !.waiting = FALSE] /\ ledger' = ledger
  BY DEF TakeCell
<1> HIDE DEF cell
<1>5. Shows(display, ledger) /\ display \in Display
  BY <1>2 DEF Records, Shows
<1>6. Records'
  <2>1. CASE display' = [display EXCEPT !.waiting = FALSE] /\ ledger' = ledger
    <3>1. /\ display' \in Display /\ display'.suite = display.suite
          /\ display'.run = display.run /\ display'.selected = display.selected
          /\ display'.inspector = display.inspector /\ display'.waiting = FALSE
      BY <1>5, <2>1 DEF Display
    <3>2. Shows(display', ledger)
      BY <1>5, <3>1 DEF Shows, Selected
    <3> QED BY <1>2, <2>1, <3>2 DEF Records
  <2>2. ASSUME IsSelected(cell), NEW o \in CellRecorded(cell), ledger' = o.ledger,
               display' = [display EXCEPT !.waiting = FALSE,
                                          !.inspector = IF o.ok THEN cell ELSE Nothing]
        PROVE  Records'
    <3>1. /\ Sound(ledger') /\ Grows(ledger, ledger')
          /\ o.ok => \E c \in DOMAIN ledger'.cells :
                        ledger'.cells[c] = [run |-> display.run, cell |-> cell]
      BY <1>2, <1>3, <2>2, CellRecordedSound
    <3>2. Shows(display, ledger')
      BY <1>5, <3>1, ShowsMore
    <3> DEFINE inspector == IF o.ok THEN cell ELSE Nothing
    <3>3. inspector \in Cell \cup {Nothing} /\ (~o.ok => inspector = Nothing)
          /\ (o.ok => inspector = cell)
      BY <1>3
    <3> HIDE DEF inspector
    <3>4. display' = [display EXCEPT !.waiting = FALSE, !.inspector = inspector]
      BY <2>2 DEF inspector
    <3>5. /\ display' \in Display /\ display'.suite = display.suite
          /\ display'.run = display.run /\ display'.selected = display.selected
          /\ display'.inspector = inspector /\ display'.waiting = FALSE
      BY <1>5, <3>3, <3>4 DEF Display
    <3>6. Selected(display, cell)
      BY <2>2 DEF IsSelected, Selected
    <3>7. Shows(display', ledger')
      <4>1. CASE o.ok
        BY <3>1, <3>2, <3>3, <3>5, <3>6, <4>1 DEF Shows, Selected
      <4>2. CASE ~o.ok
        BY <3>2, <3>3, <3>5, <4>2 DEF Shows
      <4> QED BY <4>1, <4>2
    <3> QED BY <3>1, <3>7 DEF Records
  <2> QED BY <1>4, <2>1, <2>2
<1>7. Shape'
  BY <1>1 DEF Shape
<1> QED BY <1>1, <1>2, <1>6, <1>7 DEF Queues

LEMMA TakeErrorStep == ASSUME IInv, TakeError PROVE IInv'
<1> USE DEF IInv
<1> DEFINE kind == Message.request.kind
<1>1. /\ Drained
      /\ running' = (running /\ kind # "suite")
      /\ display' = [display EXCEPT !.waiting = @ /\ kind # "cell"]
      /\ field' = [field EXCEPT !.pending = @ /\ kind # "field"]
      /\ library' = library \/ Answered
      /\ UNCHANGED <<ledger, inputs, models, requests, bundles>>
  BY DEF TakeError
<1>2. /\ Records /\ field \in [pending : BOOLEAN, dirty : BOOLEAN] /\ field.pending \in BOOLEAN
      /\ running \in BOOLEAN
      /\ Queue(requests, replies', field.pending, running)
      /\ kind = "field" => Queue(requests, replies', FALSE, running)
      /\ kind = "suite" => Queue(requests, replies', field.pending, FALSE)
  BY <1>1, TakingFacts
<1> HIDE DEF kind
<1>3. /\ running' = (IF kind = "suite" THEN FALSE ELSE running)
      /\ field' \in [pending : BOOLEAN, dirty : BOOLEAN]
      /\ field'.pending = (IF kind = "field" THEN FALSE ELSE field.pending)
  BY <1>1, <1>2
<1>4. Queue(requests, replies', field'.pending, running') /\ running' \in BOOLEAN
  <2>1. CASE kind = "field"
    BY <1>2, <1>3, <2>1
  <2>2. CASE kind = "suite"
    BY <1>2, <1>3, <2>2
  <2>3. CASE kind # "field" /\ kind # "suite"
    BY <1>2, <1>3, <2>3
  <2> QED BY <2>1, <2>2, <2>3
<1>5. Shows(display, ledger) /\ display \in Display
  BY <1>2 DEF Records, Shows
<1>6. /\ display' \in Display /\ display'.suite = display.suite
      /\ display'.run = display.run /\ display'.selected = display.selected
      /\ display'.inspector = display.inspector
      /\ display'.waiting => display.waiting
  BY <1>1, <1>5 DEF Display
<1>7. Shows(display', ledger)
  BY <1>5, <1>6 DEF Shows, Selected
<1>8. library' \in [busy : BOOLEAN, request : Nat]
  <2>1. Answered => library' \in [busy : BOOLEAN, request : Nat]
    BY DEF Answered
  <2> QED BY <1>1, <2>1 DEF Shape
<1>9. Shape'
  BY <1>1, <1>3, <1>4, <1>8 DEF Shape
<1> QED BY <1>1, <1>2, <1>4, <1>7, <1>9 DEF Records, Queues

-----------------------------------------------------------------------------
(* The invariant.                                                          *)

LEMMA InitIInv == Init => IInv
<1> SUFFICES ASSUME Init PROVE IInv
  OBVIOUS
<1>1. DOMAIN <<>> = {} /\ <<>> \in Seq(Contract) /\ <<>> \in Seq(Run) /\ <<>> \in Seq(Evidence)
  OBVIOUS
<1>2. Sound(EmptyLedger)
  <2>1. EmptyLedger \in LedgerRecord
    BY <1>1, NothingSelected DEF EmptyLedger, LedgerRecord
  <2> QED BY <1>1, <2>1, NothingSelected DEF EmptyLedger, Sound, RunsFit, CellsFit
<1>3. Records
  BY <1>2, BlankShows DEF Init, Records
<1>4. Queues
  <2> DEFINE list == [Request("list", Nothing, Nothing) EXCEPT !.id = 1]
  <2>1. list \in Asked /\ list.kind = "list"
    BY AskedFor DEF Request
  <2>2. requests = <<list>> /\ replies = <<>>
    BY DEF Init
  <2> HIDE DEF list
  <2> QED BY <2>1, <2>2, QueueNew DEF Queues
<1>5. library \in [busy : BOOLEAN, request : Nat]
  BY DEF Init
<1>6. Shape
  BY <1>5 DEF Init, Shape, DefaultInputs, Suite, Inventory
<1> QED BY <1>3, <1>4, <1>6 DEF IInv

LEMMA NextIInv == IInv /\ [Next]_vars => IInv'
<1> SUFFICES ASSUME IInv, [Next]_vars PROVE IInv'
  OBVIOUS
<1>1. CASE Worker
  BY <1>1, StartStep, ServeStep DEF Worker
<1>2. CASE Drain
  BY <1>2, TakeStatusStep, TakeLibraryStep, TakeFieldStep, TakeSuiteStep, TakeCellStep,
     TakeErrorStep DEF Drain
<1>3. CASE Operate
  BY <1>3, ChangeInputsStep, RunSuiteStep, SelectCellStep, InspectRunStep, SignReportStep,
     ChangeFieldStep, ManageModelsStep, SetActiveStep, RestartStep DEF Operate
<1>4. CASE Reconcile
  BY <1>4, RecordsKept DEF Reconcile, view, engine, IInv, Shape, Queues
<1>5. CASE UNCHANGED vars
  BY <1>5, RecordsKept DEF vars, view, engine, IInv, Shape, Queues
<1> QED BY <1>1, <1>2, <1>3, <1>4, <1>5 DEF Next

\* The invariant holds in every reachable state.
THEOREM AlwaysIInv == Spec => []IInv
BY InitIInv, NextIInv, PTL DEF Spec

\* Revisions name verified bundles and settings of the controls; what is selected,
\* shown and listed is of the known models and their contents.
THEOREM TypeCorrect == Spec => []TypeOK
<1>1. IInv => TypeOK
  <2> SUFFICES ASSUME IInv PROVE TypeOK
    OBVIOUS
  <2>1. ledger.revisions \in Seq(Contract) /\ ledger.bundled \in SUBSET Digests
    BY LedgerFields DEF IInv, Records, Sound
  <2>2. display.suite \in Suite \cup {Nothing}
    BY DEF IInv, Records, Shows, Display
  <2> QED BY <2>1, <2>2 DEF IInv, Shape, TypeOK, Contract
<1> QED BY <1>1, AlwaysIInv, PTL

\* A recorded run repeats the model and the seeds of its revision, however the
\* controls and the case changed while it was computed.
THEOREM RunsRepeatTheirRevision == Spec => []RunsMatchRevision
<1>1. IInv => RunsMatchRevision
  <2> SUFFICES ASSUME IInv, NEW r \in DOMAIN ledger.runs
               PROVE  /\ ledger.runs[r].suite =
                           [model |-> ledger.revisions[ledger.runs[r].revision].model,
                            seeds |-> ledger.revisions[ledger.runs[r].revision].seeds]
                      /\ ledger.runs[r].parent # NoRun =>
                           /\ ledger.runs[r].parent < r
                           /\ ledger.runs[ledger.runs[r].parent].revision =
                                ledger.runs[r].revision
    BY DEF RunsMatchRevision
  <2>1. ledger.runs[r].suite \in Suite
    BY LedgerFields DEF IInv, Records, Sound, Run
  <2> QED BY <2>1 DEF IInv, Records, Sound, RunsFit, Suite
<1> QED BY <1>1, AlwaysIInv, PTL

\* Evidence of a cell belongs to a run whose suite has the cell.
THEOREM EvidenceFitsItsRun == Spec => []CellsFitTheirRun
<1>1. IInv => CellsFitTheirRun
  BY DEF IInv, Records, Sound, CellsFit, CellsFitTheirRun
<1> QED BY <1>1, AlwaysIInv, PTL

\* What is on display is recorded, and under the run it is attributed to.
THEOREM DisplayIsRecorded == Spec => []ShownIsRecorded
<1>1. IInv => ShownIsRecorded
  <2> SUFFICES ASSUME IInv, display.suite # Nothing
               PROVE  /\ display.run # NoRun
                      /\ ledger.runs[display.run].suite = display.suite
                      /\ display.inspector # Nothing =>
                            /\ [run |-> display.run, cell |-> display.inspector]
                                  \in Range(ledger.cells)
                            /\ IsSelected(display.inspector)
    BY DEF ShownIsRecorded
  <2>1. Shows(display, ledger) /\ ledger \in LedgerRecord
    BY DEF IInv, Records, Sound
  <2>2. display.run \in 1 .. Len(ledger.runs) /\ Len(ledger.runs) \in Nat
    BY <2>1, LedgerFields DEF Shows
  <2>3. ASSUME display.inspector # Nothing
        PROVE  /\ [run |-> display.run, cell |-> display.inspector] \in Range(ledger.cells)
               /\ IsSelected(display.inspector)
    BY <2>1, <2>3 DEF Shows, Range, IsSelected, Selected
  <2> QED BY <2>1, <2>2, <2>3 DEF Shows, NoRun
<1> QED BY <1>1, AlwaysIInv, PTL

\* A set without two elements has at most one.
LEMMA AtMostOne ==
    ASSUME NEW n \in Nat, NEW S \in SUBSET (1 .. n), \A i, j \in S : i = j
    PROVE  /\ Cardinality(S) \in {0, 1}
           /\ S = {} => Cardinality(S) = 0
<1>1. CASE S = {}
  BY <1>1, FS_EmptySet
<1>2. CASE S # {}
  <2>1. PICK x \in S : S = {x}
    BY <1>2
  <2>2. Cardinality({x}) = 1
    BY FS_Singleton
  <2> QED BY <1>2, <2>1, <2>2
<1> QED BY <1>1, <1>2

\* At most one field and one suite are with the engine, and none without its flag.
THEOREM OneOfAKind == Spec => []RequestsCoalesced
<1>1. ASSUME NEW kind, NEW flag \in BOOLEAN, requests \in Seq(Asked), replies \in Seq(Answer),
             Coalesced(requests, replies, kind, flag)
      PROVE  Cardinality(Of(kind)) + Cardinality(AnsweredOf(kind)) <= IF flag THEN 1 ELSE 0
  <2>1. /\ DOMAIN requests = 1 .. Len(requests) /\ Len(requests) \in Nat
        /\ DOMAIN replies = 1 .. Len(replies) /\ Len(replies) \in Nat
    BY <1>1, Positions
  <2>2. /\ Of(kind) \in SUBSET (1 .. Len(requests)) /\ \A i, j \in Of(kind) : i = j
        /\ AnsweredOf(kind) \in SUBSET (1 .. Len(replies)) /\ \A i, j \in AnsweredOf(kind) : i = j
        /\ Of(kind) = {} \/ AnsweredOf(kind) = {}
        /\ ~flag => Of(kind) = {} /\ AnsweredOf(kind) = {}
    BY <1>1, <2>1 DEF Coalesced, Alone, Free, Of, AnsweredOf
  <2>3. Cardinality(Of(kind)) \in {0, 1} /\ (Of(kind) = {} => Cardinality(Of(kind)) = 0)
    BY <2>1, <2>2, AtMostOne
  <2>4. /\ Cardinality(AnsweredOf(kind)) \in {0, 1}
        /\ AnsweredOf(kind) = {} => Cardinality(AnsweredOf(kind)) = 0
    BY <2>1, <2>2, AtMostOne
  <2> QED BY <2>2, <2>3, <2>4
<1>2. IInv => RequestsCoalesced
  <2> SUFFICES ASSUME IInv PROVE RequestsCoalesced
    OBVIOUS
  <2>1. /\ requests \in Seq(Asked) /\ replies \in Seq(Answer)
        /\ Coalesced(requests, replies, "field", field.pending)
        /\ Coalesced(requests, replies, "suite", running)
        /\ field.pending \in BOOLEAN /\ running \in BOOLEAN
    BY DEF IInv, Shape, Queues, Queue
  <2>2. Cardinality(Of("field")) + Cardinality(AnsweredOf("field"))
            <= IF field.pending THEN 1 ELSE 0
    BY <1>1, <2>1
  <2>3. Cardinality(Of("suite")) + Cardinality(AnsweredOf("suite"))
            <= IF running THEN 1 ELSE 0
    BY <1>1, <2>1
  <2> QED BY <2>2, <2>3 DEF RequestsCoalesced
<1> QED BY <1>2, AlwaysIInv, PTL
=============================================================================
