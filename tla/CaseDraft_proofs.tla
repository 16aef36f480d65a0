-------------------------- MODULE CaseDraft_proofs --------------------------
(***************************************************************************)
(* Proofs about the desk, for any cases, geometries, attitudes, points and *)
(* models, whatever the preflight measures, and for any bounds.            *)
(***************************************************************************)
EXTENDS CaseDraft, SequenceTheorems, TLAPS

(***************************************************************************)
(* The invariant. A contract is backed when its approval was given for its *)
(* mask, and covered when its waivers were given for its geometry.         *)
(***************************************************************************)
Backed(c, given) == c.approved => MaskOf(c) \in given
Covered(c, given) == \A code \in c.waivers : <<c.geometry, code>> \in given

IsActive(revisions, r, c) ==
    /\ r \in DOMAIN revisions
    /\ revisions[r].case = c
    /\ \A q \in DOMAIN revisions : revisions[q].case = c => q <= r

RunFits(run) ==
    /\ run.revision \in DOMAIN Revisions
    /\ LET c == Revisions[run.revision].contract
       IN  /\ run.mask = MaskOf(c)
           /\ c.approved
           /\ SupportIssues(c) \subseteq c.waivers

LedgerInv ==
    /\ ledger.selected <= Len(ledger.runs)
    /\ \A c \in Cases : Known(c) => \E r \in DOMAIN Revisions : IsActive(Revisions, r, c)
    /\ \A r \in DOMAIN Revisions :
           Backed(Revisions[r].contract, approvals) /\ Covered(Revisions[r].contract, waived)
    /\ \A x \in DOMAIN ledger.runs : RunFits(ledger.runs[x])

\* A draft whose commits are refused, because its revision is not the active
\* one, may hold an approval that was not given for its mask.
Current == desk.revision = Active(desk.case)

DeskInv ==
    HasDesk =>
        /\ desk.revision \in DOMAIN Revisions
        /\ desk.run <= Len(ledger.runs)
        /\ MaskMatchesContract
        /\ Covered(desk.contract, waived)
        /\ Current => /\ Backed(desk.contract, approvals)
                      /\ MaskOf(desk.contract) = MaskOf(Revisions[desk.revision].contract)
        /\ ~dirty => desk.contract = Revisions[desk.revision].contract

Held(stack) == {stack[i] : i \in DOMAIN stack}

SnapshotFits(s) ==
    /\ \A code \in s.waivers : <<desk.contract.geometry, code>> \in waived
    /\ Current => (s.approved => MaskOf(desk.contract) \in approvals)

HistoryInv ==
    HasDesk /\ history.scope = Scope(desk) =>
        \A s \in Held(history.undo) \cup Held(history.redo) : SnapshotFits(s)

PendingInv ==
    ~HasDesk /\ pending # Nothing =>
        LET r == pending.request
        IN  /\ Active(r.case) \in DOMAIN Revisions
            /\ MaskOf(Revisions[Active(r.case)].contract)
                 = [geometry |-> r.geometry, attitude |-> r.angles]
            /\ Revisions[Active(r.case)].case = r.case

Inv == TypeOK /\ LedgerInv /\ DeskInv /\ HistoryInv /\ PendingInv

(***************************************************************************)
(* Values that the model keeps apart, and updates of the records.          *)
(***************************************************************************)
LEMMA NoDeskApart == NoDesk \notin Desk
BY DEF NoDesk, Desk

LEMMA NothingApart ==
  /\ Nothing \notin WorkRequest
  /\ Nothing \notin [request : WorkRequest, kind : {"draft", "hydrate"}]
  /\ Nothing \notin [case : Cases, source : 1..MaxRevisions]
BY DEF Nothing, WorkRequest

LEMMA MaskOfContract == ASSUME NEW c \in Contract PROVE MaskOf(c) \in Mask
BY DEF Contract, MaskOf, Mask

LEMMA ActiveIs ==
  ASSUME NEW revisions \in Seq(Revision), NEW c, NEW r, IsActive(revisions, r, c)
  PROVE  ActiveOf(revisions, c) = r
<1> DEFINE P(q) == /\ revisions[q].case = c
                   /\ \A k \in DOMAIN revisions : revisions[k].case = c => k <= q
<1>1. r \in DOMAIN revisions /\ P(r)
  BY DEF IsActive
<1>2. \A q \in DOMAIN revisions : P(q) => q = r
  <2> SUFFICES ASSUME NEW q \in DOMAIN revisions, P(q) PROVE q = r
    OBVIOUS
  <2>1. q <= r /\ r <= q
    BY <1>1
  <2> QED
    BY <2>1, <1>1, LenProperties
<1>3. ActiveOf(revisions, c) = CHOOSE q \in DOMAIN revisions : P(q)
  BY DEF ActiveOf
<1> QED
  BY <1>1, <1>2, <1>3

\* An append makes its revision the active one, and keeps those of the others.
LEMMA AppendActive ==
  ASSUME NEW revisions \in Seq(Revision), NEW new \in Revision
  PROVE  LET grown == Append(revisions, new)
         IN  /\ grown \in Seq(Revision)
             /\ Len(grown) = Len(revisions) + 1
             /\ DOMAIN grown = DOMAIN revisions \cup {Len(revisions) + 1}
             /\ Len(revisions) + 1 \notin DOMAIN revisions
             /\ \A r \in DOMAIN revisions : grown[r] = revisions[r]
             /\ grown[Len(revisions) + 1] = new
             /\ ActiveOf(grown, new.case) = Len(revisions) + 1
             /\ IsActive(grown, Len(revisions) + 1, new.case)
             /\ \A c, r : c # new.case /\ IsActive(revisions, r, c) => IsActive(grown, r, c)
<1> DEFINE grown == Append(revisions, new)
           n == Len(revisions) + 1
<1>1. /\ grown \in Seq(Revision)
      /\ Len(grown) = n
      /\ \A r \in 1..Len(revisions) : grown[r] = revisions[r]
      /\ grown[n] = new
  BY AppendProperties
<1>2. DOMAIN revisions = 1..Len(revisions) /\ Len(revisions) \in Nat /\ DOMAIN grown = 1..n
  BY <1>1, LenProperties
<1>3. DOMAIN grown = DOMAIN revisions \cup {n} /\ n \notin DOMAIN revisions
  BY <1>2
<1> HIDE DEF grown
<1>4. IsActive(grown, n, new.case)
  BY <1>1, <1>2 DEF IsActive
<1>5. ActiveOf(grown, new.case) = n
  BY <1>1, <1>4, ActiveIs
<1>6. ASSUME NEW c, NEW r, c # new.case, IsActive(revisions, r, c)
      PROVE  IsActive(grown, r, c)
  BY <1>1, <1>2, <1>3, <1>6 DEF IsActive
<1> QED
  BY <1>1, <1>2, <1>3, <1>4, <1>5, <1>6 DEF grown

(***************************************************************************)
(* The bounded stacks of the history.                                      *)
(***************************************************************************)
LEMMA PushHolds ==
  ASSUME NEW stack \in Seq(Snapshots), NEW s \in Snapshots, Len(stack) <= HistoryLimit
  PROVE  /\ PushBounded(stack, s) \in Seq(Snapshots)
         /\ Len(PushBounded(stack, s)) <= HistoryLimit
         /\ Held(PushBounded(stack, s)) \subseteq Held(stack) \cup {s}
<1>1. CASE Len(stack) < HistoryLimit
  <2>1. PushBounded(stack, s) = Append(stack, s)
    BY <1>1 DEF PushBounded
  <2> QED
    BY <1>1, <2>1, AppendProperties, LenProperties, DraftAssumption DEF Held
<1>2. CASE ~(Len(stack) < HistoryLimit)
  <2>1. PushBounded(stack, s) = Append(Tail(stack), s)
    BY <1>2 DEF PushBounded
  <2>2. stack # <<>> /\ Len(stack) = HistoryLimit /\ Len(stack) \in Nat
    BY <1>2, LenProperties, DraftAssumption
  <2>3. /\ Tail(stack) \in Seq(Snapshots) /\ Len(Tail(stack)) = Len(stack) - 1
        /\ \A i \in 1..Len(Tail(stack)) : Tail(stack)[i] = stack[i+1]
    BY <2>2, HeadTailProperties
  <2>4. Held(Tail(stack)) \subseteq Held(stack)
    BY <2>2, <2>3, LenProperties DEF Held
  <2> DEFINE t == Tail(stack)
  <2>5. t \in Seq(Snapshots) /\ Len(t) = HistoryLimit - 1
    BY <2>2, <2>3
  <2> HIDE DEF t
  <2>6. /\ Append(t, s) \in Seq(Snapshots) /\ Len(Append(t, s)) = HistoryLimit
        /\ Held(Append(t, s)) \subseteq Held(t) \cup {s}
    BY <2>5, AppendProperties, LenProperties, DraftAssumption DEF Held
  <2> QED
    BY <2>1, <2>4, <2>6, DraftAssumption DEF t
<1> QED
  BY <1>1, <1>2

LEMMA PopHolds ==
  ASSUME NEW stack \in Seq(Snapshots), stack # <<>>
  PROVE  /\ Front(stack) \in Seq(Snapshots)
         /\ Len(Front(stack)) <= Len(stack)
         /\ Held(Front(stack)) \subseteq Held(stack)
         /\ Last(stack) \in Held(stack)
         /\ Last(stack) \in Snapshots
<1>1. Len(stack) \in Nat /\ Len(stack) > 0 /\ DOMAIN stack = 1..Len(stack)
  BY EmptySeq, LenProperties
<1>2. Last(stack) = stack[Len(stack)] /\ Front(stack) = SubSeq(stack, 1, Len(stack) - 1)
  BY DEF Last, Front
<1>3. \A i \in 1..Len(stack) : stack[i] \in Snapshots
  BY ElementOfSeq
<1>4. /\ Front(stack) \in Seq(Snapshots)
      /\ Len(Front(stack)) = Len(stack) - 1
      /\ \A i \in 1..Len(stack) - 1 : Front(stack)[i] = stack[i]
  BY <1>1, <1>2, <1>3, SubSeqProperties
<1> QED
  BY <1>1, <1>2, <1>3, <1>4, LenProperties DEF Held

Scopes == [case : Cases, source : 1..MaxRevisions] \cup {Nothing}
Stacks == Seq(Snapshots)

HistoryOK(h) ==
    /\ h \in [scope : Scopes, undo : Stacks, redo : Stacks]
    /\ Len(h.undo) <= HistoryLimit /\ Len(h.redo) <= HistoryLimit

Snaps(h) == Held(h.undo) \cup Held(h.redo)

LEMMA DeskShape ==
  ASSUME NEW d \in Desk
  PROVE  /\ d.case \in Cases /\ d.revision \in 1..MaxRevisions /\ d.run \in 0..MaxRuns
         /\ d.contract \in Contract /\ d.mask \in Mask
         /\ Scope(d) \in [case : Cases, source : 1..MaxRevisions]
         /\ Snapshot(d) \in Snapshots
         /\ Snapshot(d).waivers = d.contract.waivers
         /\ Snapshot(d).approved = d.contract.approved
BY DEF Desk, Contract, Scope, Snapshot, Snapshots

\* A desk whose contract alone is replaced, by one of the same source.
LEMMA ContractReplaced ==
  ASSUME NEW d \in Desk, NEW c \in Contract
  PROVE  LET e == [d EXCEPT !.contract = c]
         IN  /\ e \in Desk
             /\ e.case = d.case /\ e.revision = d.revision /\ e.run = d.run /\ e.mask = d.mask
             /\ e.contract = c
             /\ c.source = d.contract.source => Scope(e) = Scope(d)
BY DEF Desk, Scope

LEMMA StacksReplaced ==
  ASSUME NEW S, NEW U, NEW h \in [scope : S, undo : U, redo : U],
         NEW u \in U, NEW r \in U, NEW s \in S
  PROVE  /\ [h EXCEPT !.scope = s] \in [scope : S, undo : U, redo : U]
         /\ [h EXCEPT !.scope = s].scope = s
         /\ [h EXCEPT !.scope = s].undo = h.undo
         /\ [h EXCEPT !.scope = s].redo = h.redo
         /\ [h EXCEPT !.undo = u] \in [scope : S, undo : U, redo : U]
         /\ [h EXCEPT !.undo = u].scope = h.scope
         /\ [h EXCEPT !.undo = u].undo = u
         /\ [h EXCEPT !.undo = u].redo = h.redo
         /\ [h EXCEPT !.redo = r] \in [scope : S, undo : U, redo : U]
         /\ [h EXCEPT !.redo = r].scope = h.scope
         /\ [h EXCEPT !.redo = r].undo = h.undo
         /\ [h EXCEPT !.redo = r].redo = r
OBVIOUS

LEMMA EmptyStacks == /\ HistoryOK(Cleared) /\ Snaps(Cleared) = {}
                     /\ \A d \in Desk : /\ HistoryOK(Rebased(d)) /\ Snaps(Rebased(d)) = {}
                                        /\ Rebased(d).scope = Scope(d)
                                        /\ Cleared.scope # Scope(d)
<1>1. <<>> \in Seq(Snapshots) /\ Len(<<>>) = 0 /\ Held(<<>>) = {}
  BY EmptySeq DEF Held
<1>2. /\ Cleared \in [scope : Scopes, undo : Stacks, redo : Stacks]
      /\ Cleared.undo = <<>> /\ Cleared.redo = <<>> /\ Cleared.scope = Nothing
  BY <1>1 DEF Cleared, Scopes, Stacks
<1>3. ASSUME NEW d \in Desk
      PROVE  /\ Rebased(d) \in [scope : Scopes, undo : Stacks, redo : Stacks]
             /\ Rebased(d).undo = <<>> /\ Rebased(d).redo = <<>> /\ Nothing # Scope(d)
             /\ Rebased(d).scope = Scope(d)
  <2>1. Scope(d) \in Scopes /\ Nothing # Scope(d)
    BY DeskShape, NothingApart DEF Scopes
  <2> QED
    BY <1>2, <2>1, StacksReplaced DEF Rebased
<1> QED
  BY <1>1, <1>2, <1>3, DraftAssumption DEF HistoryOK, Snaps

LEMMA RecordHolds ==
  ASSUME NEW h, HistoryOK(h), NEW before \in Desk, NEW after \in Desk, NEW coalesce
  PROVE  LET r == RecordChange(h, before, after, coalesce)
         IN  /\ HistoryOK(r)
             /\ r.scope = Scope(after)
             /\ Snaps(r) \subseteq
                  (IF h.scope = Scope(after) THEN Snaps(h) ELSE {}) \cup {Snapshot(before)}
<1> DEFINE ensured == EnsureScope(h, after)
           scoped == [ensured EXCEPT !.redo = <<>>]
           pushed == [scoped EXCEPT !.undo = PushBounded(@, Snapshot(before))]
           kept == IF h.scope = Scope(after) THEN Snaps(h) ELSE {}
<1>1. HistoryOK(ensured) /\ ensured.scope = Scope(after) /\ Snaps(ensured) \subseteq kept
  BY EmptyStacks DEF EnsureScope
<1>2. <<>> \in Stacks /\ Len(<<>>) = 0 /\ Held(<<>>) = {}
  BY EmptySeq DEF Held, Stacks
<1> HIDE DEF ensured
<1>3. HistoryOK(scoped) /\ scoped.scope = Scope(after) /\ Snaps(scoped) \subseteq kept
  <2>1. /\ scoped \in [scope : Scopes, undo : Stacks, redo : Stacks]
        /\ scoped.scope = ensured.scope /\ scoped.undo = ensured.undo /\ scoped.redo = <<>>
    BY <1>1, <1>2, StacksReplaced DEF HistoryOK
  <2> HIDE DEF scoped, kept
  <2> QED
    BY <1>1, <1>2, <2>1, DraftAssumption DEF HistoryOK, Snaps
<1> HIDE DEF scoped
<1> DEFINE stack == PushBounded(scoped.undo, Snapshot(before))
<1>4. /\ stack \in Stacks
      /\ Len(stack) <= HistoryLimit
      /\ Held(stack) \subseteq Held(scoped.undo) \cup {Snapshot(before)}
  BY <1>3, PushHolds, DeskShape DEF HistoryOK, Stacks
<1> HIDE DEF stack
<1>5. /\ HistoryOK(pushed) /\ pushed.scope = Scope(after)
      /\ Snaps(pushed) \subseteq kept \cup {Snapshot(before)}
  <2>1. pushed = [scoped EXCEPT !.undo = stack]
    BY DEF stack
  <2>2. /\ pushed \in [scope : Scopes, undo : Stacks, redo : Stacks]
        /\ pushed.scope = scoped.scope /\ pushed.undo = stack /\ pushed.redo = scoped.redo
    <3> HIDE DEF pushed
    <3> QED
      BY <1>3, <1>4, <2>1, StacksReplaced DEF HistoryOK
  <2> HIDE DEF pushed, kept
  <2> QED
    BY <1>3, <1>4, <2>2 DEF HistoryOK, Snaps
<1>6. RecordChange(h, before, after, coalesce) \in {scoped, pushed}
  BY Zenon DEF RecordChange, scoped, ensured
<1> HIDE DEF pushed, kept
<1> QED
  BY <1>3, <1>5, <1>6 DEF kept

\* Undo and redo move one snapshot from one stack, and the draft to the other.
LEMMA UndoHolds ==
  ASSUME NEW h, HistoryOK(h), NEW d \in Desk, h.undo # <<>>
  PROVE  /\ HistoryOK(UndoOf(h, d)) /\ UndoOf(h, d).scope = h.scope
         /\ Snaps(UndoOf(h, d)) \subseteq Snaps(h) \cup {Snapshot(d)}
         /\ Last(h.undo) \in Snaps(h) /\ Last(h.undo) \in Snapshots
<1>1. /\ Front(h.undo) \in Seq(Snapshots) /\ Len(Front(h.undo)) <= Len(h.undo)
      /\ Held(Front(h.undo)) \subseteq Held(h.undo)
      /\ Last(h.undo) \in Held(h.undo) /\ Last(h.undo) \in Snapshots
      /\ Len(Front(h.undo)) \in Nat /\ Len(h.undo) \in Nat
  BY PopHolds, LenProperties DEF HistoryOK, Stacks
<1> DEFINE less == Front(h.undo)
           more == PushBounded(h.redo, Snapshot(d))
<1>2. /\ more \in Stacks
      /\ Len(more) <= HistoryLimit
      /\ Held(more) \subseteq Held(h.redo) \cup {Snapshot(d)}
  BY PushHolds, DeskShape DEF HistoryOK, Stacks
<1>3. less \in Stacks /\ Len(less) <= HistoryLimit
  BY <1>1, DraftAssumption DEF HistoryOK, Stacks
<1>4. UndoOf(h, d) = [h EXCEPT !.undo = less, !.redo = more]
  BY DEF UndoOf
<1> HIDE DEF less, more
<1>5. /\ UndoOf(h, d) \in [scope : Scopes, undo : Stacks, redo : Stacks]
      /\ UndoOf(h, d).scope = h.scope /\ UndoOf(h, d).undo = less /\ UndoOf(h, d).redo = more
  <2>1. h \in [scope : Scopes, undo : Stacks, redo : Stacks] /\ h.scope \in Scopes
    BY DEF HistoryOK
  <2> QED
    BY <1>2, <1>3, <1>4, <2>1
<1> QED
  BY <1>1, <1>2, <1>3, <1>5 DEF HistoryOK, Snaps, less

LEMMA RedoHolds ==
  ASSUME NEW h, HistoryOK(h), NEW d \in Desk, h.redo # <<>>
  PROVE  /\ HistoryOK(RedoOf(h, d)) /\ RedoOf(h, d).scope = h.scope
         /\ Snaps(RedoOf(h, d)) \subseteq Snaps(h) \cup {Snapshot(d)}
         /\ Last(h.redo) \in Snaps(h) /\ Last(h.redo) \in Snapshots
<1>1. /\ Front(h.redo) \in Seq(Snapshots) /\ Len(Front(h.redo)) <= Len(h.redo)
      /\ Held(Front(h.redo)) \subseteq Held(h.redo)
      /\ Last(h.redo) \in Held(h.redo) /\ Last(h.redo) \in Snapshots
      /\ Len(Front(h.redo)) \in Nat /\ Len(h.redo) \in Nat
  BY PopHolds, LenProperties DEF HistoryOK, Stacks
<1> DEFINE less == Front(h.redo)
           more == PushBounded(h.undo, Snapshot(d))
<1>2. /\ more \in Stacks
      /\ Len(more) <= HistoryLimit
      /\ Held(more) \subseteq Held(h.undo) \cup {Snapshot(d)}
  BY PushHolds, DeskShape DEF HistoryOK, Stacks
<1>3. less \in Stacks /\ Len(less) <= HistoryLimit
  BY <1>1, DraftAssumption DEF HistoryOK, Stacks
<1>4. RedoOf(h, d) = [h EXCEPT !.redo = less, !.undo = more]
  BY DEF RedoOf
<1> HIDE DEF less, more
<1>5. /\ RedoOf(h, d) \in [scope : Scopes, undo : Stacks, redo : Stacks]
      /\ RedoOf(h, d).scope = h.scope /\ RedoOf(h, d).redo = less /\ RedoOf(h, d).undo = more
  <2>1. h \in [scope : Scopes, undo : Stacks, redo : Stacks] /\ h.scope \in Scopes
    BY DEF HistoryOK
  <2> QED
    BY <1>2, <1>3, <1>4, <2>1
<1> QED
  BY <1>1, <1>2, <1>3, <1>5 DEF HistoryOK, Snaps, less

(***************************************************************************)
(* The parts of the type invariant.                                        *)
(***************************************************************************)
LedgerOK ==
    /\ ledger \in [revisions : Seq(Revision), runs : Seq(Run), selected : 0..MaxRuns]
    /\ Len(ledger.revisions) <= MaxRevisions /\ Len(ledger.runs) <= MaxRuns
    /\ saved \in BOOLEAN /\ access \in {"edit", "read_only"}

DeskOK ==
    /\ desk \in Desk \cup {NoDesk} /\ dirty \in BOOLEAN /\ dragging \in BOOLEAN
    /\ HistoryOK(history)

OrientationOK ==
    /\ draft \in {Angles(a) : a \in Attitudes} \cup {Nothing}
    /\ pending \in [request : WorkRequest, kind : {"draft", "hydrate"}] \cup {Nothing}
    /\ generation \in 0..MaxRequests

WorkerOK ==
    /\ requests \in Seq(WorkRequest) /\ computing \in WorkRequest \cup {Nothing}
    /\ results \in Seq([request : WorkRequest, ok : BOOLEAN])

RestOK ==
    /\ edits \in 0..MaxEdits /\ mishaps \in 0..MaxMishaps
    /\ approvals \subseteq Mask /\ waived \subseteq Geometries \X Waivable

LEMMA TypeParts == TypeOK => LedgerOK /\ DeskOK /\ OrientationOK /\ WorkerOK /\ RestOK
BY DEF TypeOK, LedgerOK, DeskOK, OrientationOK, WorkerOK, RestOK, HistoryOK, Scopes, Stacks

LEMMA PartsType ==
  ASSUME LedgerOK', DeskOK', OrientationOK', WorkerOK', RestOK'
  PROVE  TypeOK'
BY DEF TypeOK, LedgerOK, DeskOK, OrientationOK, WorkerOK, RestOK, HistoryOK, Scopes, Stacks

(***************************************************************************)
(* What a step of each kind does to the invariant.                         *)
(***************************************************************************)
Kept == LedgerInv /\ DeskInv /\ HistoryInv /\ PendingInv

\* Neither the ledger nor the desk changes.
LEMMA Steady ==
  ASSUME Inv, UNCHANGED <<ledger, desk, dirty, history, decisions>>,
         ~HasDesk => pending' \in {pending, Nothing}
  PROVE  Kept'
<1>1. ledger' = ledger /\ desk' = desk /\ dirty' = dirty /\ history' = history
      /\ approvals' = approvals /\ waived' = waived
  BY DEF decisions
<1>2. /\ \A c : Active(c)' = Active(c)
      /\ \A c : Backed(c, approvals') <=> Backed(c, approvals)
      /\ \A c : Covered(c, waived') <=> Covered(c, waived)
      /\ \A run : RunFits(run)' <=> RunFits(run)
      /\ Current' <=> Current
      /\ \A s : SnapshotFits(s)' <=> SnapshotFits(s)
      /\ \A c : Known(c)' <=> Known(c)
  BY <1>1 DEF Active, Backed, Covered, RunFits, Current, SnapshotFits, Known, Revisions
<1>3. LedgerInv'
  BY <1>1, <1>2 DEF Inv, LedgerInv, Revisions
<1>4. DeskInv'
  BY <1>1, <1>2 DEF Inv, DeskInv, HasDesk, MaskMatchesContract, Revisions
<1>5. HistoryInv'
  BY <1>1, <1>2 DEF Inv, HistoryInv, HasDesk
<1>6. PendingInv'
  BY <1>1, <1>2 DEF Inv, PendingInv, HasDesk, Revisions
<1> QED
  BY <1>3, <1>4, <1>5, <1>6 DEF Kept

\* The desk shows a revision as it is on record, with an empty history.
LEMMA OnRecord ==
  ASSUME LedgerInv', desk' \in Desk, desk'.revision \in DOMAIN ledger'.revisions,
         desk'.contract = ledger'.revisions[desk'.revision].contract,
         desk'.mask = MaskOf(desk'.contract),
         desk'.run <= Len(ledger'.runs),
         Snaps(history') = {}
  PROVE  Kept'
<1>1. HasDesk'
  BY NoDeskApart DEF HasDesk
<1>2. Backed(desk'.contract, approvals') /\ Covered(desk'.contract, waived')
  BY DEF LedgerInv, Revisions
<1>3. DeskInv'
  BY <1>2 DEF DeskInv, MaskMatchesContract, Revisions
<1>4. HistoryInv'
  BY DEF HistoryInv, Snaps
<1>5. PendingInv'
  BY <1>1 DEF PendingInv
<1> QED
  BY <1>3, <1>4, <1>5 DEF Kept

\* A revision is appended to the ledger.
LEMMA Appended ==
  ASSUME Inv, NEW new \in Revision, Len(Revisions) < MaxRevisions,
         ledger'.revisions = Append(Revisions, new),
         UNCHANGED decisions, Backed(new.contract, approvals), Covered(new.contract, waived)
  PROVE  /\ ledger'.revisions \in Seq(Revision) /\ Len(ledger'.revisions) <= MaxRevisions
         /\ Len(Revisions) + 1 \in DOMAIN ledger'.revisions
         /\ Len(Revisions) + 1 \in 1..MaxRevisions
         /\ ledger'.revisions[Len(Revisions) + 1] = new
         /\ \A c \in Cases : Known(c)' =>
                \E r \in DOMAIN ledger'.revisions : IsActive(ledger'.revisions, r, c)
         /\ \A r \in DOMAIN ledger'.revisions :
                /\ Backed(ledger'.revisions[r].contract, approvals')
                /\ Covered(ledger'.revisions[r].contract, waived')
         /\ \A run : RunFits(run) => RunFits(run)'
<1> DEFINE n == Len(Revisions) + 1
<1>1. Revisions \in Seq(Revision) /\ Len(Revisions) \in Nat
  BY LenProperties, TypeParts DEF Inv, LedgerOK, Revisions
<1>2. /\ ledger'.revisions \in Seq(Revision)
      /\ Len(ledger'.revisions) = n
      /\ DOMAIN ledger'.revisions = DOMAIN Revisions \cup {n}
      /\ n \notin DOMAIN Revisions
      /\ \A r \in DOMAIN Revisions : ledger'.revisions[r] = Revisions[r]
      /\ ledger'.revisions[n] = new
      /\ IsActive(ledger'.revisions, n, new.case)
      /\ \A c, r : c # new.case /\ IsActive(Revisions, r, c) => IsActive(ledger'.revisions, r, c)
  BY <1>1, AppendActive
<1>3. n \in 1..MaxRevisions /\ n <= MaxRevisions
  BY <1>1, DraftAssumption
<1> HIDE DEF n
<1>4. approvals' = approvals /\ waived' = waived
  BY DEF decisions
<1>5. ASSUME NEW c \in Cases, Known(c)'
      PROVE  \E r \in DOMAIN ledger'.revisions : IsActive(ledger'.revisions, r, c)
  <2>1. CASE c = new.case
    BY <1>2, <2>1
  <2>2. CASE c # new.case
    <3>1. Known(c)
      BY <1>2, <1>5, <2>2 DEF Known, Revisions
    <3>2. PICK r \in DOMAIN Revisions : IsActive(Revisions, r, c)
      BY <3>1 DEF Inv, LedgerInv
    <3> QED
      BY <1>2, <2>2, <3>2
  <2> QED
    BY <2>1, <2>2
<1>6. ASSUME NEW r \in DOMAIN ledger'.revisions
      PROVE  /\ Backed(ledger'.revisions[r].contract, approvals')
             /\ Covered(ledger'.revisions[r].contract, waived')
  BY <1>2, <1>4 DEF Inv, LedgerInv
<1>7. ASSUME NEW run, RunFits(run)
      PROVE  RunFits(run)'
  BY <1>2, <1>7 DEF RunFits, Revisions
<1> QED
  BY <1>2, <1>3, <1>5, <1>6, <1>7 DEF n

\* The contract of the desk is edited, and nothing is committed.
LEMMA Drafted ==
  ASSUME Inv, HasDesk, desk' \in Desk, UNCHANGED ledger, dirty' = TRUE,
         desk'.case = desk.case, desk'.revision = desk.revision, desk'.run = desk.run,
         desk'.mask = desk.mask, MaskOf(desk'.contract) = MaskOf(desk.contract),
         approvals \subseteq approvals', waived \subseteq waived',
         Covered(desk'.contract, waived'),
         Current => Backed(desk'.contract, approvals'),
         history'.scope = Scope(desk') => \A s \in Snaps(history') : SnapshotFits(s)'
  PROVE  Kept'
<1>1. HasDesk'
  BY NoDeskApart DEF HasDesk
<1>2. /\ \A c : Active(c)' = Active(c)
      /\ \A c : Backed(c, approvals) => Backed(c, approvals')
      /\ \A c : Covered(c, waived) => Covered(c, waived')
      /\ \A run : RunFits(run)' <=> RunFits(run)
      /\ Current' <=> Current
      /\ \A c : Known(c)' <=> Known(c)
  BY DEF Active, Backed, Covered, RunFits, Current, Known, Revisions
<1>3. LedgerInv'
  <2>1. ASSUME NEW r \in DOMAIN Revisions
        PROVE  Backed(Revisions[r].contract, approvals') /\ Covered(Revisions[r].contract, waived')
    BY <1>2 DEF Inv, LedgerInv, Revisions, Backed, Covered
  <2> QED
    BY <1>2, <2>1 DEF Inv, LedgerInv, Revisions
<1>4. DeskInv'
  BY <1>2 DEF Inv, DeskInv, MaskMatchesContract, Revisions
<1>5. HistoryInv'
  BY DEF HistoryInv, Snaps
<1>6. PendingInv'
  BY <1>1 DEF PendingInv
<1> QED
  BY <1>3, <1>4, <1>5, <1>6 DEF Kept

(***************************************************************************)
(* Commits.                                                                *)
(***************************************************************************)
LEMMA CommittedShape ==
  ASSUME NEW d \in Desk, Len(Revisions) + 1 \in 1..MaxRevisions
  PROVE  LET c == CommittedContract(d)
             e == [d EXCEPT !.revision = Len(Revisions) + 1, !.contract = c]
         IN  /\ c \in Contract
             /\ MaskOf(c) = MaskOf(d.contract)
             /\ SupportIssues(c) = SupportIssues(d.contract)
             /\ c.approved = d.contract.approved /\ c.waivers = d.contract.waivers
             /\ c.geometry = d.contract.geometry
             /\ e \in Desk
             /\ e.case = d.case /\ e.revision = Len(Revisions) + 1 /\ e.contract = c
             /\ e.mask = d.mask /\ e.run = d.run
             /\ NewRevision(d.case, d.revision, c) \in Revision
<1> DEFINE n == Len(Revisions) + 1
           source == IF SourceChanged(d) THEN n ELSE d.contract.source
           c == [d.contract EXCEPT !.declared = TRUE, !.source = source]
           e == [d EXCEPT !.revision = n, !.contract = c]
<1>1. CommittedContract(d) = c
  BY DEF CommittedContract
<1>2. n \in 1..MaxRevisions /\ d.contract \in Contract /\ source \in 1..MaxRevisions
  BY DeskShape DEF Contract
<1> HIDE DEF n, source
<1>3. /\ c \in Contract
      /\ c.geometry = d.contract.geometry /\ c.attitude = d.contract.attitude
      /\ c.grid = d.contract.grid
      /\ c.approved = d.contract.approved /\ c.waivers = d.contract.waivers
  BY <1>2 DEF Contract
<1> HIDE DEF c
<1>4. MaskOf(c) = MaskOf(d.contract) /\ PreflightOf(c) = PreflightOf(d.contract)
  BY <1>3 DEF MaskOf, PreflightOf
<1>5. SupportIssues(c) = SupportIssues(d.contract)
  BY <1>4 DEF SupportIssues
<1>6. /\ e \in Desk
      /\ e.case = d.case /\ e.revision = n /\ e.contract = c
      /\ e.mask = d.mask /\ e.run = d.run
  BY <1>2, <1>3 DEF Desk
<1>7. NewRevision(d.case, d.revision, c) \in Revision
  BY <1>3, DeskShape, DraftAssumption DEF NewRevision, Revision
<1> QED
  BY <1>1, <1>3, <1>4, <1>5, <1>6, <1>7 DEF n

LEMMA Commits ==
  ASSUME Inv, NEW d \in Desk, CommitRevision(d), UNCHANGED decisions,
         d.mask = MaskOf(d.contract), d.run <= Len(ledger.runs),
         Backed(d.contract, approvals), Covered(d.contract, waived)
  PROVE  /\ Kept' /\ DeskOK'
         /\ ledger' \in [revisions : Seq(Revision), runs : Seq(Run), selected : 0..MaxRuns]
         /\ Len(ledger'.revisions) <= MaxRevisions /\ Len(ledger'.runs) <= MaxRuns
<1> DEFINE n == Len(Revisions) + 1
           c == CommittedContract(d)
           new == NewRevision(d.case, d.revision, c)
<1>1. /\ Revisions \in Seq(Revision) /\ Len(Revisions) \in Nat /\ Len(Revisions) < MaxRevisions
      /\ n \in 1..MaxRevisions
  BY LenProperties, TypeParts, DraftAssumption DEF Inv, LedgerOK, Revisions, CommitRevision
<1>2. /\ c \in Contract /\ new \in Revision /\ MaskOf(c) = MaskOf(d.contract)
      /\ desk' \in Desk /\ desk'.revision = n /\ desk'.contract = c
      /\ desk'.mask = d.mask /\ desk'.run = d.run
      /\ Backed(c, approvals) /\ Covered(c, waived)
  BY <1>1, CommittedShape DEF CommitRevision, Backed, Covered
<1>3. /\ new.contract = c
      /\ ledger' = [ledger EXCEPT !.revisions = Append(Revisions, new)]
      /\ dirty' = FALSE /\ history' = Rebased(desk') /\ dragging' = FALSE
  BY DEF CommitRevision, NewRevision, Revisions
<1> HIDE DEF n, c, new
<1>4. /\ ledger'.revisions = Append(Revisions, new)
      /\ ledger'.runs = ledger.runs /\ ledger'.selected = ledger.selected
  BY <1>3, TypeParts DEF Inv, LedgerOK
<1>5. /\ ledger'.revisions \in Seq(Revision) /\ Len(ledger'.revisions) <= MaxRevisions
      /\ n \in DOMAIN ledger'.revisions /\ ledger'.revisions[n] = new
      /\ \A a \in Cases : Known(a)' =>
             \E r \in DOMAIN ledger'.revisions : IsActive(ledger'.revisions, r, a)
      /\ \A r \in DOMAIN ledger'.revisions :
             /\ Backed(ledger'.revisions[r].contract, approvals')
             /\ Covered(ledger'.revisions[r].contract, waived')
      /\ \A run : RunFits(run) => RunFits(run)'
  BY <1>1, <1>2, <1>3, <1>4, Appended DEF n
<1>6. LedgerInv'
  BY <1>4, <1>5 DEF LedgerInv, Inv, Revisions
<1>7. Kept'
  BY <1>2, <1>3, <1>4, <1>5, <1>6, EmptyStacks, OnRecord
<1>8. DeskOK'
  BY <1>2, <1>3, EmptyStacks DEF DeskOK
<1>9. ledger' \in [revisions : Seq(Revision), runs : Seq(Run), selected : 0..MaxRuns]
  BY <1>3, <1>5, <1>4, TypeParts DEF Inv, LedgerOK
<1> QED
  BY <1>4, <1>5, <1>7, <1>8, <1>9, TypeParts DEF Inv, LedgerOK

\* A commit finds the draft of the desk on record already.
LEMMA CommitsNothing ==
  ASSUME Inv, HasDesk, CommitUnchanged(desk), UNCHANGED <<decisions, pending>>
  PROVE  Kept' /\ DeskOK'
<1>1. /\ ledger' = ledger /\ desk' = desk /\ dirty' = FALSE /\ history' = history
      /\ dragging' = dragging
      /\ desk.contract = Revisions[desk.revision].contract
      /\ approvals' = approvals /\ waived' = waived /\ pending' = pending
  BY DEF CommitUnchanged, Unchanged, editing, decisions
<1>2. /\ \A a : Active(a)' = Active(a)
      /\ \A run : RunFits(run)' <=> RunFits(run)
      /\ Current' <=> Current
      /\ \A s : SnapshotFits(s)' <=> SnapshotFits(s)
      /\ \A a : Known(a)' <=> Known(a)
  BY <1>1 DEF Active, RunFits, Current, SnapshotFits, Known, Revisions
<1>3. LedgerInv'
  BY <1>1, <1>2 DEF Inv, LedgerInv, Revisions
<1>4. DeskInv'
  BY <1>1, <1>2 DEF Inv, DeskInv, HasDesk, MaskMatchesContract, Revisions
<1>5. HistoryInv'
  BY <1>1, <1>2 DEF Inv, HistoryInv, HasDesk
<1>6. PendingInv'
  BY <1>1, <1>2 DEF Inv, PendingInv, HasDesk, Revisions
<1>7. DeskOK'
  BY <1>1, TypeParts DEF Inv, DeskOK
<1> QED
  BY <1>3, <1>4, <1>5, <1>6, <1>7 DEF Kept

(***************************************************************************)
(* Edits of the draft.                                                     *)
(***************************************************************************)
LEMMA DeskTyped ==
  ASSUME Inv, HasDesk
  PROVE  /\ desk \in Desk /\ desk.contract \in Contract /\ HistoryOK(history)
         /\ desk.revision \in DOMAIN Revisions
         /\ desk.run \in 0..Len(ledger.runs)
         /\ desk.mask = MaskOf(desk.contract)
         /\ Covered(desk.contract, waived)
         /\ Current => Backed(desk.contract, approvals)
<1>1. desk \in Desk /\ HistoryOK(history) /\ Len(ledger.runs) \in Nat
  BY TypeParts, LenProperties DEF Inv, DeskOK, LedgerOK, HasDesk
<1> QED
  BY <1>1, DeskShape DEF Inv, DeskInv, HasDesk, MaskMatchesContract

LEMMA EditedKept ==
  ASSUME Inv, HasDesk, NEW c \in Contract, NEW transaction \in BOOLEAN,
         Edited([desk EXCEPT !.contract = c], transaction),
         MaskOf(c) = MaskOf(desk.contract), c.geometry = desk.contract.geometry,
         c.source = desk.contract.source,
         approvals \subseteq approvals', waived \subseteq waived',
         Covered(c, waived'), Current => Backed(c, approvals')
  PROVE  Kept' /\ LedgerOK' /\ DeskOK' /\ OrientationOK' /\ WorkerOK'
         /\ edits' \in 0..MaxEdits /\ mishaps' = mishaps
<1> DEFINE e == [desk EXCEPT !.contract = c]
<1>1. /\ desk \in Desk /\ HistoryOK(history) /\ Covered(desk.contract, waived)
      /\ Current => Backed(desk.contract, approvals)
  BY DeskTyped
<1>2. /\ e \in Desk /\ e.contract = c /\ Scope(e) = Scope(desk)
      /\ e.case = desk.case /\ e.revision = desk.revision /\ e.run = desk.run
      /\ e.mask = desk.mask
  BY <1>1, ContractReplaced
<1>3. /\ desk' = e /\ dirty' = TRUE /\ dragging' = transaction
      /\ history' = RecordChange(history, desk, e, transaction /\ dragging)
      /\ UNCHANGED <<project, orientation, worker, mishaps>>
      /\ edits < MaxEdits /\ edits' = edits + 1
  BY DEF Edited
<1> HIDE DEF e
<1>4. /\ HistoryOK(history') /\ history'.scope = Scope(e)
      /\ Snaps(history') \subseteq
           (IF history.scope = Scope(desk) THEN Snaps(history) ELSE {}) \cup {Snapshot(desk)}
  BY <1>1, <1>2, <1>3, RecordHolds
<1>5. Current' <=> Current
  BY <1>2, <1>3 DEF Current, Active, Revisions, project
<1>6. ASSUME NEW s \in Snaps(history') PROVE SnapshotFits(s)'
  <2>1. CASE s = Snapshot(desk)
    <3>1. s.waivers = desk.contract.waivers /\ s.approved = desk.contract.approved
      BY <1>1, <2>1, DeskShape
    <3> QED
      BY <1>1, <1>2, <1>3, <1>5, <3>1 DEF SnapshotFits, Covered, Backed
  <2>2. CASE s # Snapshot(desk)
    <3>1. history.scope = Scope(desk) /\ s \in Snaps(history)
      BY <1>4, <2>2
    <3>2. SnapshotFits(s)
      BY <3>1 DEF Inv, HistoryInv, Snaps
    <3> QED
      BY <1>2, <1>3, <1>5, <3>2 DEF SnapshotFits
  <2> QED
    BY <2>1, <2>2
<1>7. Kept'
  BY <1>2, <1>3, <1>6, Drafted DEF project
<1>8. LedgerOK' /\ OrientationOK' /\ WorkerOK'
  BY <1>3, TypeParts DEF Inv, LedgerOK, OrientationOK, WorkerOK, project, orientation, worker
<1>9. DeskOK'
  BY <1>2, <1>3, <1>4 DEF DeskOK
<1> QED
  BY <1>3, <1>7, <1>8, <1>9, TypeParts, DraftAssumption DEF Inv, RestOK

LEMMA EditPointInv ==
  ASSUME Inv, NEW p \in Points, NEW transaction \in BOOLEAN, EditPoint(p, transaction)
  PROVE  Inv'
<1> DEFINE c == [desk.contract EXCEPT !.point = p]
<1>1. HasDesk /\ desk.contract \in Contract /\ Covered(desk.contract, waived)
      /\ (Current => Backed(desk.contract, approvals))
  BY DeskTyped DEF EditPoint, Editable
<1>2. /\ c \in Contract /\ c.geometry = desk.contract.geometry
      /\ c.attitude = desk.contract.attitude /\ c.source = desk.contract.source
      /\ c.approved = desk.contract.approved /\ c.waivers = desk.contract.waivers
  BY <1>1 DEF Contract
<1>3. Edited([desk EXCEPT !.contract = c], transaction) /\ approvals' = approvals /\ waived' = waived
  BY DEF EditPoint, decisions
<1> HIDE DEF c
<1>4. MaskOf(c) = MaskOf(desk.contract)
  BY <1>2 DEF MaskOf
<1>5. Covered(c, waived') /\ (Current => Backed(c, approvals'))
  BY <1>1, <1>2, <1>3, <1>4 DEF Covered, Backed
<1>6. /\ Kept' /\ LedgerOK' /\ DeskOK' /\ OrientationOK' /\ WorkerOK'
      /\ edits' \in 0..MaxEdits /\ mishaps' = mishaps
  BY <1>1, <1>2, <1>3, <1>4, <1>5, EditedKept
<1>7. RestOK'
  BY <1>3, <1>6, TypeParts DEF Inv, RestOK
<1> QED
  BY <1>6, <1>7, PartsType DEF Inv, Kept

LEMMA ToggleApprovalInv ==
  ASSUME Inv, ToggleApproval
  PROVE  Inv'
<1> DEFINE c == [desk.contract EXCEPT !.approved = ~desk.contract.approved]
<1>1. HasDesk /\ desk.contract \in Contract /\ Covered(desk.contract, waived)
  BY DeskTyped DEF ToggleApproval, Editable
<1>2. /\ c \in Contract /\ c.geometry = desk.contract.geometry
      /\ c.attitude = desk.contract.attitude /\ c.source = desk.contract.source
      /\ c.approved = ~desk.contract.approved /\ c.waivers = desk.contract.waivers
  BY <1>1 DEF Contract
<1>3. /\ Edited([desk EXCEPT !.contract = c], FALSE)
      /\ approvals' = (IF desk.contract.approved THEN approvals
                       ELSE approvals \cup {MaskOf(desk.contract)})
      /\ waived' = waived
  BY DEF ToggleApproval
<1> HIDE DEF c
<1>4. MaskOf(c) = MaskOf(desk.contract)
  BY <1>2 DEF MaskOf
<1>5. approvals \subseteq approvals' /\ Covered(c, waived') /\ Backed(c, approvals')
  BY <1>1, <1>2, <1>3, <1>4 DEF Covered, Backed
<1>6. /\ Kept' /\ LedgerOK' /\ DeskOK' /\ OrientationOK' /\ WorkerOK'
      /\ edits' \in 0..MaxEdits /\ mishaps' = mishaps
  BY <1>1, <1>2, <1>3, <1>4, <1>5, EditedKept
<1>7. RestOK'
  BY <1>1, <1>3, <1>6, MaskOfContract, TypeParts DEF Inv, RestOK
<1> QED
  BY <1>6, <1>7, PartsType DEF Inv, Kept

LEMMA RecordWaiverInv ==
  ASSUME Inv, NEW code \in Waivable, RecordWaiver(code)
  PROVE  Inv'
<1> DEFINE c == [desk.contract EXCEPT !.waivers = desk.contract.waivers \cup {code}]
<1>1. HasDesk /\ desk.contract \in Contract /\ Covered(desk.contract, waived)
      /\ (Current => Backed(desk.contract, approvals))
  BY DeskTyped DEF RecordWaiver, Editable
<1>2. /\ c \in Contract /\ c.geometry = desk.contract.geometry
      /\ c.attitude = desk.contract.attitude /\ c.source = desk.contract.source
      /\ c.approved = desk.contract.approved /\ c.waivers = desk.contract.waivers \cup {code}
      /\ desk.contract.geometry \in Geometries
  BY <1>1 DEF Contract
<1>3. /\ Edited([desk EXCEPT !.contract = c], FALSE)
      /\ waived' = waived \cup {<<desk.contract.geometry, code>>}
      /\ approvals' = approvals
  BY DEF RecordWaiver
<1> HIDE DEF c
<1>4. MaskOf(c) = MaskOf(desk.contract)
  BY <1>2 DEF MaskOf
<1>5. Covered(c, waived') /\ (Current => Backed(c, approvals')) /\ waived \subseteq waived'
  BY <1>1, <1>2, <1>3, <1>4 DEF Covered, Backed
<1>6. /\ Kept' /\ LedgerOK' /\ DeskOK' /\ OrientationOK' /\ WorkerOK'
      /\ edits' \in 0..MaxEdits /\ mishaps' = mishaps
  BY <1>1, <1>2, <1>3, <1>4, <1>5, EditedKept
<1>7. RestOK'
  BY <1>2, <1>3, <1>6, TypeParts DEF Inv, RestOK
<1> QED
  BY <1>6, <1>7, PartsType DEF Inv, Kept

LEMMA SelectModelInv ==
  ASSUME Inv, NEW m \in Models, SelectModel(m)
  PROVE  Inv'
<1> DEFINE c == [desk.contract EXCEPT !.model = m]
           e == [desk EXCEPT !.contract = c]
<1>1. HasDesk /\ desk \in Desk /\ desk.contract \in Contract /\ Covered(desk.contract, waived)
      /\ (Current => Backed(desk.contract, approvals))
  BY DeskTyped DEF SelectModel, Editable
<1>2. /\ c \in Contract /\ c.geometry = desk.contract.geometry
      /\ c.attitude = desk.contract.attitude /\ c.source = desk.contract.source
      /\ c.approved = desk.contract.approved /\ c.waivers = desk.contract.waivers
  BY <1>1 DEF Contract
<1>3. /\ desk' = e /\ dirty' = TRUE /\ dragging' = FALSE /\ history' = Rebased(desk)
      /\ UNCHANGED <<project, orientation, worker, mishaps>>
      /\ approvals' = approvals /\ waived' = waived
      /\ edits < MaxEdits /\ edits' = edits + 1
  BY DEF SelectModel, decisions
<1> HIDE DEF c
<1>4. /\ e \in Desk /\ e.contract = c
      /\ e.case = desk.case /\ e.revision = desk.revision /\ e.run = desk.run
      /\ e.mask = desk.mask
  BY <1>1, <1>2, ContractReplaced
<1> HIDE DEF e
<1>5. MaskOf(c) = MaskOf(desk.contract)
  BY <1>2 DEF MaskOf
<1>6. Covered(c, waived') /\ (Current => Backed(c, approvals'))
  BY <1>1, <1>2, <1>3, <1>5 DEF Covered, Backed
<1>7. HistoryOK(history') /\ Snaps(history') = {}
  BY <1>1, <1>3, EmptyStacks
<1>8. Kept'
  BY <1>1, <1>3, <1>4, <1>5, <1>6, <1>7, Drafted DEF project
<1>9. LedgerOK' /\ OrientationOK' /\ WorkerOK'
  BY <1>3, TypeParts DEF Inv, LedgerOK, OrientationOK, WorkerOK, project, orientation, worker
<1>10. DeskOK'
  BY <1>3, <1>4, <1>7 DEF DeskOK
<1>11. RestOK'
  BY <1>3, TypeParts, DraftAssumption DEF Inv, RestOK
<1> QED
  BY <1>8, <1>9, <1>10, <1>11, PartsType DEF Inv, Kept

\* Undo and redo put back a snapshot s and move the draft to the other stack.
LEMMA HistoryActionInv ==
  ASSUME Inv, HasDesk, history.scope = Scope(desk),
         NEW s \in Snapshots, NEW h, HistoryOK(h), h.scope = history.scope,
         Snaps(h) \subseteq Snaps(history) \cup {Snapshot(desk)}, s \in Snaps(history),
         ApplyHistoryAction(s, h)
  PROVE  Inv'
<1> DEFINE c == [desk.contract EXCEPT !.point = s.point, !.approved = s.approved,
                                      !.waivers = s.waivers]
           e == [desk EXCEPT !.contract = c]
<1>1. /\ desk \in Desk /\ desk.contract \in Contract /\ Covered(desk.contract, waived)
      /\ (Current => Backed(desk.contract, approvals))
  BY DeskTyped
<1>2. \A t \in Snaps(history) : SnapshotFits(t)
  BY DEF Inv, HistoryInv, Snaps
<1>3. /\ c \in Contract /\ c.geometry = desk.contract.geometry
      /\ c.attitude = desk.contract.attitude /\ c.source = desk.contract.source
      /\ c.approved = s.approved /\ c.waivers = s.waivers
  BY <1>1 DEF Contract, Snapshots
<1>4. Restore(desk, s) = e
  BY <1>1 DEF Restore, Desk, Contract
<1>5. /\ desk' = e /\ dirty' = TRUE /\ dragging' = FALSE /\ history' = h
      /\ UNCHANGED <<project, orientation, worker, budget>>
      /\ approvals' = approvals /\ waived' = waived
  BY <1>4 DEF ApplyHistoryAction, decisions
<1> HIDE DEF c
<1>6. /\ e \in Desk /\ e.contract = c /\ Scope(e) = Scope(desk)
      /\ e.case = desk.case /\ e.revision = desk.revision /\ e.run = desk.run
      /\ e.mask = desk.mask
  BY <1>1, <1>3, ContractReplaced
<1> HIDE DEF e
<1>7. MaskOf(c) = MaskOf(desk.contract)
  BY <1>3 DEF MaskOf
<1>8. Covered(c, waived') /\ (Current => Backed(c, approvals'))
  BY <1>2, <1>3, <1>5, <1>7 DEF Covered, Backed, SnapshotFits
<1>9. Current' <=> Current
  BY <1>5, <1>6 DEF Current, Active, Revisions, project
<1>10. ASSUME NEW t \in Snaps(history') PROVE SnapshotFits(t)'
  <2>1. CASE t = Snapshot(desk)
    <3>1. t.waivers = desk.contract.waivers /\ t.approved = desk.contract.approved
      BY <1>1, <2>1, DeskShape
    <3> QED
      BY <1>1, <1>3, <1>5, <1>6, <1>7, <1>9, <3>1 DEF SnapshotFits, Covered, Backed
  <2>2. CASE t \in Snaps(history)
    BY <1>2, <1>3, <1>5, <1>6, <1>7, <1>9, <2>2 DEF SnapshotFits
  <2> QED
    BY <1>5, <2>1, <2>2
<1>11. Kept'
  BY <1>3, <1>5, <1>6, <1>7, <1>8, <1>10, Drafted DEF project
<1>12. LedgerOK' /\ OrientationOK' /\ WorkerOK'
  BY <1>5, TypeParts DEF Inv, LedgerOK, OrientationOK, WorkerOK, project, orientation, worker
<1>13. DeskOK'
  BY <1>5, <1>6 DEF DeskOK
<1>14. RestOK'
  BY <1>5, TypeParts DEF Inv, RestOK, budget
<1> QED
  BY <1>11, <1>12, <1>13, <1>14, PartsType DEF Inv, Kept

LEMMA UndoInv ==
  ASSUME Inv, Undo
  PROVE  Inv'
<1>1. /\ HasDesk /\ history.scope = Scope(desk) /\ history.undo # <<>>
      /\ desk \in Desk /\ HistoryOK(history)
      /\ ApplyHistoryAction(Last(history.undo), UndoOf(history, desk))
  BY DeskTyped DEF Undo, Editable, CanUndo
<1> QED
  BY <1>1, UndoHolds, HistoryActionInv

LEMMA RedoInv ==
  ASSUME Inv, Redo
  PROVE  Inv'
<1>1. /\ HasDesk /\ history.scope = Scope(desk) /\ history.redo # <<>>
      /\ desk \in Desk /\ HistoryOK(history)
      /\ ApplyHistoryAction(Last(history.redo), RedoOf(history, desk))
  BY DeskTyped DEF Redo, Editable, CanRedo
<1> QED
  BY <1>1, RedoHolds, HistoryActionInv

(***************************************************************************)
(* Steps that leave the ledger and the desk alone.                         *)
(***************************************************************************)
LEMMA EndDragInv ==
  ASSUME Inv, EndDrag
  PROVE  Inv'
<1>1. Kept'
  BY Steady DEF EndDrag, project, orientation
<1>2. LedgerOK' /\ DeskOK' /\ OrientationOK' /\ WorkerOK' /\ RestOK'
  BY TypeParts DEF EndDrag, project, orientation, worker, budget, decisions, Inv, LedgerOK,
       DeskOK, OrientationOK, WorkerOK, RestOK
<1> QED
  BY <1>1, <1>2, PartsType DEF Inv, Kept

LEMMA DraftTyped ==
  ASSUME NEW a \in Attitudes
  PROVE  DraftOf(a) \in {Angles(b) : b \in Attitudes} \cup {Nothing}
BY DEF DraftOf

LEMMA EditOrientationInv ==
  ASSUME Inv, NEW a \in Attitudes, EditOrientation(a)
  PROVE  Inv'
<1>1. Kept'
  BY Steady DEF EditOrientation, project, editing
<1>2. OrientationOK'
  BY DraftTyped, TypeParts DEF EditOrientation, Inv, OrientationOK
<1>3. LedgerOK' /\ DeskOK' /\ WorkerOK' /\ RestOK'
  BY TypeParts DEF EditOrientation, project, editing, worker, budget, decisions, Inv, LedgerOK,
       DeskOK, WorkerOK, RestOK
<1> QED
  BY <1>1, <1>2, <1>3, PartsType DEF Inv, Kept

LEMMA Queued ==
  ASSUME Inv, NEW c \in Cases, NEW g \in Geometries, NEW a \in Attitudes,
         NEW kind \in {"draft", "hydrate"}, Queue(c, g, a, kind)
  PROVE  /\ generation' \in 0..MaxRequests
         /\ pending' \in [request : WorkRequest, kind : {"draft", "hydrate"}]
         /\ pending'.request.case = c /\ pending'.request.geometry = g
         /\ pending'.request.angles = a
         /\ requests' \in Seq(WorkRequest)
<1> DEFINE r == Request(generation + 1, c, g, a)
<1>1. generation \in 0..MaxRequests /\ requests \in Seq(WorkRequest)
  BY TypeParts DEF Inv, OrientationOK, WorkerOK
<1>2. /\ r \in WorkRequest /\ r.case = c /\ r.geometry = g /\ r.angles = a
      /\ generation + 1 \in 0..MaxRequests
  BY <1>1, DraftAssumption DEF Queue, Request, WorkRequest
<1>3. /\ generation' = generation + 1 /\ requests' = Append(requests, r)
      /\ pending' = [request |-> r, kind |-> kind]
  BY DEF Queue
<1> HIDE DEF r
<1> QED
  BY <1>1, <1>2, <1>3, AppendProperties

LEMMA ApplyBodyOrientationInv ==
  ASSUME Inv, NEW a \in Attitudes, ApplyBodyOrientation(a)
  PROVE  Inv'
<1>1. HasDesk /\ desk.case \in Cases /\ desk.contract.geometry \in Geometries
  BY DeskTyped, DeskShape DEF ApplyBodyOrientation, Editable, Contract
<1>2. /\ generation' \in 0..MaxRequests
      /\ pending' \in [request : WorkRequest, kind : {"draft", "hydrate"}]
      /\ requests' \in Seq(WorkRequest)
  BY <1>1, Queued DEF ApplyBodyOrientation
<1>3. Kept'
  BY <1>1, Steady DEF ApplyBodyOrientation, project, editing
<1>4. OrientationOK'
  BY <1>2, DraftTyped DEF ApplyBodyOrientation, OrientationOK
<1>5. LedgerOK' /\ DeskOK' /\ RestOK'
  BY TypeParts DEF ApplyBodyOrientation, project, editing, budget, decisions, Inv, LedgerOK,
       DeskOK, RestOK
<1>6. WorkerOK'
  BY <1>2, TypeParts DEF ApplyBodyOrientation, Inv, WorkerOK
<1> QED
  BY <1>3, <1>4, <1>5, <1>6, PartsType DEF Inv, Kept

LEMMA WorkInv ==
  ASSUME Inv, Work
  PROVE  Inv'
<1>1. CASE TakeNewest
  <2>1. Kept'
    BY <1>1, Steady DEF TakeNewest, project, editing, orientation
  <2>2. Len(requests) \in Nat /\ Len(requests) > 0 /\ requests \in Seq(WorkRequest)
    BY <1>1, TypeParts, EmptySeq, LenProperties DEF TakeNewest, Inv, WorkerOK
  <2>3. Last(requests) \in WorkRequest /\ <<>> \in Seq(WorkRequest)
    BY <2>2, ElementOfSeq, EmptySeq DEF Last
  <2>4. WorkerOK'
    BY <1>1, <2>3, TypeParts DEF TakeNewest, Inv, WorkerOK
  <2>5. LedgerOK' /\ DeskOK' /\ OrientationOK' /\ RestOK'
    BY <1>1, TypeParts DEF TakeNewest, project, editing, orientation, budget, decisions, Inv,
         LedgerOK, DeskOK, OrientationOK, RestOK
  <2> QED
    BY <2>1, <2>4, <2>5, PartsType DEF Inv, Kept
<1>2. ASSUME NEW ok \in BOOLEAN, Finish(ok)
      PROVE  Inv'
  <2>1. Kept'
    BY <1>2, Steady DEF Finish, project, editing, orientation
  <2>2. computing \in WorkRequest /\ results \in Seq([request : WorkRequest, ok : BOOLEAN])
    BY <1>2, TypeParts DEF Finish, Inv, WorkerOK
  <2> DEFINE result == [request |-> computing, ok |-> ok]
             Result == [request : WorkRequest, ok : BOOLEAN]
  <2>3. result \in Result /\ results \in Seq(Result) /\ results' = Append(results, result)
    BY <1>2, <2>2 DEF Finish
  <2> HIDE DEF result, Result
  <2>4. results' \in Seq(Result)
    BY <2>3, AppendProperties
  <2>5. WorkerOK'
    BY <1>2, <2>4, TypeParts DEF Finish, Inv, WorkerOK, Result
  <2>6. LedgerOK' /\ DeskOK' /\ OrientationOK'
    BY <1>2, TypeParts DEF Finish, project, editing, orientation, Inv, LedgerOK, DeskOK,
         OrientationOK
  <2>7. RestOK'
    BY <1>2, TypeParts, DraftAssumption DEF Finish, Mishap, decisions, Inv, RestOK
  <2> QED
    BY <2>1, <2>5, <2>6, <2>7, PartsType DEF Inv, Kept
<1> QED
  BY <1>1, <1>2 DEF Work

LEMMA ReconcileDependenciesInv ==
  ASSUME Inv, ReconcileDependencies
  PROVE  Inv'
<1>1. Kept'
  BY Steady DEF ReconcileDependencies, editing, orientation
<1>2. LedgerOK' /\ DeskOK' /\ OrientationOK' /\ WorkerOK'
  BY TypeParts DEF ReconcileDependencies, editing, orientation, worker, Inv, LedgerOK, DeskOK,
       OrientationOK, WorkerOK
<1>3. RestOK'
  BY TypeParts, DraftAssumption DEF ReconcileDependencies, Mishap, decisions, Inv, RestOK
<1> QED
  BY <1>1, <1>2, <1>3, PartsType DEF Inv, Kept

(***************************************************************************)
(* Results of the worker.                                                  *)
(***************************************************************************)
LEMMA Consumed ==
  ASSUME Inv, Consume
  PROVE  /\ Arrived \in [request : WorkRequest, ok : BOOLEAN]
         /\ results' \in Seq([request : WorkRequest, ok : BOOLEAN])
<1> DEFINE Result == [request : WorkRequest, ok : BOOLEAN]
<1>1. results \in Seq(Result) /\ results # <<>> /\ results' = Tail(results)
  BY TypeParts DEF Inv, WorkerOK, Consume
<1> HIDE DEF Result
<1>2. Head(results) \in Result /\ Tail(results) \in Seq(Result)
  BY <1>1, HeadTailProperties
<1> QED
  BY <1>1, <1>2 DEF Result, Arrived

LEMMA DiscardResultInv ==
  ASSUME Inv, DiscardResult
  PROVE  Inv'
<1>1. pending' \in {pending, Nothing}
  BY DEF DiscardResult
<1>2. Kept'
  BY <1>1, Steady DEF DiscardResult, project, editing
<1>3. OrientationOK'
  BY <1>1, TypeParts DEF DiscardResult, Inv, OrientationOK
<1>4. WorkerOK'
  BY Consumed, TypeParts DEF DiscardResult, Inv, WorkerOK
<1>5. LedgerOK' /\ DeskOK' /\ RestOK'
  BY TypeParts DEF DiscardResult, project, editing, budget, decisions, Inv, LedgerOK, DeskOK, RestOK
<1> QED
  BY <1>2, <1>3, <1>4, <1>5, PartsType DEF Inv, Kept

LEMMA ReorientedShape ==
  ASSUME Inv, Consume, Installs(Arrived), pending.kind = "draft"
  PROVE  LET e == Reoriented(Arrived.request.angles)
         IN  /\ HasDesk
             /\ e \in Desk
             /\ e.case = desk.case /\ e.revision = desk.revision /\ e.run = desk.run
             /\ Scope(e) = Scope(desk)
             /\ e.mask = MaskOf(e.contract)
             /\ e.contract.approved = FALSE
             /\ e.contract.geometry = desk.contract.geometry
             /\ e.contract.waivers = desk.contract.waivers
             /\ Arrived.request.angles \in Attitudes
<1> DEFINE a == Arrived.request.angles
           g == Arrived.request.geometry
           c == [desk.contract EXCEPT !.attitude = a, !.approved = FALSE]
           m == [geometry |-> g, attitude |-> a]
           e == [desk EXCEPT !.contract = c, !.mask = m]
<1>1. /\ HasDesk /\ g = desk.contract.geometry
  BY DEF Installs, Wanted, CurrentContext
<1>2. a \in Attitudes /\ g \in Geometries
  BY Consumed DEF WorkRequest
<1>3. desk \in Desk /\ desk.contract \in Contract
  BY <1>1, DeskTyped
<1>4. Reoriented(a) = e
  BY <1>3 DEF Reoriented, Desk, Contract
<1>5. /\ c \in Contract /\ c.geometry = desk.contract.geometry /\ c.attitude = a
      /\ c.approved = FALSE /\ c.waivers = desk.contract.waivers
      /\ c.source = desk.contract.source
  BY <1>2, <1>3 DEF Contract
<1>6. m \in Mask /\ m = MaskOf(c)
  BY <1>1, <1>2, <1>5 DEF Mask, MaskOf
<1> HIDE DEF a, g, c, m
<1>7. /\ e \in Desk /\ e.case = desk.case /\ e.revision = desk.revision /\ e.run = desk.run
      /\ e.contract = c /\ e.mask = m
  BY <1>3, <1>5, <1>6 DEF Desk
<1> HIDE DEF e
<1>8. Scope(e) = Scope(desk)
  BY <1>5, <1>7 DEF Scope
<1> QED
  BY <1>1, <1>2, <1>4, <1>5, <1>6, <1>7, <1>8 DEF a

\* The draft takes the attitude and the ledger stays: either the attitude is
\* that of the revision already, or the revision is not the active one.
LEMMA ReorientedKept ==
  ASSUME Inv, Consume, Installs(Arrived), pending.kind = "draft",
         desk' = Reoriented(Arrived.request.angles),
         UNCHANGED <<ledger, history, decisions>>,
         \/ Unchanged(desk')
         \/ ~Current /\ dirty' = TRUE
  PROVE  Kept' /\ desk' \in Desk
<1>1. /\ HasDesk
      /\ desk' \in Desk
      /\ desk'.case = desk.case /\ desk'.revision = desk.revision /\ desk'.run = desk.run
      /\ Scope(desk') = Scope(desk)
      /\ desk'.mask = MaskOf(desk'.contract)
      /\ desk'.contract.approved = FALSE
      /\ desk'.contract.geometry = desk.contract.geometry
      /\ desk'.contract.waivers = desk.contract.waivers
  BY ReorientedShape
<1>2. HasDesk'
  BY <1>1, NoDeskApart DEF HasDesk
<1>3. approvals' = approvals /\ waived' = waived /\ ledger' = ledger /\ history' = history
  BY DEF decisions
<1>4. /\ \A run : RunFits(run)' <=> RunFits(run)
      /\ \A a : Known(a)' <=> Known(a)
      /\ Current' <=> Current
  BY <1>1, <1>3 DEF RunFits, Known, Current, Active, Revisions
<1>5. Current => /\ desk'.contract = Revisions[desk.revision].contract
                 /\ MaskOf(desk.contract) = MaskOf(desk'.contract)
  BY <1>1 DEF Unchanged, Inv, DeskInv
<1>6. Unchanged(desk') \/ dirty' = TRUE
  OBVIOUS
<1>7. Backed(desk'.contract, approvals') /\ Covered(desk'.contract, waived')
  BY <1>1, <1>3, DeskTyped DEF Backed, Covered
<1>8. LedgerInv'
  BY <1>3, <1>4 DEF Inv, LedgerInv, Revisions
<1>9. DeskInv'
  <2>1. desk.revision \in DOMAIN Revisions /\ desk.run <= Len(ledger.runs)
    BY <1>1 DEF Inv, DeskInv
  <2>2. ~dirty' => desk'.contract = Revisions[desk.revision].contract
    BY <1>1, <1>6 DEF Unchanged
  <2> QED
    BY <1>1, <1>2, <1>3, <1>4, <1>5, <1>7, <2>1, <2>2 DEF DeskInv, MaskMatchesContract, Revisions
<1>10. HistoryInv'
  <2> SUFFICES ASSUME history.scope = Scope(desk),
                      NEW s \in Held(history.undo) \cup Held(history.redo)
               PROVE  SnapshotFits(s)'
    BY <1>1, <1>3 DEF HistoryInv
  <2>1. SnapshotFits(s)
    BY <1>1 DEF Inv, HistoryInv
  <2> QED
    BY <1>1, <1>3, <1>4, <1>5, <2>1 DEF SnapshotFits
<1>11. PendingInv'
  BY <1>2 DEF PendingInv
<1> QED
  BY <1>1, <1>8, <1>9, <1>10, <1>11 DEF Kept

LEMMA InstallBodyOrientationInv ==
  ASSUME Inv, InstallBodyOrientation
  PROVE  Inv'
<1> DEFINE e == Reoriented(Arrived.request.angles)
<1>1. /\ Consume /\ Installs(Arrived) /\ pending.kind = "draft" /\ pending' = Nothing
      /\ draft' \in {draft, Nothing}
      /\ UNCHANGED <<access, generation, requests, computing, budget, decisions>>
      /\ \/ CommitUnchanged(e) /\ UNCHANGED saved
         \/ CommitRevision(e) /\ saved' = FALSE
         \/ /\ ~Unchanged(e) /\ ~Recordable(e) /\ desk' = e /\ dirty' = TRUE
            /\ UNCHANGED <<ledger, saved, editing>>
  BY DEF InstallBodyOrientation
<1>2. /\ HasDesk /\ e \in Desk /\ e.case = desk.case /\ e.revision = desk.revision
      /\ e.run = desk.run /\ e.mask = MaskOf(e.contract)
      /\ e.contract.approved = FALSE
      /\ e.contract.geometry = desk.contract.geometry
      /\ e.contract.waivers = desk.contract.waivers
  BY <1>1, ReorientedShape
<1> HIDE DEF e
<1>3. Kept' /\ DeskOK' /\ LedgerOK'
  <2>1. CASE CommitUnchanged(e) /\ UNCHANGED saved
    <3>1. /\ desk' = e /\ dirty' = FALSE /\ Unchanged(desk')
          /\ UNCHANGED <<ledger, history, decisions, dragging>>
      BY <1>1, <2>1 DEF CommitUnchanged, editing
    <3>2. Kept' /\ desk' \in Desk
      BY <1>1, <3>1, ReorientedKept DEF e
    <3> QED
      BY <1>1, <2>1, <3>1, <3>2, TypeParts DEF Inv, DeskOK, LedgerOK
  <2>2. CASE CommitRevision(e) /\ saved' = FALSE
    <3>1. Backed(e.contract, approvals) /\ Covered(e.contract, waived)
          /\ e.run <= Len(ledger.runs)
      BY <1>2, DeskTyped DEF Backed, Covered, Inv, DeskInv
    <3>2. /\ Kept' /\ DeskOK'
          /\ ledger' \in [revisions : Seq(Revision), runs : Seq(Run), selected : 0..MaxRuns]
          /\ Len(ledger'.revisions) <= MaxRevisions /\ Len(ledger'.runs) <= MaxRuns
      BY <1>1, <1>2, <2>2, <3>1, Commits
    <3> QED
      BY <1>1, <2>2, <3>2, TypeParts DEF Inv, LedgerOK
  <2>3. CASE /\ ~Unchanged(e) /\ ~Recordable(e) /\ desk' = e /\ dirty' = TRUE
             /\ UNCHANGED <<ledger, saved, editing>>
    <3>1. ~Current /\ history' = history /\ dragging' = dragging /\ ledger' = ledger
      BY <1>2, <2>3 DEF Recordable, Current, editing
    <3>2. Kept' /\ desk' \in Desk
      BY <1>1, <2>3, <3>1, ReorientedKept DEF e
    <3> QED
      BY <1>1, <2>3, <3>1, <3>2, TypeParts DEF Inv, DeskOK, LedgerOK
  <2> QED
    BY <1>1, <2>1, <2>2, <2>3
<1>4. OrientationOK'
  BY <1>1, TypeParts DEF Inv, OrientationOK
<1>5. WorkerOK'
  BY <1>1, Consumed, TypeParts DEF Inv, WorkerOK
<1>6. RestOK'
  BY <1>1, TypeParts DEF Inv, RestOK, budget, decisions
<1> QED
  BY <1>3, <1>4, <1>5, <1>6, PartsType DEF Inv, Kept

LEMMA InstallHydratedBodyOrientationInv ==
  ASSUME Inv, InstallHydratedBodyOrientation
  PROVE  Inv'
<1> DEFINE q == Arrived.request
           r == Active(q.case)
           c == Revisions[r].contract
           m == [geometry |-> q.geometry, attitude |-> q.angles]
<1>1. /\ Consume /\ Installs(Arrived) /\ pending.kind = "hydrate"
      /\ desk' = [case |-> q.case, revision |-> r, contract |-> c, run |-> 0, mask |-> m]
      /\ pending' = Nothing /\ draft' = Nothing
      /\ history' = Rebased(desk') /\ dragging' = FALSE
      /\ UNCHANGED <<project, dirty, generation, requests, computing, budget, decisions>>
  BY DEF InstallHydratedBodyOrientation
<1>2. ~HasDesk /\ pending # Nothing /\ pending.request = q
  BY <1>1 DEF Installs, Wanted, CurrentContext
<1>3. r \in DOMAIN Revisions /\ MaskOf(c) = m /\ q \in WorkRequest
  BY <1>1, <1>2, Consumed DEF Inv, PendingInv
<1>4. Revisions \in Seq(Revision) /\ Len(Revisions) <= MaxRevisions /\ Len(Revisions) \in Nat
      /\ Len(ledger.runs) \in Nat
  BY TypeParts, LenProperties DEF Inv, LedgerOK, Revisions
<1>5. r \in 1..MaxRevisions /\ c \in Contract
  <2>1. Revisions[r] \in Revision /\ r \in 1..Len(Revisions)
    BY <1>3, <1>4, ElementOfSeq, LenProperties
  <2> QED
    BY <1>4, <2>1, DraftAssumption DEF Revision
<1>6. q.case \in Cases /\ m \in Mask /\ 0 \in 0..MaxRuns
  BY <1>3, DraftAssumption DEF WorkRequest, Mask
<1> HIDE DEF q, r, c, m
<1>7. /\ desk' \in Desk /\ desk'.revision = r /\ desk'.contract = c /\ desk'.mask = m
      /\ desk'.run = 0
  BY <1>1, <1>5, <1>6 DEF Desk
<1>8. /\ HistoryOK(history') /\ Snaps(history') = {}
  BY <1>1, <1>7, EmptyStacks
<1>9. ledger' = ledger /\ approvals' = approvals /\ waived' = waived /\ Kept'
  <2>1. ledger' = ledger /\ approvals' = approvals /\ waived' = waived
    BY <1>1 DEF project, decisions
  <2>2. /\ \A run : RunFits(run)' <=> RunFits(run)
        /\ \A a : Known(a)' <=> Known(a)
    BY <2>1 DEF RunFits, Known, Revisions
  <2>3. LedgerInv'
    BY <2>1, <2>2 DEF Inv, LedgerInv, Revisions
  <2> QED
    BY <1>3, <1>4, <1>7, <1>8, <2>1, <2>3, OnRecord DEF c, Revisions
<1>10. LedgerOK' /\ OrientationOK' /\ RestOK'
  BY <1>1, TypeParts DEF Inv, LedgerOK, OrientationOK, RestOK, project, budget, decisions
<1>11. DeskOK'
  BY <1>1, <1>7, <1>8, TypeParts DEF Inv, DeskOK
<1>12. WorkerOK'
  BY <1>1, Consumed, TypeParts DEF Inv, WorkerOK
<1> QED
  BY <1>9, <1>10, <1>11, <1>12, PartsType DEF Inv, Kept

(***************************************************************************)
(* Imports, runs and saves.                                                *)
(***************************************************************************)
LEMMA ImportedTyped ==
  ASSUME NEW g \in Geometries, NEW m \in Chosen, Len(Revisions) + 1 \in 1..MaxRevisions
  PROVE  /\ ImportedContract(g, m) \in Contract
         /\ ImportedContract(g, m).approved = FALSE /\ ImportedContract(g, m).waivers = {}
<1>1. m \in Models \cup {NoModel}
  BY DEF Chosen, Importable
<1>2. ImportGrid(m) \in Grids
  BY <1>1 DEF ImportGrid, Grids
<1>3. Level \in Attitudes /\ FirstPoint \in Points
  BY ReviewAssumption
<1> DEFINE n == Len(Revisions) + 1
<1>4. n \in 1..MaxRevisions
  OBVIOUS
<1>5. ImportedContract(g, m) =
        [geometry |-> g, attitude |-> Level, grid |-> ImportGrid(m), point |-> FirstPoint,
         approved |-> FALSE, waivers |-> {}, model |-> m, source |-> n, declared |-> FALSE]
  BY DEF ImportedContract
<1> HIDE DEF n
<1> QED
  BY <1>1, <1>2, <1>3, <1>4, <1>5 DEF Contract

LEMMA ImportCadPathInv ==
  ASSUME Inv, NEW g \in Geometries, NEW m \in Chosen, NEW c \in Cases, ImportCadPath(g, m, c)
  PROVE  Inv'
<1> DEFINE n == Len(Revisions) + 1
           parent == IF HasDesk THEN desk.revision ELSE 0
           contract == ImportedContract(g, m)
           new == NewRevision(c, parent, contract)
<1>1. /\ Len(Revisions) < MaxRevisions
      /\ ledger' = [ledger EXCEPT !.revisions = Append(Revisions, new)]
      /\ desk' = [case |-> c, revision |-> n, contract |-> contract,
                  mask |-> MaskOf(contract), run |-> 0]
      /\ saved' = FALSE /\ dirty' = FALSE /\ draft' = Nothing /\ pending' = Nothing
      /\ history' = Rebased(desk') /\ dragging' = FALSE
      /\ UNCHANGED <<access, generation, worker, budget, decisions>>
  BY DEF ImportCadPath, Revisions
<1>2. Revisions \in Seq(Revision) /\ Len(Revisions) \in Nat /\ Len(ledger.runs) \in Nat
      /\ n \in 1..MaxRevisions
  BY <1>1, LenProperties, TypeParts, DraftAssumption DEF Inv, LedgerOK, Revisions
<1>3. /\ contract \in Contract /\ MaskOf(contract) \in Mask
      /\ contract.approved = FALSE /\ contract.waivers = {}
  BY <1>2, ImportedTyped, MaskOfContract
<1>4. parent \in 0..MaxRevisions
  BY DeskTyped, DeskShape, DraftAssumption
<1> HIDE DEF parent, contract
<1>5. new \in Revision /\ new.contract = contract
  BY <1>3, <1>4 DEF NewRevision, Revision
<1>6. Backed(new.contract, approvals) /\ Covered(new.contract, waived)
  BY <1>3, <1>5 DEF Backed, Covered
<1> HIDE DEF new
<1>7. /\ ledger'.revisions = Append(Revisions, new)
      /\ ledger'.runs = ledger.runs /\ ledger'.selected = ledger.selected
  BY <1>1, TypeParts DEF Inv, LedgerOK
<1>8. UNCHANGED decisions
  BY <1>1
<1>9. /\ ledger'.revisions \in Seq(Revision) /\ Len(ledger'.revisions) <= MaxRevisions
      /\ n \in DOMAIN ledger'.revisions /\ ledger'.revisions[n] = new
      /\ \A a \in Cases : Known(a)' =>
             \E r \in DOMAIN ledger'.revisions : IsActive(ledger'.revisions, r, a)
      /\ \A r \in DOMAIN ledger'.revisions :
             /\ Backed(ledger'.revisions[r].contract, approvals')
             /\ Covered(ledger'.revisions[r].contract, waived')
      /\ \A run : RunFits(run) => RunFits(run)'
  BY <1>1, <1>5, <1>6, <1>7, <1>8, Appended
<1> HIDE DEF n
<1>10. LedgerInv'
  BY <1>7, <1>9 DEF LedgerInv, Inv, Revisions
<1>11. /\ desk' \in Desk /\ desk'.revision = n /\ desk'.contract = contract
       /\ desk'.mask = MaskOf(contract) /\ desk'.run = 0
  BY <1>1, <1>2, <1>3, DraftAssumption DEF Desk
<1>12. HistoryOK(history') /\ Snaps(history') = {}
  BY <1>1, <1>11, EmptyStacks
<1>13. Kept'
  BY <1>2, <1>5, <1>7, <1>9, <1>10, <1>11, <1>12, OnRecord
<1>14. DeskOK'
  BY <1>1, <1>11, <1>12 DEF DeskOK
<1>15. ledger' \in [revisions : Seq(Revision), runs : Seq(Run), selected : 0..MaxRuns]
  BY <1>1, <1>9, <1>7, TypeParts DEF Inv, LedgerOK
<1>16. LedgerOK'
  BY <1>1, <1>7, <1>9, <1>15, TypeParts DEF Inv, LedgerOK
<1>17. OrientationOK' /\ WorkerOK' /\ RestOK'
  BY <1>1, TypeParts DEF Inv, OrientationOK, WorkerOK, RestOK, worker, budget, decisions
<1> QED
  BY <1>13, <1>14, <1>16, <1>17, PartsType DEF Inv, Kept

\* Runs and the selection change, the revisions do not.
LEMMA SameRevisions ==
  ASSUME Inv, ledger'.revisions = ledger.revisions, UNCHANGED decisions,
         ledger'.selected <= Len(ledger'.runs),
         \A x \in DOMAIN ledger'.runs : RunFits(ledger'.runs[x])
  PROVE  LedgerInv' /\ (\A a : Active(a)' = Active(a))
<1>1. /\ \A run : RunFits(run)' <=> RunFits(run)
      /\ \A a : Known(a)' <=> Known(a)
      /\ \A a : Active(a)' = Active(a)
      /\ approvals' = approvals /\ waived' = waived
  BY DEF RunFits, Known, Active, Revisions, decisions
<1>2. LedgerInv'
  BY <1>1 DEF Inv, LedgerInv, Revisions
<1> QED
  BY <1>1, <1>2

LEMMA RunTyped ==
  ASSUME Inv, NEW x \in DOMAIN ledger.runs
  PROVE  /\ ledger.runs[x] \in Run /\ x \in 1..Len(ledger.runs) /\ x \in 0..MaxRuns
         /\ ledger.runs \in Seq(Run) /\ Len(ledger.runs) \in Nat
         /\ RunFits(ledger.runs[x])
<1>1. ledger.runs \in Seq(Run) /\ Len(ledger.runs) <= MaxRuns
  BY TypeParts DEF Inv, LedgerOK
<1> QED
  BY <1>1, ElementOfSeq, LenProperties, DraftAssumption DEF Inv, LedgerInv

LEMMA RunAppended ==
  ASSUME Inv, NEW new \in Run, Len(ledger.runs) < MaxRuns
  PROVE  LET grown == Append(ledger.runs, new)
         IN  /\ grown \in Seq(Run) /\ Len(grown) = Len(ledger.runs) + 1
             /\ Len(grown) <= MaxRuns /\ Len(grown) \in 0..MaxRuns
             /\ DOMAIN grown = DOMAIN ledger.runs \cup {Len(ledger.runs) + 1}
             /\ \A x \in DOMAIN ledger.runs : grown[x] = ledger.runs[x]
             /\ grown[Len(ledger.runs) + 1] = new
<1>1. ledger.runs \in Seq(Run) /\ Len(ledger.runs) \in Nat
  BY TypeParts, LenProperties DEF Inv, LedgerOK
<1> QED
  BY <1>1, AppendProperties, LenProperties, DraftAssumption

\* What is ready for a run has its approval, and a waiver for each finding.
LEMMA ReadyFits ==
  ASSUME NEW c, Ready(c)
  PROVE  c.approved /\ SupportIssues(c) \subseteq c.waivers
BY DEF Ready, BlockingIssues, WaiverCovers

LEMMA RunExternalFlowInv ==
  ASSUME Inv, RunExternalFlow
  PROVE  Inv'
<1> DEFINE k == Len(ledger.runs) + 1
           n == Len(Revisions) + 1
           d == [desk EXCEPT !.run = k]
           c == CommittedContract(d)
           new == NewRevision(d.case, d.revision, c)
           run == StartedRun
<1>1. /\ HasDesk /\ Ready(desk.contract) /\ Len(ledger.runs) < MaxRuns
      /\ saved' = TRUE /\ dirty' = FALSE /\ history' = Rebased(desk') /\ dragging' = FALSE
      /\ UNCHANGED <<access, orientation, worker, budget, decisions>>
  BY DEF RunExternalFlow, Editable
<1>2. \/ /\ Unchanged(d) /\ desk' = d
         /\ ledger' = [ledger EXCEPT !.revisions = Revisions, !.runs = Append(ledger.runs, run)]
      \/ /\ ~Unchanged(d) /\ Recordable(d) /\ Len(Revisions) < MaxRevisions
         /\ desk' = [d EXCEPT !.revision = n, !.contract = c]
         /\ ledger' = [ledger EXCEPT !.revisions = Append(Revisions, new),
                                     !.runs = Append(ledger.runs, run)]
  BY DEF RunExternalFlow, Revisions
<1>3. /\ desk \in Desk /\ desk.contract \in Contract /\ desk.mask = MaskOf(desk.contract)
      /\ Covered(desk.contract, waived) /\ desk.revision \in DOMAIN Revisions
      /\ (Current => Backed(desk.contract, approvals))
      /\ desk.contract.approved
      /\ SupportIssues(desk.contract) \subseteq desk.contract.waivers
  BY <1>1, DeskTyped, ReadyFits
<1>4. /\ Revisions \in Seq(Revision) /\ Len(Revisions) \in Nat /\ Len(Revisions) <= MaxRevisions
      /\ ledger.runs \in Seq(Run) /\ Len(ledger.runs) \in Nat /\ k \in 0..MaxRuns
  BY <1>1, LenProperties, TypeParts, DraftAssumption DEF Inv, LedgerOK, Revisions
<1> HIDE DEF k
<1>5. /\ d \in Desk /\ d.contract = desk.contract /\ d.mask = desk.mask
      /\ d.revision = desk.revision /\ d.case = desk.case /\ d.run = k
  BY <1>3, <1>4 DEF Desk
<1>6. /\ Unchanged(d) => Current
      /\ Recordable(d) => Current
  BY <1>5 DEF Unchanged, Recordable, Current
<1>7. run = [revision |-> desk'.revision, mask |-> desk.mask, state |-> "running"]
  BY DEF StartedRun
<1> HIDE DEF d, run
\* The revision that the run is of, as it is on record after the step.
<1>8. /\ desk' \in Desk /\ desk'.mask = desk.mask /\ desk'.run = k
      /\ desk'.contract.approved
      /\ SupportIssues(desk'.contract) \subseteq desk'.contract.waivers
      /\ MaskOf(desk'.contract) = MaskOf(desk.contract)
      /\ ledger'.revisions \in Seq(Revision) /\ Len(ledger'.revisions) <= MaxRevisions
      /\ desk'.revision \in DOMAIN ledger'.revisions
      /\ ledger'.revisions[desk'.revision].contract = desk'.contract
      /\ \A a \in Cases : Known(a)' =>
             \E r \in DOMAIN ledger'.revisions : IsActive(ledger'.revisions, r, a)
      /\ \A r \in DOMAIN ledger'.revisions :
             /\ Backed(ledger'.revisions[r].contract, approvals')
             /\ Covered(ledger'.revisions[r].contract, waived')
      /\ \A x : RunFits(x) => RunFits(x)'
      /\ ledger'.runs = Append(ledger.runs, run) /\ ledger'.selected = ledger.selected
      /\ ledger' = [ledger EXCEPT !.revisions = ledger'.revisions, !.runs = ledger'.runs]
  <2>1. CASE /\ Unchanged(d) /\ desk' = d
             /\ ledger' = [ledger EXCEPT !.revisions = Revisions, !.runs = Append(ledger.runs, run)]
    <3>1. /\ ledger'.revisions = Revisions
          /\ ledger'.runs = Append(ledger.runs, run) /\ ledger'.selected = ledger.selected
      BY <2>1, TypeParts DEF Inv, LedgerOK
    <3>2. Revisions[desk'.revision].contract = desk'.contract
      BY <2>1 DEF Unchanged
    <3>3. approvals' = approvals /\ waived' = waived
      BY <1>1 DEF decisions
    <3>4. /\ \A a \in Cases : Known(a)' =>
                 \E r \in DOMAIN ledger'.revisions : IsActive(ledger'.revisions, r, a)
          /\ \A r \in DOMAIN ledger'.revisions :
                 /\ Backed(ledger'.revisions[r].contract, approvals')
                 /\ Covered(ledger'.revisions[r].contract, waived')
      BY <3>1, <3>3 DEF Inv, LedgerInv, Known, Revisions
    <3>5. \A x : RunFits(x) => RunFits(x)'
      BY <3>1 DEF RunFits, Revisions
    <3> QED
      BY <1>3, <1>4, <1>5, <2>1, <3>1, <3>2, <3>4, <3>5
  <2>2. CASE /\ ~Unchanged(d) /\ Recordable(d) /\ Len(Revisions) < MaxRevisions
             /\ desk' = [d EXCEPT !.revision = n, !.contract = c]
             /\ ledger' = [ledger EXCEPT !.revisions = Append(Revisions, new),
                                         !.runs = Append(ledger.runs, run)]
    <3>1. n \in 1..MaxRevisions
      BY <1>4, <2>2, DraftAssumption
    <3>2. /\ MaskOf(c) = MaskOf(desk.contract)
          /\ SupportIssues(c) = SupportIssues(desk.contract)
          /\ c.approved = desk.contract.approved /\ c.waivers = desk.contract.waivers
          /\ c.geometry = desk.contract.geometry
          /\ desk' \in Desk /\ desk'.revision = n /\ desk'.contract = c
          /\ desk'.mask = desk.mask /\ desk'.run = k
          /\ new \in Revision
      BY <1>5, <2>2, <3>1, CommittedShape
    <3>3. new.contract = c
      BY DEF NewRevision
    <3>4. Backed(c, approvals) /\ Covered(c, waived)
      BY <1>3, <1>6, <2>2, <3>2 DEF Backed, Covered
    <3> HIDE DEF new, c, n
    <3>5. /\ ledger'.revisions = Append(Revisions, new)
          /\ ledger'.runs = Append(ledger.runs, run) /\ ledger'.selected = ledger.selected
      BY <2>2, TypeParts DEF Inv, LedgerOK
    <3>6. UNCHANGED decisions
      BY <1>1
    <3>7. /\ ledger'.revisions \in Seq(Revision) /\ Len(ledger'.revisions) <= MaxRevisions
          /\ n \in DOMAIN ledger'.revisions /\ ledger'.revisions[n] = new
          /\ \A a \in Cases : Known(a)' =>
                 \E r \in DOMAIN ledger'.revisions : IsActive(ledger'.revisions, r, a)
          /\ \A r \in DOMAIN ledger'.revisions :
                 /\ Backed(ledger'.revisions[r].contract, approvals')
                 /\ Covered(ledger'.revisions[r].contract, waived')
          /\ \A x : RunFits(x) => RunFits(x)'
      BY <2>2, <3>2, <3>3, <3>4, <3>5, <3>6, Appended DEF n
    <3> QED
      BY <1>3, <2>2, <3>2, <3>3, <3>5, <3>7
  <2> QED
    BY <1>2, <2>1, <2>2
<1> HIDE DEF c, new, n
<1>9. run \in Run
  <2>1. desk'.revision \in 1..MaxRevisions /\ desk.mask \in Mask
    BY <1>3, <1>8, DeskShape
  <2> QED
    BY <1>7, <2>1 DEF Run
<1>10. PICK started \in Run : started = run
  BY <1>9
<1>11. RunFits(started)'
  <2>1. started.revision = desk'.revision /\ started.mask = desk.mask
    BY <1>7, <1>10
  <2> QED
    BY <1>3, <1>8, <2>1 DEF RunFits, Revisions
<1>12. /\ ledger'.runs \in Seq(Run) /\ Len(ledger'.runs) = k
       /\ Len(ledger'.runs) <= MaxRuns
       /\ DOMAIN ledger'.runs = DOMAIN ledger.runs \cup {k}
       /\ \A x \in DOMAIN ledger.runs : ledger'.runs[x] = ledger.runs[x]
       /\ ledger'.runs[k] = started
  BY <1>1, <1>8, <1>10, RunAppended DEF k
<1>13. LedgerInv'
  <2>1. ledger'.selected <= Len(ledger'.runs)
    BY <1>4, <1>8, <1>12, TypeParts DEF Inv, LedgerInv, LedgerOK, k
  <2>2. (\A x \in DOMAIN ledger.runs : RunFits(ledger.runs[x]))'
    <3>1. \A x \in DOMAIN ledger.runs : RunFits(ledger.runs[x])
      BY DEF Inv, LedgerInv
    <3> QED
      BY <1>8, <1>11, <1>12, <3>1
  <2> QED
    BY <1>8, <2>1, <2>2 DEF LedgerInv, Revisions
<1>14. HistoryOK(history') /\ Snaps(history') = {}
  BY <1>1, <1>8, EmptyStacks
<1>15. Kept'
  <2>1. desk'.run <= Len(ledger'.runs)
    BY <1>4, <1>8, <1>12 DEF k
  <2> QED
    BY <1>3, <1>8, <1>13, <1>14, <2>1, OnRecord
<1>16. DeskOK'
  BY <1>1, <1>8, <1>14 DEF DeskOK
<1>17. LedgerOK'
  BY <1>1, <1>8, <1>12, TypeParts DEF Inv, LedgerOK
<1>18. OrientationOK' /\ WorkerOK' /\ RestOK'
  BY <1>1, TypeParts DEF Inv, OrientationOK, WorkerOK, RestOK, orientation, worker, budget,
       decisions
<1> QED
  BY <1>15, <1>16, <1>17, <1>18, PartsType DEF Inv, Kept

\* What a commit of the draft on the desk does to the ledger and to the desk.
LEMMA DeskCommitted ==
  ASSUME Inv, HasDesk, CommitRevision(desk), UNCHANGED decisions
  PROVE  /\ Kept' /\ DeskOK'
         /\ ledger' \in [revisions : Seq(Revision), runs : Seq(Run), selected : 0..MaxRuns]
         /\ Len(ledger'.revisions) <= MaxRevisions /\ Len(ledger'.runs) <= MaxRuns
<1>1. /\ desk \in Desk /\ desk.mask = MaskOf(desk.contract) /\ Covered(desk.contract, waived)
      /\ desk.run <= Len(ledger.runs)
      /\ (Current => Backed(desk.contract, approvals))
  BY DeskTyped DEF Inv, DeskInv
<1>2. Current
  BY DEF CommitRevision, Recordable, Current
<1> QED
  BY <1>1, <1>2, Commits

LEMMA RunNotStartedInv ==
  ASSUME Inv, RunNotStarted
  PROVE  Inv'
<1>1. /\ HasDesk /\ mishaps < MaxMishaps /\ mishaps' = mishaps + 1
      /\ UNCHANGED <<access, orientation, worker, edits, decisions>>
  BY DEF RunNotStarted, Editable, Mishap
<1>2. ASSUME Unchanged(desk), dirty' = FALSE, history' = Rebased(desk), dragging' = FALSE,
             UNCHANGED <<ledger, saved, desk>>
      PROVE  Kept' /\ DeskOK' /\ LedgerOK'
  <2>1. desk \in Desk /\ desk.mask = MaskOf(desk.contract) /\ desk.revision \in DOMAIN Revisions
        /\ desk.run <= Len(ledger.runs)
    BY <1>1, DeskTyped DEF Inv, DeskInv
  <2>2. desk' = desk /\ ledger' = ledger /\ HistoryOK(history') /\ Snaps(history') = {}
    BY <1>2, <2>1, EmptyStacks
  <2>3. LedgerInv'
    BY <1>1, <2>2, SameRevisions DEF Inv, LedgerInv
  <2>4. Revisions[desk.revision].contract = desk.contract
    BY <1>2 DEF Unchanged
  <2>5. Kept'
    BY <2>1, <2>2, <2>3, <2>4, OnRecord DEF Revisions
  <2>6. DeskOK' /\ LedgerOK'
    BY <1>1, <1>2, <2>2, TypeParts DEF Inv, DeskOK, LedgerOK
  <2> QED
    BY <2>5, <2>6
<1>3. ASSUME CommitRevision(desk), saved' = FALSE
      PROVE  Kept' /\ DeskOK' /\ LedgerOK'
  <2>1. /\ Kept' /\ DeskOK'
        /\ ledger' \in [revisions : Seq(Revision), runs : Seq(Run), selected : 0..MaxRuns]
        /\ Len(ledger'.revisions) <= MaxRevisions /\ Len(ledger'.runs) <= MaxRuns
    BY <1>1, <1>3, DeskCommitted
  <2> QED
    BY <1>1, <1>3, <2>1, TypeParts DEF Inv, LedgerOK
<1>4. Kept' /\ DeskOK' /\ LedgerOK'
  BY <1>2, <1>3 DEF RunNotStarted
<1>5. OrientationOK' /\ WorkerOK'
  BY <1>1, TypeParts DEF Inv, OrientationOK, WorkerOK, orientation, worker
<1>6. RestOK'
  BY <1>1, TypeParts, DraftAssumption DEF Inv, RestOK, decisions
<1> QED
  BY <1>4, <1>5, <1>6, PartsType DEF Inv, Kept

LEMMA PersistInv ==
  ASSUME Inv, Persist
  PROVE  Inv'
<1>1. /\ UNCHANGED <<access, orientation, worker, edits, decisions>>
      /\ saved' \in BOOLEAN
      /\ \/ mishaps' = mishaps
         \/ mishaps < MaxMishaps /\ mishaps' = mishaps + 1
  <2>1. saved \in BOOLEAN
    BY TypeParts DEF Inv, LedgerOK
  <2> QED
    BY <2>1, Zenon DEF Persist, Mishap
<1>2. UNCHANGED <<decisions, pending>>
  BY <1>1 DEF orientation
<1>3. CASE HasDesk /\ CommitUnchanged(desk)
  <2>1. ledger' = ledger
    BY <1>3 DEF CommitUnchanged
  <2> QED
    BY <1>1, <1>2, <1>3, <2>1, CommitsNothing, TypeParts, PartsType, DraftAssumption
    DEF Inv, Kept, LedgerOK, OrientationOK, WorkerOK, RestOK, orientation, worker, decisions
<1>4. CASE HasDesk /\ CommitRevision(desk)
  <2>1. /\ Kept' /\ DeskOK'
        /\ ledger' \in [revisions : Seq(Revision), runs : Seq(Run), selected : 0..MaxRuns]
        /\ Len(ledger'.revisions) <= MaxRevisions /\ Len(ledger'.runs) <= MaxRuns
    BY <1>1, <1>4, DeskCommitted
  <2>2. LedgerOK' /\ OrientationOK' /\ WorkerOK'
    BY <1>1, <2>1, TypeParts DEF Inv, LedgerOK, OrientationOK, WorkerOK, orientation, worker
  <2>3. RestOK'
    BY <1>1, TypeParts, DraftAssumption DEF Inv, RestOK, decisions
  <2> QED
    BY <2>1, <2>2, <2>3, PartsType DEF Inv, Kept
<1>5. CASE UNCHANGED <<ledger, desk, dirty, editing>>
  <2>1. Kept'
    BY <1>2, <1>5, Steady DEF editing
  <2>2. LedgerOK' /\ DeskOK' /\ OrientationOK' /\ WorkerOK'
    BY <1>1, <1>5, TypeParts
    DEF Inv, LedgerOK, DeskOK, OrientationOK, WorkerOK, orientation, worker, editing
  <2>3. RestOK'
    BY <1>1, TypeParts, DraftAssumption DEF Inv, RestOK, decisions
  <2> QED
    BY <2>1, <2>2, <2>3, PartsType DEF Inv, Kept
<1> QED
  BY <1>3, <1>4, <1>5, Zenon DEF Persist

LEMMA EndRunInv ==
  ASSUME Inv, NEW state \in {"succeeded", "failed"}, EndRun(state)
  PROVE  Inv'
<1> DEFINE x == desk.run
           e == [desk EXCEPT !.run = 0]
<1>1. /\ HasDesk /\ x # 0 /\ desk' = e
      /\ UNCHANGED <<access, dirty, orientation, worker, editing, budget, decisions>>
  BY DEF EndRun
<1>2. x \in DOMAIN ledger.runs /\ desk \in Desk
  <2>1. x \in 0..Len(ledger.runs) /\ desk \in Desk /\ Len(ledger.runs) \in Nat
    BY <1>1, DeskTyped, LenProperties, TypeParts DEF Inv, LedgerOK
  <2>2. DOMAIN ledger.runs = 1..Len(ledger.runs)
    BY LenProperties, TypeParts DEF Inv, LedgerOK
  <2> QED
    BY <1>1, <2>1, <2>2
<1>3. /\ e \in Desk /\ e.case = desk.case /\ e.revision = desk.revision /\ e.run = 0
      /\ e.contract = desk.contract /\ e.mask = desk.mask /\ Scope(e) = Scope(desk)
  BY <1>2, DraftAssumption DEF Desk, Scope
<1> HIDE DEF e
<1>4. PICK old \in Run : old = ledger.runs[x]
  BY <1>2, RunTyped
<1> DEFINE ended == [old EXCEPT !.state = state]
           runs == [ledger.runs EXCEPT ![x] = ended]
<1>5. ended \in Run /\ ended.revision = old.revision /\ ended.mask = old.mask
  BY DEF Run
<1> HIDE DEF ended
<1>6. /\ runs \in Seq(Run) /\ Len(runs) = Len(ledger.runs) /\ DOMAIN runs = DOMAIN ledger.runs
      /\ \A y \in DOMAIN runs : runs[y] = IF y = x THEN ended ELSE ledger.runs[y]
  BY <1>2, <1>5, RunTyped, ExceptSeq
<1>7. \A y \in DOMAIN runs : RunFits(runs[y])
  <2>1. RunFits(ended)
    BY <1>2, <1>4, <1>5, RunTyped DEF RunFits
  <2> QED
    BY <1>6, <2>1, RunTyped
<1>8. \/ UNCHANGED <<ledger, saved>>
      \/ /\ ledger' = [ledger EXCEPT !.runs = runs,
                                     !.selected = IF state = "succeeded" THEN x ELSE @]
         /\ saved' = TRUE
  BY <1>4, Zenon DEF EndRun, ended
<1> HIDE DEF runs
<1>9. /\ ledger'.revisions = ledger.revisions
      /\ ledger'.runs \in Seq(Run) /\ Len(ledger'.runs) = Len(ledger.runs)
      /\ \A y \in DOMAIN ledger'.runs : RunFits(ledger'.runs[y])
      /\ ledger'.selected \in {ledger.selected, x}
      /\ ledger' \in [revisions : Seq(Revision), runs : Seq(Run), selected : 0..MaxRuns]
      /\ saved' \in BOOLEAN
  <2>1. /\ ledger \in [revisions : Seq(Revision), runs : Seq(Run), selected : 0..MaxRuns]
        /\ saved \in BOOLEAN /\ x \in 0..MaxRuns
    BY <1>2, RunTyped, TypeParts DEF Inv, LedgerOK
  <2>2. CASE UNCHANGED <<ledger, saved>>
    BY <2>1, <2>2, RunTyped
  <2>3. CASE /\ ledger' = [ledger EXCEPT !.runs = runs,
                                         !.selected = IF state = "succeeded" THEN x ELSE @]
             /\ saved' = TRUE
    BY <1>6, <1>7, <2>1, <2>3
  <2> QED
    BY <1>8, <2>2, <2>3
<1>10. ledger'.selected <= Len(ledger'.runs)
  BY <1>2, <1>9, RunTyped DEF Inv, LedgerInv
<1>11. approvals' = approvals /\ waived' = waived /\ history' = history /\ dirty' = dirty
       /\ dragging' = dragging
  BY <1>1 DEF decisions, editing
<1>12. LedgerInv' /\ (\A a : Active(a)' = Active(a))
  BY <1>1, <1>9, <1>10, SameRevisions
<1>13. HasDesk' /\ (Current' <=> Current)
  BY <1>1, <1>3, <1>12, NoDeskApart DEF HasDesk, Current
<1>14. DeskInv'
  <2>1. desk.revision \in DOMAIN Revisions /\ Len(ledger.runs) \in Nat
    BY <1>1, <1>2, DeskTyped, RunTyped
  <2>2. 0 <= Len(ledger'.runs)
    BY <1>9, <2>1
  <2> QED
    BY <1>1, <1>3, <1>9, <1>11, <1>13, <2>1, <2>2
    DEF Inv, DeskInv, MaskMatchesContract, Revisions, HasDesk
<1>15. HistoryInv'
  <2>1. \A s : SnapshotFits(s)' <=> SnapshotFits(s)
    BY <1>1, <1>3, <1>11, <1>13 DEF SnapshotFits
  <2> QED
    BY <1>1, <1>3, <1>11, <2>1 DEF Inv, HistoryInv
<1>16. PendingInv'
  BY <1>13 DEF PendingInv
<1>17. LedgerOK'
  BY <1>1, <1>9, TypeParts DEF Inv, LedgerOK
<1>18. DeskOK'
  BY <1>1, <1>3, <1>11, TypeParts DEF Inv, DeskOK
<1>19. OrientationOK' /\ WorkerOK' /\ RestOK'
  BY <1>1, TypeParts DEF Inv, OrientationOK, WorkerOK, RestOK, orientation, worker, budget,
       decisions
<1> QED
  BY <1>12, <1>14, <1>15, <1>16, <1>17, <1>18, <1>19, PartsType DEF Inv

(***************************************************************************)
(* Stored runs and stored cases.                                           *)
(***************************************************************************)
LEMMA HydratedShape ==
  ASSUME Inv, NEW x \in DOMAIN ledger.runs
  PROVE  LET e == HydratedRun(x)
         IN  /\ e \in Desk /\ e.revision \in DOMAIN Revisions /\ e.run = 0
             /\ e.contract = Revisions[e.revision].contract /\ e.mask = MaskOf(e.contract)
<1> DEFINE r == ledger.runs[x].revision
           c == Revisions[r].contract
<1>1. /\ r \in DOMAIN Revisions /\ ledger.runs[x].mask = MaskOf(c)
      /\ ledger.runs[x].mask \in Mask
  BY RunTyped DEF RunFits, Run
<1>2. Revisions \in Seq(Revision) /\ Len(Revisions) <= MaxRevisions /\ Len(Revisions) \in Nat
  BY TypeParts, LenProperties DEF Inv, LedgerOK, Revisions
<1>3. Revisions[r] \in Revision /\ r \in 1..MaxRevisions
  BY <1>1, <1>2, ElementOfSeq, LenProperties, DraftAssumption
<1>4. Revisions[r].case \in Cases /\ c \in Contract /\ 0 \in 0..MaxRuns
  BY <1>3, DraftAssumption DEF Revision
<1>5. HydratedRun(x) = [case |-> Revisions[r].case, revision |-> r, contract |-> c,
                        mask |-> ledger.runs[x].mask, run |-> 0]
  BY DEF HydratedRun
<1> HIDE DEF r, c
<1>6. /\ HydratedRun(x) \in Desk /\ HydratedRun(x).revision = r /\ HydratedRun(x).run = 0
      /\ HydratedRun(x).contract = c /\ HydratedRun(x).mask = ledger.runs[x].mask
  BY <1>1, <1>3, <1>4, <1>5 DEF Desk
<1> QED
  BY <1>1, <1>6 DEF c

\* The desk shows a stored run, and its history is empty.
LEMMA Hydrated ==
  ASSUME Inv, NEW x \in DOMAIN ledger.runs,
         desk' = HydratedRun(x), history' = Rebased(desk'), LedgerInv',
         ledger'.revisions = ledger.revisions, ledger'.runs = ledger.runs
  PROVE  Kept' /\ desk' \in Desk /\ HistoryOK(history')
<1>1. /\ desk' \in Desk /\ desk'.revision \in DOMAIN Revisions /\ desk'.run = 0
      /\ desk'.contract = Revisions[desk'.revision].contract
      /\ desk'.mask = MaskOf(desk'.contract)
  BY HydratedShape
<1>2. HistoryOK(history') /\ Snaps(history') = {}
  BY <1>1, EmptyStacks
<1>3. desk'.run <= Len(ledger'.runs)
  BY <1>1, RunTyped
<1> QED
  BY <1>1, <1>2, <1>3, OnRecord DEF Revisions

LEMMA SelectExternalRunInv ==
  ASSUME Inv, NEW x \in DOMAIN ledger.runs, SelectExternalRun(x)
  PROVE  Inv'
<1>1. /\ \/ ledger' = [ledger EXCEPT !.selected = x] /\ saved' = FALSE
         \/ UNCHANGED <<ledger, saved>>
      /\ \/ desk' = HydratedRun(x) /\ pending' = Nothing /\ history' = Rebased(desk')
         \/ history' = Cleared /\ UNCHANGED <<desk, pending>>
      /\ dragging' = FALSE
      /\ UNCHANGED <<access, dirty, draft, generation, worker, budget, decisions>>
  BY Zenon DEF SelectExternalRun
<1>2. x \in 0..MaxRuns /\ x <= Len(ledger.runs) /\ Len(ledger.runs) \in Nat
  BY RunTyped
<1>3. /\ ledger'.revisions = ledger.revisions /\ ledger'.runs = ledger.runs
      /\ ledger'.selected \in {ledger.selected, x}
      /\ LedgerOK'
  BY <1>1, <1>2, TypeParts DEF Inv, LedgerOK
<1>4. UNCHANGED decisions /\ approvals' = approvals /\ waived' = waived /\ dirty' = dirty
  BY <1>1 DEF decisions
<1>5. ledger'.selected <= Len(ledger'.runs)
  BY <1>2, <1>3 DEF Inv, LedgerInv
<1>6. \A y \in DOMAIN ledger'.runs : RunFits(ledger'.runs[y])
  BY <1>3, RunTyped
<1>7. LedgerInv' /\ (\A a : Active(a)' = Active(a))
  BY <1>3, <1>4, <1>5, <1>6, SameRevisions
<1>8. ASSUME desk' = HydratedRun(x), pending' = Nothing, history' = Rebased(desk')
      PROVE  Kept' /\ DeskOK' /\ OrientationOK'
  <2>1. Kept' /\ desk' \in Desk /\ HistoryOK(history')
    BY <1>3, <1>7, <1>8, Hydrated
  <2> QED
    BY <1>1, <1>8, <2>1, TypeParts DEF Inv, DeskOK, OrientationOK
<1>9. ASSUME history' = Cleared, UNCHANGED <<desk, pending>>
      PROVE  Kept' /\ DeskOK' /\ OrientationOK'
  <2>1. DeskOK' /\ OrientationOK'
    BY <1>1, <1>9, EmptyStacks, TypeParts DEF Inv, DeskOK, OrientationOK
  <2>2. Current' <=> Current
    BY <1>7, <1>9 DEF Current
  <2>3. DeskInv'
    BY <1>3, <1>4, <1>9, <2>2 DEF Inv, DeskInv, HasDesk, MaskMatchesContract, Revisions
  <2>4. HistoryInv'
    <3> SUFFICES ASSUME HasDesk', history'.scope = Scope(desk') PROVE FALSE
      BY DEF HistoryInv
    <3>1. desk \in Desk
      BY <1>9, DeskTyped DEF HasDesk
    <3> QED
      BY <1>9, <3>1, EmptyStacks
  <2>5. PendingInv'
    BY <1>3, <1>7, <1>9 DEF Inv, PendingInv, HasDesk, Revisions
  <2> QED
    BY <1>7, <2>1, <2>3, <2>4, <2>5 DEF Kept
<1>10. Kept' /\ DeskOK' /\ OrientationOK'
  BY <1>1, <1>8, <1>9
<1>11. WorkerOK' /\ RestOK'
  BY <1>1, TypeParts DEF Inv, WorkerOK, RestOK, worker, budget, decisions
<1> QED
  BY <1>3, <1>10, <1>11, PartsType DEF Inv, Kept

\* The case that is opened has a revision, whose mask the worker is asked for.
LEMMA FirstCaseShape ==
  ASSUME Inv, Revisions # <<>>
  PROVE  LET r == Active(FirstCase)
             c == Revisions[r].contract
         IN  /\ FirstCase \in Cases /\ r \in DOMAIN Revisions
             /\ Revisions[r].case = FirstCase
             /\ c.geometry \in Geometries /\ c.attitude \in Attitudes
<1>1. Revisions \in Seq(Revision) /\ Len(Revisions) \in Nat /\ Len(Revisions) > 0
  BY TypeParts, LenProperties, EmptySeq DEF Inv, LedgerOK, Revisions
<1>2. 1 \in DOMAIN Revisions /\ Revisions[1] \in Revision
  BY <1>1, ElementOfSeq, LenProperties
<1>3. FirstCase \in Cases /\ Known(FirstCase)
  BY <1>2 DEF FirstCase, Known, Revision
<1>4. PICK r \in DOMAIN Revisions : IsActive(Revisions, r, FirstCase)
  BY <1>3 DEF Inv, LedgerInv
<1>5. Active(FirstCase) = r
  BY <1>1, <1>4, ActiveIs DEF Active
<1>6. Revisions[r] \in Revision
  BY <1>1, <1>4, ElementOfSeq, LenProperties
<1> QED
  BY <1>3, <1>4, <1>5, <1>6 DEF IsActive, Revision, Contract

LEMMA ReopenInv ==
  ASSUME Inv, Reopen
  PROVE  Inv'
<1>1. /\ dirty' = FALSE /\ draft' = Nothing /\ dragging' = FALSE
      /\ UNCHANGED <<project, computing, results, budget, decisions>>
      /\ \/ /\ HasEvidence(ledger.selected)
            /\ desk' = HydratedRun(ledger.selected) /\ history' = Rebased(desk')
         \/ desk' = NoDesk /\ history' = Cleared
      /\ \/ Revisions # <<>> /\ RebuildMask
         \/ pending' = Nothing /\ UNCHANGED <<generation, requests>>
  BY Zenon DEF Reopen
<1>2. /\ ledger' = ledger /\ approvals' = approvals /\ waived' = waived
      /\ UNCHANGED decisions
  BY <1>1 DEF project, decisions
<1>3. LedgerInv' /\ (\A a : Active(a)' = Active(a))
  BY <1>2, SameRevisions DEF Inv, LedgerInv
<1>4. /\ OrientationOK' /\ WorkerOK'
      /\ pending' # Nothing =>
           LET q == pending'.request
           IN  /\ Active(q.case) \in DOMAIN Revisions
               /\ MaskOf(Revisions[Active(q.case)].contract)
                    = [geometry |-> q.geometry, attitude |-> q.angles]
               /\ Revisions[Active(q.case)].case = q.case
  <2>1. ASSUME Revisions # <<>>, RebuildMask
        PROVE  /\ generation' \in 0..MaxRequests
               /\ pending' \in [request : WorkRequest, kind : {"draft", "hydrate"}]
               /\ requests' \in Seq(WorkRequest)
               /\ LET q == pending'.request
                  IN  /\ Active(q.case) \in DOMAIN Revisions
                      /\ MaskOf(Revisions[Active(q.case)].contract)
                           = [geometry |-> q.geometry, attitude |-> q.angles]
                      /\ Revisions[Active(q.case)].case = q.case
    <3> DEFINE c == Revisions[Active(FirstCase)].contract
    <3>1. /\ FirstCase \in Cases /\ Active(FirstCase) \in DOMAIN Revisions
          /\ Revisions[Active(FirstCase)].case = FirstCase
          /\ c.geometry \in Geometries /\ c.attitude \in Attitudes
      BY <2>1, FirstCaseShape
    <3>2. Queue(FirstCase, c.geometry, c.attitude, "hydrate")
      BY <2>1 DEF RebuildMask
    <3>3. /\ generation' \in 0..MaxRequests
          /\ pending' \in [request : WorkRequest, kind : {"draft", "hydrate"}]
          /\ pending'.request.case = FirstCase /\ pending'.request.geometry = c.geometry
          /\ pending'.request.angles = c.attitude
          /\ requests' \in Seq(WorkRequest)
      BY <3>1, <3>2, Queued
    <3> QED
      BY <3>1, <3>3 DEF MaskOf
  <2>2. CASE Revisions # <<>> /\ RebuildMask
    <3>1. OrientationOK'
      BY <1>1, <2>1, <2>2 DEF OrientationOK
    <3>2. WorkerOK'
      BY <1>1, <2>1, <2>2, TypeParts DEF Inv, WorkerOK
    <3> QED
      BY <2>1, <2>2, <3>1, <3>2
  <2>3. CASE pending' = Nothing /\ UNCHANGED <<generation, requests>>
    BY <1>1, <2>3, TypeParts DEF Inv, OrientationOK, WorkerOK
  <2> QED
    BY <1>1, <2>2, <2>3
<1>5. CASE /\ HasEvidence(ledger.selected)
           /\ desk' = HydratedRun(ledger.selected) /\ history' = Rebased(desk')
  <2>1. ledger.selected \in DOMAIN ledger.runs
    BY <1>5, LenProperties, TypeParts DEF HasEvidence, Inv, LedgerInv, LedgerOK
  <2>2. Kept' /\ desk' \in Desk /\ HistoryOK(history')
    BY <1>2, <1>3, <1>5, <2>1, Hydrated
  <2>3. DeskOK'
    BY <1>1, <2>2 DEF DeskOK
  <2>4. LedgerOK' /\ RestOK'
    BY <1>1, TypeParts DEF Inv, LedgerOK, RestOK, project, budget, decisions
  <2> QED
    BY <1>4, <2>2, <2>3, <2>4, PartsType DEF Inv, Kept
<1>6. CASE desk' = NoDesk /\ history' = Cleared
  <2>1. ~HasDesk'
    BY <1>6 DEF HasDesk
  <2>2. DeskInv' /\ HistoryInv'
    BY <2>1 DEF DeskInv, HistoryInv
  <2>3. PendingInv'
    BY <1>2, <1>3, <1>4 DEF PendingInv, Revisions
  <2>4. DeskOK'
    BY <1>1, <1>6, EmptyStacks DEF DeskOK
  <2>5. LedgerOK' /\ RestOK'
    BY <1>1, TypeParts DEF Inv, LedgerOK, RestOK, project, budget, decisions
  <2> QED
    BY <1>3, <1>4, <2>2, <2>3, <2>4, <2>5, PartsType DEF Inv
<1> QED
  BY <1>1, <1>5, <1>6

(***************************************************************************)
(* Undo and redo lose nothing: the two stacks together are no longer than  *)
(* the limit, so that what one of them gives fits on the other.            *)
(***************************************************************************)
StacksFit(h) == Len(h.undo) + Len(h.redo) <= HistoryLimit

LEMMA EmptyFits == StacksFit(Cleared) /\ \A d : StacksFit(Rebased(d))
<1>1. <<>> \in Seq(Snapshots) /\ Len(<<>>) = 0
  BY EmptySeq
<1>2. Cleared.undo = <<>> /\ Cleared.redo = <<>>
  BY DEF Cleared
<1>3. ASSUME NEW d PROVE Rebased(d).undo = <<>> /\ Rebased(d).redo = <<>>
  BY DEF Rebased, Cleared
<1>4. StacksFit(Cleared)
  BY <1>1, <1>2, DraftAssumption DEF StacksFit
<1>5. ASSUME NEW d PROVE StacksFit(Rebased(d))
  <2> DEFINE h == Rebased(d)
  <2>1. h.undo = <<>> /\ h.redo = <<>>
    BY <1>3
  <2> HIDE DEF h
  <2>2. StacksFit(h)
    BY <1>1, <2>1, DraftAssumption DEF StacksFit
  <2> QED
    BY <2>2 DEF h
<1> QED
  BY <1>4, <1>5

\* A new edit clears the stack of redo, and the other is bounded.
LEMMA RecordFits ==
  ASSUME NEW h, HistoryOK(h), NEW before \in Desk, NEW after \in Desk, NEW coalesce
  PROVE  StacksFit(RecordChange(h, before, after, coalesce))
<1> DEFINE r == RecordChange(h, before, after, coalesce)
           ensured == EnsureScope(h, after)
           scoped == [ensured EXCEPT !.redo = <<>>]
<1>1. HistoryOK(r)
  BY RecordHolds
<1>2. HistoryOK(ensured)
  BY EmptyStacks DEF EnsureScope
<1>3. <<>> \in Stacks /\ Len(<<>>) = 0
  BY EmptySeq DEF Stacks
<1> HIDE DEF ensured
<1>4. scoped \in [scope : Scopes, undo : Stacks, redo : Stacks] /\ scoped.redo = <<>>
  BY <1>2, <1>3, StacksReplaced DEF HistoryOK
<1> HIDE DEF scoped
<1>5. \/ r = scoped
      \/ r = [scoped EXCEPT !.undo = PushBounded(scoped.undo, Snapshot(before))]
  BY Zenon DEF RecordChange, scoped, ensured
<1>6. r.redo = <<>>
  BY <1>4, <1>5
<1> HIDE DEF r
<1>7. Len(r.undo) <= HistoryLimit /\ Len(r.undo) \in Nat
  BY <1>1, LenProperties DEF HistoryOK, Stacks
<1>8. StacksFit(r)
  BY <1>3, <1>6, <1>7, DraftAssumption DEF StacksFit
<1> QED
  BY <1>8 DEF r

\* One stack gives its newest entry, the other takes it without a loss.
LEMMA Moved ==
  ASSUME NEW from \in Seq(Snapshots), NEW to \in Seq(Snapshots), NEW s \in Snapshots,
         from # <<>>, Len(from) + Len(to) <= HistoryLimit
  PROVE  /\ PushBounded(to, s) = Append(to, s)
         /\ Front(from) \in Seq(Snapshots) /\ Append(to, s) \in Seq(Snapshots)
         /\ Len(Front(from)) + Len(Append(to, s)) <= HistoryLimit
         /\ Front(from) \o <<Last(from)>> = from
<1>1. Len(from) \in Nat /\ Len(from) > 0 /\ Len(to) \in Nat /\ DOMAIN from = 1..Len(from)
  BY EmptySeq, LenProperties
<1>2. Len(to) < HistoryLimit
  BY <1>1, DraftAssumption
<1>3. /\ Front(from) = SubSeq(from, 1, Len(from) - 1) /\ Last(from) = from[Len(from)]
      /\ \A i \in 1..Len(from) : from[i] \in Snapshots
  BY ElementOfSeq DEF Front, Last
<1>4. /\ Front(from) \in Seq(Snapshots)
      /\ Len(Front(from)) = Len(from) - 1
      /\ \A i \in 1..Len(from) - 1 : Front(from)[i] = from[i]
  BY <1>1, <1>3, SubSeqProperties
<1>5. Append(to, s) \in Seq(Snapshots) /\ Len(Append(to, s)) = Len(to) + 1
  BY AppendProperties
<1> DEFINE f == Front(from)
           l == Last(from)
           one == <<l>>
<1>6. l \in Snapshots /\ one \in Seq(Snapshots) /\ Len(one) = 1 /\ one[1] = l
  BY <1>1, <1>3
<1>7. f \in Seq(Snapshots) /\ Len(f) = Len(from) - 1
  BY <1>4
<1> HIDE DEF f, l, one
<1>8. /\ f \o one \in Seq(Snapshots) /\ Len(f \o one) = Len(from)
      /\ \A i \in 1..Len(from) : (f \o one)[i] = IF i <= Len(f) THEN f[i] ELSE one[i - Len(f)]
  <2>1. /\ f \o one \in Seq(Snapshots) /\ Len(f \o one) = Len(f) + Len(one)
        /\ \A i \in 1..Len(f) + Len(one) :
               (f \o one)[i] = IF i <= Len(f) THEN f[i] ELSE one[i - Len(f)]
    BY <1>6, <1>7, ConcatProperties
  <2>2. Len(f) + Len(one) = Len(from)
    BY <1>1, <1>6, <1>7
  <2> QED
    BY <2>1, <2>2
<1>9. \A i \in 1..Len(from) : (f \o one)[i] = from[i]
  BY <1>1, <1>3, <1>4, <1>6, <1>7, <1>8 DEF f, l
<1>10. f \o one = from
  BY <1>8, <1>9, SeqEqual
<1>11. PushBounded(to, s) = Append(to, s)
  BY <1>2 DEF PushBounded
<1>12. Len(Front(from)) + Len(Append(to, s)) <= HistoryLimit
  BY <1>1, <1>4, <1>5, DraftAssumption
<1> QED
  BY <1>4, <1>5, <1>10, <1>11, <1>12 DEF f, one, l

LEMMA ReverseAppend ==
  ASSUME NEW t \in Seq(Snapshots), NEW s \in Snapshots
  PROVE  /\ Reverse(Append(t, s)) = <<s>> \o Reverse(t)
         /\ Reverse(t) \in Seq(Snapshots)
<1>1. Len(t) \in Nat /\ \A i \in 1..Len(t) : t[i] \in Snapshots
  BY LenProperties, ElementOfSeq
<1>2. /\ Append(t, s) \in Seq(Snapshots) /\ Len(Append(t, s)) = Len(t) + 1
      /\ \A i \in 1..Len(t) : Append(t, s)[i] = t[i]
      /\ Append(t, s)[Len(t) + 1] = s
  BY AppendProperties
<1> DEFINE n == Len(t)
           grown == Append(t, s)
           back == Reverse(t)
           one == <<s>>
<1> HIDE DEF grown
<1>3. back \in Seq(Snapshots) /\ Len(back) = n /\ \A i \in 1..n : back[i] = t[(n - i) + 1]
  <2>1. back = [i \in 1..n |-> t[(n - i) + 1]]
    BY DEF Reverse
  <2>2. \A i \in 1..n : t[(n - i) + 1] \in Snapshots
    BY <1>1
  <2> QED
    BY <1>1, <2>1, <2>2
<1>4. /\ Reverse(grown) \in Seq(Snapshots) /\ Len(Reverse(grown)) = n + 1
      /\ \A i \in 1..n + 1 : Reverse(grown)[i] = grown[((n + 1) - i) + 1]
  <2>1. Reverse(grown) = [i \in 1..n + 1 |-> grown[((n + 1) - i) + 1]]
    BY <1>2 DEF Reverse, grown
  <2>2. \A i \in 1..n + 1 : grown[((n + 1) - i) + 1] \in Snapshots
    BY <1>1, <1>2 DEF grown
  <2> QED
    BY <1>1, <2>1, <2>2
<1>5. one \in Seq(Snapshots) /\ Len(one) = 1 /\ one[1] = s
  OBVIOUS
<1> HIDE DEF back, one
<1>6. /\ one \o back \in Seq(Snapshots) /\ Len(one \o back) = n + 1
      /\ \A i \in 1..n + 1 : (one \o back)[i] = IF i <= 1 THEN one[i] ELSE back[i - 1]
  <2>1. /\ one \o back \in Seq(Snapshots) /\ Len(one \o back) = Len(one) + Len(back)
        /\ \A i \in 1..Len(one) + Len(back) :
               (one \o back)[i] = IF i <= Len(one) THEN one[i] ELSE back[i - Len(one)]
    <3>1. one \in Seq(Snapshots) /\ back \in Seq(Snapshots)
      BY <1>3, <1>5
    <3> QED
      BY <3>1, ConcatProperties
  <2>2. Len(one) = 1 /\ Len(one) + Len(back) = n + 1
    BY <1>1, <1>3, <1>5
  <2> QED
    BY <2>1, <2>2
<1>7. \A i \in 1..n + 1 : Reverse(grown)[i] = (one \o back)[i]
  <2> SUFFICES ASSUME NEW i \in 1..n + 1 PROVE Reverse(grown)[i] = (one \o back)[i]
    OBVIOUS
  <2>1. CASE i = 1
    BY <1>1, <1>2, <1>4, <1>5, <1>6, <2>1 DEF grown
  <2>2. CASE i # 1
    <3>1. i - 1 \in 1..n /\ ((n + 1) - i) + 1 \in 1..n /\ (n - (i - 1)) + 1 = ((n + 1) - i) + 1
      BY <1>1, <2>2
    <3>2. Reverse(grown)[i] = t[((n + 1) - i) + 1]
      BY <1>2, <1>4, <3>1 DEF grown
    <3>3. (one \o back)[i] = t[((n + 1) - i) + 1]
      <4>1. ~(i <= 1)
        BY <1>1, <2>2
      <4>2. (one \o back)[i] = back[i - 1]
        BY <1>6, <4>1
      <4>3. back[i - 1] = t[(n - (i - 1)) + 1]
        BY <1>3, <3>1
      <4> QED
        BY <3>1, <4>2, <4>3
    <3> QED
      BY <3>2, <3>3
  <2> QED
    BY <2>1, <2>2
<1>8. Reverse(grown) = one \o back
  BY <1>4, <1>6, <1>7, SeqEqual
<1> QED
  BY <1>3, <1>8 DEF grown, back, one

\* The draft that undo or redo puts back is the snapshot it took.
LEMMA Restored ==
  ASSUME NEW d \in Desk, NEW s \in Snapshots
  PROVE  Snapshot(Restore(d, s)) = s
BY DEF Restore, Snapshot, Snapshots, Desk, Contract

(***************************************************************************)
(* The invariant holds, and what it means.                                 *)
(***************************************************************************)
LEMMA InitInv == Init => Inv
<1> SUFFICES ASSUME Init PROVE Inv
  OBVIOUS
<1>1. /\ ledger = [revisions |-> <<>>, runs |-> <<>>, selected |-> 0]
      /\ saved = FALSE /\ access = "edit" /\ desk = NoDesk /\ dirty = FALSE
      /\ draft = Nothing /\ pending = Nothing /\ generation = 0
      /\ requests = <<>> /\ computing = Nothing /\ results = <<>>
      /\ history = Cleared /\ dragging = FALSE /\ edits = 0 /\ mishaps = 0
      /\ approvals = {} /\ waived = {}
  BY DEF Init
<1>2. /\ <<>> \in Seq(Revision) /\ <<>> \in Seq(Run) /\ <<>> \in Seq(WorkRequest)
      /\ <<>> \in Seq([request : WorkRequest, ok : BOOLEAN])
      /\ Len(<<>>) = 0 /\ DOMAIN <<>> = {}
  BY EmptySeq
<1>3. /\ Cleared \in [scope : [case : Cases, source : 1..MaxRevisions] \cup {Nothing},
                      undo : Seq(Snapshots), redo : Seq(Snapshots)]
      /\ Len(Cleared.undo) <= HistoryLimit /\ Len(Cleared.redo) <= HistoryLimit
  BY EmptyStacks DEF HistoryOK, Scopes, Stacks
<1>4. TypeOK
  <2>1. /\ ledger \in [revisions : Seq(Revision), runs : Seq(Run), selected : 0..MaxRuns]
        /\ Len(ledger.revisions) <= MaxRevisions /\ Len(ledger.runs) <= MaxRuns
    BY <1>1, <1>2, DraftAssumption
  <2>2. /\ requests \in Seq(WorkRequest)
        /\ results \in Seq([request : WorkRequest, ok : BOOLEAN])
    BY <1>1, <1>2
  <2>3. generation \in 0..MaxRequests /\ edits \in 0..MaxEdits /\ mishaps \in 0..MaxMishaps
    BY <1>1, DraftAssumption
  <2>4. /\ history \in [scope : [case : Cases, source : 1..MaxRevisions] \cup {Nothing},
                        undo : Seq(Snapshots), redo : Seq(Snapshots)]
        /\ Len(history.undo) <= HistoryLimit /\ Len(history.redo) <= HistoryLimit
    BY <1>1, <1>3
  <2> QED
    BY <1>1, <2>1, <2>2, <2>3, <2>4, Zenon DEF TypeOK
<1>5. LedgerInv
  BY <1>1, <1>2 DEF LedgerInv, Known, Revisions
<1>6. DeskInv /\ HistoryInv /\ PendingInv
  BY <1>1 DEF DeskInv, HistoryInv, PendingInv, HasDesk
<1> QED
  BY <1>4, <1>5, <1>6 DEF Inv

LEMMA StutterInv ==
  ASSUME Inv, UNCHANGED vars
  PROVE  Inv'
<1>1. Kept'
  BY Steady DEF vars, project, orientation, editing
<1>2. LedgerOK' /\ DeskOK' /\ OrientationOK' /\ WorkerOK' /\ RestOK'
  BY TypeParts DEF vars, project, orientation, worker, editing, budget, decisions, Inv, LedgerOK,
       DeskOK, OrientationOK, WorkerOK, RestOK
<1> QED
  BY <1>1, <1>2, PartsType DEF Inv, Kept

LEMMA EditCaseInv ==
  ASSUME Inv, EditCase
  PROVE  Inv'
BY EditPointInv, ToggleApprovalInv, EndDragInv, UndoInv, RedoInv, RecordWaiverInv,
   SelectModelInv, EditOrientationInv, ApplyBodyOrientationInv, Zenon DEF EditCase

LEMMA NextInv == Inv /\ [Next]_vars => Inv'
<1> SUFFICES ASSUME Inv, [Next]_vars PROVE Inv'
  OBVIOUS
<1>1. ASSUME NEW g \in Geometries, NEW m \in Chosen, NEW c \in Cases, ImportCadPath(g, m, c)
      PROVE  Inv'
  BY <1>1, ImportCadPathInv
<1>2. CASE EditCase
  BY <1>2, EditCaseInv
<1>3. CASE Work
  BY <1>3, WorkInv
<1>4. CASE HandleOrientationResults
  BY <1>4, DiscardResultInv, InstallBodyOrientationInv, InstallHydratedBodyOrientationInv
  DEF HandleOrientationResults
<1>5. CASE RunExternalFlow \/ RunNotStarted
  BY <1>5, RunExternalFlowInv, RunNotStartedInv
<1>6. ASSUME NEW state \in {"succeeded", "failed"}, EndRun(state)
      PROVE  Inv'
  BY <1>6, EndRunInv
<1>7. CASE Persist \/ Reopen \/ ReconcileDependencies
  BY <1>7, PersistInv, ReopenInv, ReconcileDependenciesInv
<1>8. ASSUME NEW x \in DOMAIN ledger.runs, SelectExternalRun(x)
      PROVE  Inv'
  BY <1>8, SelectExternalRunInv
<1>9. CASE UNCHANGED vars
  BY <1>9, StutterInv
<1> QED
  BY <1>1, <1>2, <1>3, <1>4, <1>5, <1>6, <1>7, <1>8, <1>9, Zenon DEF Next

LEMMA InvAlways == Spec => []Inv
BY InitInv, NextInv, PTL DEF Spec

\* Every variable keeps the shape that the code gives it: no stack of the undo
\* history outgrows its limit, and no bound of the model is overrun.
THEOREM Typed == Spec => []TypeOK
<1>1. Inv => TypeOK
  BY DEF Inv
<1> QED
  BY InvAlways, <1>1, PTL

\* Whatever the worker returns and whenever, the mask on the desk is that of
\* the geometry and the attitude of the contract next to it
\* (classify_orientation_result, app.rs:395).
THEOREM MaskMatches == Spec => []MaskMatchesContract
<1>1. Inv => MaskMatchesContract
  BY DEF Inv, DeskInv, MaskMatchesContract
<1> QED
  BY InvAlways, <1>1, PTL

\* Every run computes on the geometry and the attitude that its revision
\* records and that the operator has approved, through undo, late results,
\* reopened projects and stored runs.
THEOREM Approved == Spec => []RunsAreApproved
<1>1. Inv => RunsAreApproved
  <2> SUFFICES ASSUME Inv, NEW x \in DOMAIN ledger.runs
               PROVE  LET c == Revisions[ledger.runs[x].revision].contract
                      IN  ledger.runs[x].mask = MaskOf(c) /\ c.approved /\ MaskOf(c) \in approvals
    BY DEF RunsAreApproved
  <2>1. RunFits(ledger.runs[x])
    BY DEF Inv, LedgerInv
  <2> QED
    BY <2>1 DEF Inv, LedgerInv, RunFits, Backed
<1> QED
  BY InvAlways, <1>1, PTL

\* Every finding of the preflight that stood against a run has a waiver that
\* the operator has named for this geometry, whatever the preflight measures.
THEOREM Waived == Spec => []IssuesAreWaived
<1>1. Inv => IssuesAreWaived
  <2> SUFFICES ASSUME Inv, NEW x \in DOMAIN ledger.runs,
                      NEW code \in SupportIssues(Revisions[ledger.runs[x].revision].contract)
               PROVE  LET c == Revisions[ledger.runs[x].revision].contract
                      IN  code \in c.waivers /\ <<c.geometry, code>> \in waived
    BY DEF IssuesAreWaived
  <2>1. RunFits(ledger.runs[x])
    BY DEF Inv, LedgerInv
  <2> QED
    BY <2>1 DEF Inv, LedgerInv, RunFits, Covered
<1> QED
  BY InvAlways, <1>1, PTL

\* A draft that is not marked as unsaved is the revision on record that it
\* claims to be, so that Save and autosave may skip it (app.rs:1254).
THEOREM CleanIsRecorded == Spec => []CleanDraftIsRecorded
<1>1. Inv => CleanDraftIsRecorded
  BY DEF Inv, DeskInv, CleanDraftIsRecorded
<1> QED
  BY InvAlways, <1>1, PTL

LEMMA UndoStep ==
  ASSUME Inv, StacksFit(history), Undo
  PROVE  StacksFit(history') /\ Timeline' = Timeline
<1> DEFINE u == history.undo
           r == history.redo
           s == Snapshot(desk)
           l == Last(u)
<1>1. /\ desk \in Desk /\ HistoryOK(history) /\ u # <<>>
      /\ desk' = Restore(desk, l) /\ history' = UndoOf(history, desk)
  BY DeskTyped DEF Undo, Editable, CanUndo, ApplyHistoryAction
<1>2. u \in Seq(Snapshots) /\ r \in Seq(Snapshots) /\ s \in Snapshots /\ l \in Snapshots
  BY <1>1, DeskShape, PopHolds DEF HistoryOK, Stacks
<1>3. Len(u) + Len(r) <= HistoryLimit
  BY DEF StacksFit
<1>4. /\ PushBounded(r, s) = Append(r, s) /\ Front(u) \o <<l>> = u
      /\ Front(u) \in Seq(Snapshots) /\ Append(r, s) \in Seq(Snapshots)
      /\ Len(Front(u)) + Len(Append(r, s)) <= HistoryLimit
  BY <1>1, <1>2, <1>3, Moved
<1> DEFINE f == Front(u)
           g == Append(r, s)
<1>5. history' = [history EXCEPT !.undo = f, !.redo = g]
  BY <1>1, <1>4 DEF UndoOf
<1>6. Snapshot(desk') = l
  BY <1>1, <1>2, Restored
<1>7. Reverse(g) = <<s>> \o Reverse(r) /\ Reverse(r) \in Seq(Snapshots)
  BY <1>2, ReverseAppend
<1>8. f \in Seq(Snapshots)
  BY <1>4
<1> HIDE DEF u, r, s, l, f, g
<1>9. history'.undo = f /\ history'.redo = g
  BY <1>1, <1>5 DEF HistoryOK
<1>10. StacksFit(history')
  BY <1>4, <1>9 DEF StacksFit, f, g
<1>11. Timeline' = f \o <<l>> \o (<<s>> \o Reverse(r))
  BY <1>6, <1>7, <1>9 DEF Timeline
<1>12. Timeline = (f \o <<l>>) \o <<s>> \o Reverse(r)
  BY <1>4 DEF Timeline, u, r, s, f
<1>13. <<l>> \in Seq(Snapshots) /\ <<s>> \in Seq(Snapshots)
  BY <1>2
<1>14. f \o <<l>> \in Seq(Snapshots)
  BY <1>8, <1>13, ConcatProperties
<1>15. Timeline' = Timeline
  BY <1>7, <1>11, <1>12, <1>13, <1>14, ConcatAssociative
<1> QED
  BY <1>10, <1>15

LEMMA RedoStep ==
  ASSUME Inv, StacksFit(history), Redo
  PROVE  StacksFit(history') /\ Timeline' = Timeline
<1> DEFINE u == history.undo
           r == history.redo
           s == Snapshot(desk)
           l == Last(r)
<1>1. /\ desk \in Desk /\ HistoryOK(history) /\ r # <<>>
      /\ desk' = Restore(desk, l) /\ history' = RedoOf(history, desk)
  BY DeskTyped DEF Redo, Editable, CanRedo, ApplyHistoryAction
<1>2. u \in Seq(Snapshots) /\ r \in Seq(Snapshots) /\ s \in Snapshots /\ l \in Snapshots
  BY <1>1, DeskShape, PopHolds DEF HistoryOK, Stacks
<1>3. Len(r) + Len(u) <= HistoryLimit
  <2>1. Len(u) + Len(r) <= HistoryLimit
    BY DEF StacksFit
  <2>2. Len(u) \in Nat /\ Len(r) \in Nat
    BY <1>2, LenProperties
  <2> HIDE DEF u, r
  <2> QED
    BY <2>1, <2>2
<1>4. /\ PushBounded(u, s) = Append(u, s) /\ Front(r) \o <<l>> = r
      /\ Front(r) \in Seq(Snapshots) /\ Append(u, s) \in Seq(Snapshots)
      /\ Len(Front(r)) + Len(Append(u, s)) <= HistoryLimit
  BY <1>1, <1>2, <1>3, Moved
<1> DEFINE f == Front(r)
           g == Append(u, s)
<1>5. history' = [history EXCEPT !.redo = f, !.undo = g]
  BY <1>1, <1>4 DEF RedoOf
<1>6. Snapshot(desk') = l
  BY <1>1, <1>2, Restored
<1>7. f \in Seq(Snapshots) /\ g \in Seq(Snapshots)
  BY <1>4
<1>8. Append(f, l) = f \o <<l>> /\ g = u \o <<s>>
  BY <1>2, <1>7, AppendIsConcat
<1> HIDE DEF u, f
<1>9. Reverse(r) = <<l>> \o Reverse(f) /\ Reverse(f) \in Seq(Snapshots)
  BY <1>2, <1>4, <1>7, <1>8, ReverseAppend DEF f
<1> HIDE DEF r, s, l, g
<1>10. history'.redo = f /\ history'.undo = g
  BY <1>1, <1>5 DEF HistoryOK
<1>11. StacksFit(history')
  BY <1>4, <1>7, <1>10, LenProperties DEF StacksFit, f, g
<1>12. Timeline' = g \o <<l>> \o Reverse(f)
  BY <1>6, <1>10 DEF Timeline
<1>13. Timeline = g \o (<<l>> \o Reverse(f))
  BY <1>8, <1>9 DEF Timeline, u, r, s
<1>14. <<l>> \in Seq(Snapshots)
  BY <1>2
<1>15. Timeline' = Timeline
  BY <1>7, <1>9, <1>12, <1>13, <1>14, ConcatAssociative
<1> QED
  BY <1>11, <1>15

\* Every other step keeps the history, empties it or records a change in it.
LEMMA FitsKept ==
  ASSUME Inv, StacksFit(history), [Next]_vars
  PROVE  StacksFit(history')
<1>1. ASSUME NEW d, NEW transaction \in BOOLEAN, HasDesk, d \in Desk, Edited(d, transaction)
      PROVE  StacksFit(history')
  BY <1>1, DeskTyped, RecordFits DEF Edited
<1>2. CASE EditCase
  <2>1. ASSUME NEW p \in Points, NEW transaction \in BOOLEAN, EditPoint(p, transaction)
        PROVE  StacksFit(history')
    <3>1. HasDesk /\ Edited([desk EXCEPT !.contract.point = p], transaction)
      BY <2>1 DEF EditPoint, Editable
    <3>2. [desk EXCEPT !.contract.point = p] \in Desk
      BY <2>1, <3>1, DeskTyped DEF Desk, Contract
    <3> QED
      BY <1>1, <3>1, <3>2
  <2>2. CASE ToggleApproval
    <3>1. HasDesk /\ Edited([desk EXCEPT !.contract.approved = ~@], FALSE)
      BY <2>2 DEF ToggleApproval, Editable
    <3>2. [desk EXCEPT !.contract.approved = ~@] \in Desk
      BY <3>1, DeskTyped DEF Desk, Contract
    <3> QED
      BY <1>1, <3>1, <3>2
  <2>3. ASSUME NEW code \in Waivable, RecordWaiver(code)
        PROVE  StacksFit(history')
    <3>1. HasDesk /\ Edited([desk EXCEPT !.contract.waivers = @ \cup {code}], FALSE)
      BY <2>3 DEF RecordWaiver, Editable
    <3>2. [desk EXCEPT !.contract.waivers = @ \cup {code}] \in Desk
      BY <3>1, DeskTyped DEF Desk, Contract
    <3> QED
      BY <1>1, <3>1, <3>2
  <2>4. ASSUME NEW m \in Models, SelectModel(m)
        PROVE  StacksFit(history')
    BY <2>4, EmptyFits DEF SelectModel
  <2>5. CASE EndDrag
    BY <2>5 DEF EndDrag
  <2>6. CASE Undo \/ Redo
    BY <2>6, UndoStep, RedoStep
  <2>7. ASSUME NEW a \in Attitudes, EditOrientation(a) \/ ApplyBodyOrientation(a)
        PROVE  StacksFit(history')
    BY <2>7 DEF EditOrientation, ApplyBodyOrientation, editing
  <2> QED
    BY <1>2, <2>1, <2>2, <2>3, <2>4, <2>5, <2>6, <2>7, Zenon DEF EditCase
<1>3. ASSUME NEW d, CommitUnchanged(d) \/ CommitRevision(d)
      PROVE  StacksFit(history')
  BY <1>3, EmptyFits DEF CommitUnchanged, CommitRevision, editing
<1>4. ASSUME NEW g \in Geometries, NEW m \in Chosen, NEW c \in Cases, ImportCadPath(g, m, c)
      PROVE  StacksFit(history')
  BY <1>4, EmptyFits DEF ImportCadPath
<1>5. CASE Work \/ ReconcileDependencies \/ UNCHANGED vars
  BY <1>5 DEF Work, TakeNewest, Finish, ReconcileDependencies, vars, editing
<1>6. CASE HandleOrientationResults
  <2>1. CASE DiscardResult
    BY <2>1 DEF DiscardResult, editing
  <2>2. CASE InstallBodyOrientation
    BY <1>3, <2>2, Zenon DEF InstallBodyOrientation, editing
  <2>3. CASE InstallHydratedBodyOrientation
    BY <2>3, EmptyFits DEF InstallHydratedBodyOrientation
  <2> QED
    BY <1>6, <2>1, <2>2, <2>3 DEF HandleOrientationResults
<1>7. CASE RunExternalFlow
  BY <1>7, EmptyFits DEF RunExternalFlow
<1>8. CASE RunNotStarted
  BY <1>3, <1>8, EmptyFits, Zenon DEF RunNotStarted
<1>9. ASSUME NEW state, EndRun(state)
      PROVE  StacksFit(history')
  BY <1>9 DEF EndRun, editing
<1>10. CASE Persist
  <2>1. CASE CommitUnchanged(desk) \/ CommitRevision(desk)
    BY <1>3, <2>1
  <2>2. CASE history' = history
    BY <2>2
  <2> QED
    BY <1>10, <2>1, <2>2, Zenon DEF Persist, editing
<1>11. ASSUME NEW x, SelectExternalRun(x)
       PROVE  StacksFit(history')
  BY <1>11, EmptyFits, Zenon DEF SelectExternalRun
<1>12. CASE Reopen
  BY <1>12, EmptyFits, Zenon DEF Reopen
<1> QED
  BY <1>2, <1>4, <1>5, <1>6, <1>7, <1>8, <1>9, <1>10, <1>11, <1>12, Zenon DEF Next

\* However long the history may grow and however often the operator walks it,
\* undo and redo keep the whole line of drafts: no draft is pushed out of a
\* bounded stack (CaseDraftHistory, engineering.rs:803).
THEOREM TimelineKept == Spec => UndoLosesNothing
<1>1. Init => StacksFit(history)
  BY EmptyFits DEF Init
<1>2. Inv /\ StacksFit(history) /\ [Next]_vars => StacksFit(history)'
  BY FitsKept
<1>3. Inv /\ StacksFit(history) /\ [Next]_vars =>
        [Undo \/ Redo => Timeline' = Timeline]_vars
  BY UndoStep, RedoStep
<1> QED
  BY <1>1, <1>2, <1>3, InvAlways, PTL DEF Spec, UndoLosesNothing
=============================================================================
