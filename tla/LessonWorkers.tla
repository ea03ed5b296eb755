---------------------------- MODULE LessonWorkers ----------------------------
(***************************************************************************)
(* LessonWorkerService: the pages of a planned lesson are generated by at  *)
(* most Concurrency child workers at a time.  The only durable state of    *)
(* the lesson is one checkpoint, written by create and compare-and-set;    *)
(* any number of hosts may call advance on it at once.  A page goes        *)
(* pending, resolving, prepared, claimed, terminal.  The children are the  *)
(* tasks of GenerationWorkers, the pages come from LessonPlanning.         *)
(***************************************************************************)
EXTENDS GenerationWorkers, LessonPlanning, FiniteSetsExt

CONSTANTS Topics,       \* how many topics the lesson has
          Sizes,        \* the paragraphs a topic may have: sequences of visible sizes
          MaxPages,     \* MAX_LESSON_WORKER_PAGES
          Wrappers,     \* what resolving the evidence of a page may give
          Concurrency,  \* request.concurrency
          Ceiling,      \* request.candidate_ceiling
          Overviews     \* the cards that are lesson overviews

VARIABLES lesson,    \* the unit to be planned, None once the lesson has started
          pages,     \* the stored checkpoint's pages, None before start
          coord,     \* coord[p]: the coordinator call of a process
          owners     \* owners[n]: the published owner receipt of page n

lessonVars == <<lesson, pages, coord, owners>>

Positions == 1..MaxPages

PageStatuses == {"pending", "resolving", "prepared", "claimed", "terminal"}

\* What a stored checkpoint may be: its pages are numbered from 1.
Checkpoints ==
    UNION {[1..n -> [status : PageStatuses, wrapper : Wrappers \union {None},
                     receipt : {None} \union [ok : BOOLEAN, cards : Outputs \union {{}}]]] :
              n \in 0..MaxPages}

ASSUME LessonAssumption ==
    /\ MaxPages \in Nat /\ Concurrency \in Nat \ {0} /\ Ceiling \in Nat
    /\ Tasks = Positions \X Wrappers
    /\ None \notin Checkpoints
    /\ Topics \in Nat
    /\ \A cards \in Outputs : IsFiniteSet(cards)

\* LessonWorkerPageCheckpoint: the wrapper names the child task; the receipt
\* (LessonWorkerPageReceipt) holds the cards of a completed child, or "failed".
Page(status, wrapper, receipt) == [status |-> status, wrapper |-> wrapper, receipt |-> receipt]

\* LessonWorkerPageReceipt: a failure code, or the cards of the child.
Receipt(ok, cards) == [ok |-> ok, cards |-> cards]

PendingPage == Page("pending", None, None)

\* PreparedPlannedFlashcardScope: the evidence of the page under the plan's
\* commitments; what it is made of is all that two resolutions may differ in.
PreparedPage(wrapper) == Page("prepared", wrapper, None)

\* LessonWorkerCheckpoint, as start creates it.
Checkpoint(plan) == [n \in DOMAIN plan |-> PendingPage]

\* LessonWorkerRequest: a plan of at most MaxPages pages, numbered from the first
\* (FlashcardLessonPlan.__post_init__: bundle positions are contiguous).
Requestable(plan) == \E n \in 0..MaxPages : DOMAIN plan = 1..n

\* child_task_id: the identity commits the page and its wrapper.
child_task_id(n, wrapper) == <<n, wrapper>>

\* The planned worker's detail: the verified cards of a completed task.
detail(t) == worker[t].output

\* _page_rank
Rank(status) ==
    CHOOSE n \in 1..5 : <<"pending", "resolving", "prepared", "claimed", "terminal">>[n] = status

Claimed(checkpoint) == {n \in DOMAIN checkpoint : checkpoint[n].status = "claimed"}

\* A coordinator call: its copy of the checkpoint, the positions it has left,
\* the claimed positions it found, whether it is still observing those, and how
\* many children it may add.
Working(copy, left, found, recovering, available) ==
    [pc |-> "working", copy |-> copy, left |-> left, found |-> found,
     recovering |-> recovering, available |-> available]

Init ==
    /\ InitWorkers
    /\ \E parents \in {above \in [1..Topics -> 0..Topics] : \A k \in 1..Topics : above[k] < k},
          declared \in [1..Topics -> Eligibility \union {Undeclared}],
          sizes \in [1..Topics -> Sizes] :
            lesson = Unit(parents, declared, sizes)
    /\ _validate_lesson_structure(lesson)
    /\ pages = None
    /\ coord = [p \in Procs |-> Idle]
    /\ owners = [n \in Positions |-> None]

-----------------------------------------------------------------------------
\* Fault: a call ends after the claimed pages it found.
ProceedNoFurther(c) ==
    LET found == {n \in c.left : c.copy[n].status = "claimed"}
    IN  IF found # {} THEN [c EXCEPT !.left = found] ELSE Idle

\* What advance does next with its copy: observe the claimed pages it found,
\* then count the free places and go on to the other pages, until the places
\* or the pages run out.
Proceed(c) ==
    LET found == {n \in c.left : c.copy[n].status = "claimed"}
        places == Concurrency - Cardinality(Claimed(c.copy))
        scan == IF c.recovering THEN Working(c.copy, DOMAIN c.copy \ c.found, c.found, FALSE, places)
                ELSE c
        open == {n \in scan.left : c.copy[n].status # "terminal"}
    IN  IF c.recovering /\ found # {} THEN [c EXCEPT !.left = found]
        ELSE IF scan.available > 0 /\ open # {} THEN [scan EXCEPT !.left = open]
        ELSE Idle

CoordGoto(p, next) == coord' = [coord EXCEPT ![p] = next]

\* The page a call works on: the scans follow the plan.
Position(p) == Min(coord[p].left)

Current(p) == coord[p].copy[Position(p)]

\* start: plan the lesson, create its checkpoint, and go on to advance.
lesson_start(p) ==
    LET plan == _build_bundles(lesson)
    IN  /\ coord[p] = Idle /\ Free(p)
        /\ pages = None
        /\ Requestable(plan)
        /\ pages' = Checkpoint(plan)
        /\ lesson' = None
        /\ CoordGoto(p, [pc |-> "loading"])
        /\ UNCHANGED owners
        /\ UNCHANGED workerVars

\* advance: load the checkpoint.
advance(p) ==
    /\ coord[p].pc \in {"idle", "loading"} /\ Free(p)
    /\ pages # None
    /\ CoordGoto(p, Proceed(Working(pages, Claimed(pages), Claimed(pages), TRUE, 0)))
    /\ UNCHANGED <<lesson, pages, owners>>
    /\ UNCHANGED workerVars

\* The rest of a call after its page was observed: a page that is terminal now
\* gives its place back.
Observed(c) ==
    LET n == Min(c.left)
        given == IF ~c.recovering /\ c.copy[n].status = "terminal" THEN 1 ELSE 0
    IN  Proceed([c EXCEPT !.pc = "working", !.left = @ \ {n}, !.available = @ + given])

\* How a call goes on after it has written or observed a page.
GoOn(c) == IF c.pc = "observing" THEN Observed(c) ELSE Proceed(c)

\* _replace_page: compare-and-set the whole checkpoint.  After a lost race the
\* stored page is taken if it is the wanted one or further on; anything else is
\* a conflict, which ends the call.
_replace_page(p, page) ==
    LET n == Position(p)
        c == coord[p]
        wanted == [c.copy EXCEPT ![n] = page]
        adopts == pages[n] = page \/ Rank(pages[n].status) > Rank(page.status)
    IN  /\ pages' = IF pages = c.copy THEN wanted ELSE pages
        /\ CoordGoto(p, IF pages = c.copy \/ adopts
                        THEN GoOn([c EXCEPT !.copy = pages']) ELSE Idle)
        /\ UNCHANGED <<lesson, owners>>

Scanning(p, status) ==
    coord[p].pc = "working" /\ Current(p).status = status

\* _prepare_page, the first half: the page is marked before its evidence is
\* resolved.
resolve_page(p) ==
    /\ Scanning(p, "pending")
    /\ _replace_page(p, Page("resolving", None, None))
    /\ UNCHANGED workerVars

\* _prepare_page, the second half: resolve and wrap the evidence of the page.
_prepare_page(p) ==
    /\ Scanning(p, "resolving")
    /\ \E w \in Wrappers : _replace_page(p, PreparedPage(w))
    /\ UNCHANGED workerVars

\* _claim_child: the page commits its child task before the child exists.
_claim_child(p) ==
    /\ Scanning(p, "prepared")
    /\ _replace_page(p, [Current(p) EXCEPT !.status = "claimed"])
    /\ UNCHANGED workerVars

\* _observe_claimed up to the worker: a page claimed in this scan takes a place.
observe_start(p) ==
    LET c == coord[p]
        taken == IF c.recovering THEN c.available ELSE c.available - 1
    IN  /\ Scanning(p, "claimed")
        /\ start(p, child_task_id(Position(p), Current(p).wrapper))
        /\ CoordGoto(p, [c EXCEPT !.pc = "observing", !.available = taken])
        /\ UNCHANGED <<lesson, pages, owners>>

\* Fault: any terminal child is taken for a completed one.
OutcomeOfAny(view, t) ==
    Receipt(TRUE, IF worker[t].output = None THEN {} ELSE worker[t].output)

\* The receipt of a page whose child has stopped; a dialogue is a failure here.
Outcome(view, t) ==
    IF view = "completed" THEN Receipt(TRUE, detail(t)) ELSE Receipt(FALSE, {})

\* _observe_claimed after the worker returned: nothing changes while the child
\* runs; a worker conflict and a batch over the ceiling end the call.  The view of
\* the child is not kept.
_observe_claimed(p) ==
    LET t == call[p].task
        view == call[p].view
        excess == view = "completed" /\ Cardinality(detail(t)) > Ceiling
    IN  /\ coord[p].pc = "observing" /\ call[p].pc = "returned"
        /\ \/ /\ view = "conflict" \/ excess
              /\ CoordGoto(p, Idle)
              /\ UNCHANGED <<lesson, pages, owners>>
           \/ /\ view = "running"
              /\ CoordGoto(p, Observed(coord[p]))
              /\ UNCHANGED <<lesson, pages, owners>>
           \/ /\ view \in Terminal \union {"suspended"} /\ ~excess
              /\ _replace_page(p, [Current(p) EXCEPT !.status = "terminal", !.receipt = Outcome(view, t)])
        /\ Goto(p, Idle)
        /\ UNCHANGED <<worker, child, proofs, claims, crashes>>

-----------------------------------------------------------------------------
\* review_page: only a completed page with a verified batch can be reviewed.
review_page(page) == page.status = "terminal" /\ page.receipt.ok

\* review_completed, its checks: every page has a verified batch that covers
\* it, no card is on two pages, and the one overview is on the first page.
Reviewable(checkpoint) ==
    LET cards(n) == checkpoint[n].receipt.cards
        overviews == {n \in DOMAIN checkpoint : cards(n) \intersect Overviews # {}}
    IN  /\ \A n \in DOMAIN checkpoint : review_page(checkpoint[n]) /\ cards(n) # {}
        /\ \A m, n \in DOMAIN checkpoint : m # n => cards(m) \intersect cards(n) = {}
        /\ overviews \subseteq {1}

\* review_completed: check the whole lesson, then publish its owners.
review_completed(p) ==
    /\ coord[p] = Idle /\ Free(p)
    /\ pages # None /\ pages # <<>>
    /\ Reviewable(pages)
    /\ CoordGoto(p, [pc |-> "publishing", copy |-> pages, left |-> DOMAIN pages])
    /\ UNCHANGED <<lesson, pages, owners>>
    /\ UNCHANGED workerVars

\* LessonGeneratedBatchOwnerReceipt: one child run, bound to the whole lesson.
OwnerReceipt(t, checkpoint) == [task |-> t, lesson |-> checkpoint]

\* GeneratedBatchOwnerRegistry.create: the slot of a child run is written once.
registry_create(n, receipt) ==
    owners' = IF owners[n] = None THEN [owners EXCEPT ![n] = receipt] ELSE owners

\* The publishing loop of review_completed, page by page: a receipt equal to
\* the one in the slot is accepted, any other ends the call.
publish_owner(p) ==
    LET c == coord[p]
        n == Min(c.left)
        receipt == OwnerReceipt(child_task_id(n, c.copy[n].wrapper), c.copy)
    IN  /\ c.pc = "publishing"
        /\ registry_create(n, receipt)
        /\ CoordGoto(p, IF owners'[n] = receipt /\ c.left # {n}
                        THEN [c EXCEPT !.left = @ \ {n}] ELSE Idle)
        /\ UNCHANGED <<lesson, pages>>
        /\ UNCHANGED workerVars

\* The process dies, or a store or the evidence resolver raises in it.
LessonCrash(p) ==
    /\ crashes < MaxCrashes
    /\ coord[p] # Idle
    /\ crashes' = crashes + 1
    /\ CoordGoto(p, Idle)
    /\ Goto(p, Idle)
    /\ UNCHANGED <<lesson, pages, owners, worker, child, proofs, claims>>

LessonStep(p) ==
    \/ resolve_page(p)
    \/ _prepare_page(p)
    \/ _claim_child(p)
    \/ observe_start(p)
    \/ _observe_claimed(p)
    \/ publish_owner(p)
    \/ WorkerStep(p) /\ UNCHANGED lessonVars

Next ==
    \E p \in Procs :
       \/ lesson_start(p)
       \/ advance(p)
       \/ review_completed(p)
       \/ LessonStep(p)
       \/ gateway_failure(p) /\ UNCHANGED lessonVars
       \/ LessonCrash(p)

\* advance_required of the compact view.
advance_required == \E n \in DOMAIN pages : pages[n].status # "terminal"

\* A process in a call keeps running it, and a host that is told advance is
\* required calls it again.
Fairness ==
    \A p \in Procs :
       /\ WF_<<workerVars, lessonVars>>(LessonStep(p))
       /\ WF_<<workerVars, lessonVars>>(advance(p) /\ advance_required)

Spec == Init /\ [][Next]_<<workerVars, lessonVars>> /\ Fairness

-----------------------------------------------------------------------------
TypeOK ==
    /\ WorkersTypeOK
    /\ pages # None => pages \in Checkpoints
    /\ \A p \in Procs : coord[p].pc \in {"idle", "loading", "working", "observing", "publishing"}

\* The plan of every lesson passes the checks it is read back with, only a
\* single paragraph makes a page too large, and no subtree is split and no page
\* added without need.
PlanIsExact == lesson # None => SoundPlan(lesson) /\ TightPlan(lesson)

\* The setting bounds the children of the whole lesson: however many
\* coordinators advance it, and wherever they die, the checkpoint never has more
\* than Concurrency children claimed.
InFlightWithinCap == pages # None => Cardinality(Claimed(pages)) <= Concurrency

\* Pages are taken in the order of the plan: a page is touched only once every
\* page before it has its child.
PlanOrder ==
    pages # None => \A m, n \in DOMAIN pages :
        m < n /\ pages[n].status # "pending" => Rank(pages[m].status) >= Rank("claimed")

\* A child exists only for the task its page has committed to, and a page that
\* reports cards reports what its child produced and the proof slot holds.
ChildrenAreCommitted ==
    /\ \A t \in Tasks : worker[t] # Absent =>
          /\ pages # None /\ t[1] \in DOMAIN pages
          /\ pages[t[1]].wrapper = t[2]
          /\ Rank(pages[t[1]].status) >= Rank("claimed")
    /\ pages # None => \A n \in DOMAIN pages :
          pages[n].status = "terminal" /\ pages[n].receipt.ok =>
             LET t == child_task_id(n, pages[n].wrapper)
             IN  /\ worker[t].status = "completed"
                 /\ pages[n].receipt.cards = worker[t].output
                 /\ _verify(t)

\* A published owner belongs to a lesson that is over: the checkpoint it names
\* is still the stored one, and no card has two owners.
OwnersAreFinal ==
    \A n \in Positions : owners[n] # None =>
        /\ owners[n].lesson = pages
        /\ \A m \in DOMAIN pages \ {n} : pages[m].receipt.cards \intersect pages[n].receipt.cards = {}

\* A page never moves back, and never changes its wrapper or its receipt.
PagesMoveForward ==
    [][pages # None => \A n \in DOMAIN pages : pages'[n] # pages[n] =>
          /\ Rank(pages'[n].status) > Rank(pages[n].status)
          /\ pages[n].wrapper \in {None, pages'[n].wrapper}]_pages

\* However many coordinators advance the lesson and wherever they die, its
\* checkpoint and its children fit together.
LessonIsCoherent ==
    /\ [](TypeOK /\ InFlightWithinCap /\ PlanOrder /\ ChildrenAreCommitted /\ OwnersAreFinal)
    /\ PagesMoveForward

\* A page that can get no receipt: its child has lost its driver, or produced
\* more cards than the request allows.
Wedged(n) ==
    LET t == child_task_id(n, pages[n].wrapper)
    IN  /\ pages[n].status = "claimed"
        /\ \/ /\ child[t].status = "running" /\ worker[t].status = "pending"
              /\ \A p \in Procs : call[p].pc = "driving" => call[p].task # t
           \/ worker[t].status = "completed" /\ Cardinality(worker[t].output) > Ceiling

Settled ==
    /\ pages # None
    /\ \/ \A n \in DOMAIN pages : pages[n].status = "terminal"
       \/ \E n \in DOMAIN pages : Wedged(n)

\* A lesson that has started ends, as long as its hosts keep advancing it: every
\* page gets its receipt, unless a page is wedged, which takes a crash while a
\* child is driven or a batch over the ceiling.
LessonSettles == (pages # None) ~> Settled
=============================================================================
