--------------------------- MODULE StudyArtifacts ---------------------------
(***************************************************************************)
(* Study artifacts of one course: revisions proposed by verified runs or   *)
(* by the learner, decided by the learner or by a policy, kept as lineages *)
(* under "study_artifacts" in the projection.  Pure operators only: what a *)
(* command of ArtifactService makes of a snapshot (the set of events it    *)
(* may append; empty when it raises) and what the decoders and reducers of *)
(* the event store make of the event.                                      *)
(*                                                                         *)
(* Digests are the tuples they digest; timestamps, prompts and provenance  *)
(* text are left out, except the prior revision and the cited chunks.      *)
(***************************************************************************)
EXTENDS Naturals, SequencesExt

CONSTANTS Sessions,
          Interactions,   \* interactions recorded in the sessions
          InteractionOf,  \* InteractionOf[i]: [session, kind] of interaction i
          Chunks,         \* source chunks the course knows
          Runs,           \* completed generation runs with a published owner
          CandidatesOf,   \* CandidatesOf[r]: verified output of run r
          OwnerSession,   \* OwnerSession[r]: session whose authority started it
          None            \* Python's None

\* ArtifactRevisionRecord as projected.
RevisionRecord(artifact, batch, ordinal, content, prior, parent) ==
    [artifact_id |-> artifact, batch_id |-> batch, ordinal |-> ordinal,
     content |-> content, prior |-> prior, parent |-> parent, status |-> "proposed"]

ArtifactBatchRecord(session, origin, revisions) ==
    [session |-> session, origin |-> origin, revision_ids |-> revisions]

ArtifactDecisionRecord(revision, decision, supersedes) ==
    [revision |-> revision, decision |-> decision, supersedes |-> supersedes]

\* A dictionary with one more entry, and one with the entries of another.
With(f, key, value) == [k \in DOMAIN f \union {key} |-> IF k = key THEN value ELSE f[k]]
Overlaid(f, g) == [k \in DOMAIN f \union DOMAIN g |-> IF k \in DOMAIN g THEN g[k] ELSE f[k]]

\* Where a proposal comes from: a verified run or a human interaction.
Provenance(kind, from) == [kind |-> kind, from |-> from]

NoArtifacts == [artifacts |-> <<>>, revisions |-> <<>>, batches |-> <<>>,
                decisions |-> <<>>, commands |-> <<>>]

\* Identities: digests of exactly these commitments.
artifact_event_id_for(ctx, kind) == <<ctx.session, ctx.key, kind>>
artifact_batch_id_for(session, origin, key) == <<session, origin, key>>
artifact_id_for(batch, ordinal) == <<batch, ordinal>>
artifact_revision_id_for(artifact, content, prior) == <<artifact, content.label, prior>>

-----------------------------------------------------------------------------
(* ArtifactSnapshot.                                                       *)

history(A, artifact) == {r \in DOMAIN A.revisions : A.revisions[r].artifact_id = artifact}

\* current_head: the revisions of a lineage that no other names as its prior.
current_head(A, artifact) ==
    {r \in history(A, artifact) :
        \A q \in history(A, artifact) : A.revisions[q].prior # r}

_current_accepted(A, artifact) ==
    {r \in history(A, artifact) : A.revisions[r].status = "accepted"}

\* The accepted revision of an artifact, or None.
AcceptedOrNone(A, artifact) ==
    IF _current_accepted(A, artifact) = {} THEN None
    ELSE CHOOSE r \in _current_accepted(A, artifact) : TRUE

-----------------------------------------------------------------------------
(* VerifiedGeneratedBatchAdapter.                                          *)

\* _lesson_proposals: one proposal per candidate, the parent candidate's key
\* replaced by its ordinal.  Media evidence has no persisted receipt.
_lesson_proposals(candidates) ==
    IF candidates = <<>> \/ \E i \in DOMAIN candidates : candidates[i].media THEN {}
    ELSE {[i \in DOMAIN candidates |->
             [content |-> [candidates[i].content EXCEPT !.parent =
                              IF candidates[i].parent_key = None THEN None
                              ELSE (CHOOSE j \in DOMAIN candidates :
                                       candidates[j].key = candidates[i].parent_key) - 1],
              cites |-> candidates[i].cites, target |-> None, prior |-> None]]}

\* Owner, coordinator checkpoint, task, receipt and proof agree only for the
\* authority (session) that started the run.
_verify_owner(run, ctx) == OwnerSession[run] = ctx.session

recover(run, ctx) ==
    IF _verify_owner(run, ctx) THEN _lesson_proposals(CandidatesOf[run]) ELSE {}

-----------------------------------------------------------------------------
(* ArtifactService: preparing a proposal batch.                            *)

\* The artifact that proposal i of a batch belongs to.
ProposedArtifact(batch, proposals, i) ==
    IF proposals[i].target # None THEN proposals[i].target ELSE artifact_id_for(batch, i - 1)

\* resolved.get(ordinal) once the proposals before i are prepared.
ResolvedParent(batch, proposals, i, ordinal) ==
    IF ordinal # None /\ ordinal + 1 < i THEN ProposedArtifact(batch, proposals, ordinal + 1)
    ELSE None

\* The durable parent of proposal i: that of its lineage, or the sibling a
\* new card names by ordinal.
PreparedParent(A, batch, proposals, i) ==
    IF proposals[i].target # None
    THEN LET head == CHOOSE r \in current_head(A, proposals[i].target) : TRUE
         IN A.revisions[head].parent
    ELSE ResolvedParent(batch, proposals, i, proposals[i].content.parent)

\* The checks of one turn of _prepare's loop.
Preparable(A, batch, proposals, i) ==
    LET item   == proposals[i]
        parent == item.content.parent
    IN /\ \A j \in 1 .. i - 1 :
              ProposedArtifact(batch, proposals, j) # ProposedArtifact(batch, proposals, i)
       /\ IF item.target = None
          THEN /\ item.prior = None
               /\ parent # None => ResolvedParent(batch, proposals, i, parent) # None
          ELSE \E head \in current_head(A, item.target) :
                  /\ current_head(A, item.target) = {head}
                  /\ A.revisions[head].content.kind = item.content.kind
                  /\ item.prior = head
                  /\ parent # None =>
                        ResolvedParent(batch, proposals, i, parent) = A.revisions[head].parent

\* _prepare: the recorded proposals of a batch.
_prepare(A, batch, proposals) ==
    IF Len(proposals) \notin 1 .. 24 \/ \E i \in DOMAIN proposals :
                                            ~Preparable(A, batch, proposals, i) THEN {}
    ELSE {[i \in DOMAIN proposals |->
             LET item     == proposals[i]
                 artifact == ProposedArtifact(batch, proposals, i)
             IN [artifact_id |-> artifact,
                 revision_id |-> artifact_revision_id_for(artifact, item.content, item.prior),
                 content |-> item.content, cites |-> item.cites, prior |-> item.prior,
                 parent  |-> PreparedParent(A, batch, proposals, i)]]}

\* proposal_batch_payload in its envelope.
ProposalEvent(cmd, batch, origin, proposals, actor, fingerprint) ==
    [op |-> "proposal", id |-> artifact_event_id_for(cmd.ctx, "proposal"), ctx |-> cmd.ctx,
     actor |-> actor, batch |-> batch, origin |-> origin, proposals |-> proposals,
     fingerprint |-> fingerprint]

record_generated(A, cmd) ==
    LET batch == artifact_batch_id_for(cmd.ctx.session, cmd.run, cmd.ctx.key)
    IN {ProposalEvent(cmd, batch, Provenance("generated", cmd.run), prepared,
                      "service", cmd.fingerprint) :
          prepared \in UNION {_prepare(A, batch, ps) : ps \in recover(cmd.run, cmd.ctx)}}

\* The interaction must be a human one of this session and the commitments
\* canonical; both are checked after the sequence and before the append.
record_human_revision(A, cmd) ==
    LET batch == artifact_batch_id_for(cmd.ctx.session, cmd.interaction, cmd.ctx.key)
    IN {ProposalEvent(cmd, batch, Provenance("human_authored", cmd.interaction),
                      prepared, "human", cmd.fingerprint) :
          prepared \in {ps \in _prepare(A, batch, <<cmd.proposal>>) :
                          /\ InteractionOf[cmd.interaction] =
                                [session |-> cmd.ctx.session, kind |-> "human"]
                          /\ cmd.proposal.cites \subseteq Chunks}}

-----------------------------------------------------------------------------
(* ArtifactService: decisions.                                             *)

\* _proposed and _require_decision_session.
Decidable(A, revision, session) ==
    /\ revision \in DOMAIN A.revisions
    /\ A.revisions[revision].status = "proposed"
    /\ A.batches[A.revisions[revision].batch_id].session = session

DecisionEvent(cmd, decision, supersedes, receipt) ==
    [op |-> "decision", id |-> artifact_event_id_for(cmd.ctx, "decision"), ctx |-> cmd.ctx,
     actor |-> IF receipt = None THEN "human" ELSE "service",
     revision |-> cmd.revision, decision |-> decision, supersedes |-> supersedes,
     receipt |-> receipt, fingerprint |-> cmd.fingerprint]

\* _record_decision: reject never supersedes, accept names the exact accepted
\* revision of the same artifact.
_record_decision(A, cmd, decision, supersedes, receipt) ==
    {e \in {DecisionEvent(cmd, decision, supersedes, receipt)} :
        /\ Decidable(A, cmd.revision, cmd.ctx.session)
        /\ supersedes = IF decision = "reject" THEN None
                        ELSE AcceptedOrNone(A, A.revisions[cmd.revision].artifact_id)}

record_human_decision(A, cmd) ==
    _record_decision(A, cmd, cmd.decision, cmd.supersedes, None)

\* The policy is asked with the accepted revision seen in this snapshot; its
\* receipt binds decision and predecessor (_validate_policy_result).
PolicyReceipts(A, cmd) ==
    IF ~Decidable(A, cmd.revision, cmd.ctx.session) THEN {}
    ELSE LET current == AcceptedOrNone(A, A.revisions[cmd.revision].artifact_id)
         IN {[request |-> artifact_event_id_for(cmd.ctx, "decision"), current |-> current,
              decision |-> d, supersedes |-> IF d = "accept" THEN current ELSE None] :
               d \in {"accept", "reject"}}

\* The receipt was obtained from an earlier snapshot than A.
apply_service_decision(A, cmd, receipt) ==
    _record_decision(A, cmd, receipt.decision, receipt.supersedes, receipt)

-----------------------------------------------------------------------------
(* Decoders and reducers.                                                  *)

decode_proposal_batch_recorded(e) ==
    /\ e.id = artifact_event_id_for(e.ctx, "proposal")
    /\ e.actor = IF e.origin.kind = "generated" THEN "service" ELSE "human"
    /\ Len(e.proposals) \in 1 .. (IF e.origin.kind = "generated" THEN 24 ELSE 1)
    /\ \A i, j \in DOMAIN e.proposals :
          e.proposals[i].artifact_id = e.proposals[j].artifact_id => i = j
    /\ e.batch = artifact_batch_id_for(e.ctx.session, e.origin.from, e.ctx.key)
    /\ \A i \in DOMAIN e.proposals :
          LET p == e.proposals[i] IN
          /\ p.prior = None => p.artifact_id = artifact_id_for(e.batch, i - 1)
          /\ p.revision_id = artifact_revision_id_for(p.artifact_id, p.content, p.prior)

\* _validate_commitments, _validate_human_origin.
CanonicalOrigin(e) ==
    /\ \A i \in DOMAIN e.proposals : e.proposals[i].cites \subseteq Chunks
    /\ e.origin.kind = "human_authored" =>
          InteractionOf[e.origin.from] = [session |-> e.ctx.session, kind |-> "human"]

\* One turn of the reducer's loop: a new artifact, or the next revision of a
\* lineage.  A revision that names a parent ordinal must name the durable
\* parent, and str(None) never equals None: it is refused when there is none.
ReducibleProposal(A, e, i) ==
    LET p == e.proposals[i]
        sibling == IF p.content.parent # None /\ p.content.parent + 1 < i
                   THEN e.proposals[p.content.parent + 1].artifact_id ELSE None
    IN /\ p.revision_id \notin DOMAIN A.revisions
       /\ IF p.artifact_id \notin DOMAIN A.artifacts
          THEN /\ p.prior = None
               /\ p.content.parent # None => sibling # None
               /\ p.parent = sibling
          ELSE LET known == A.artifacts[p.artifact_id]
               IN /\ known.kind = p.content.kind
                  /\ p.prior = known.current
                  /\ p.parent = known.parent
                  /\ p.content.parent # None => sibling = known.parent /\ known.parent # None

CanReduceProposals(A, e) ==
    /\ decode_proposal_batch_recorded(e)
    /\ e.id \notin DOMAIN A.commands
    /\ e.batch \notin DOMAIN A.batches
    /\ CanonicalOrigin(e)
    /\ \A i \in DOMAIN e.proposals : ReducibleProposal(A, e, i)

\* The artifact entry after one more revision.
MovedHead(A, p) ==
    [kind    |-> p.content.kind, parent |-> p.parent,
     revision_ids |-> (IF p.artifact_id \in DOMAIN A.artifacts
                       THEN A.artifacts[p.artifact_id].revision_ids ELSE <<>>)
                      \o <<p.revision_id>>,
     current |-> p.revision_id]

reduce_proposal_batch_recorded(A, e) ==
    LET one(i) == e.proposals[i]
        ids == {one(i).artifact_id : i \in DOMAIN e.proposals}
        at(id) == CHOOSE i \in DOMAIN e.proposals : one(i).artifact_id = id
        revs == {one(i).revision_id : i \in DOMAIN e.proposals}
        by(rev) == CHOOSE i \in DOMAIN e.proposals : one(i).revision_id = rev
    IN [A EXCEPT
          !.artifacts = Overlaid(@, [id \in ids |-> MovedHead(A, one(at(id)))]),
          !.revisions = Overlaid(@, [rev \in revs |->
                            LET p == one(by(rev))
                            IN RevisionRecord(p.artifact_id, e.batch, by(rev) - 1, p.content,
                                              p.prior, p.parent)]),
          !.batches  = With(@, e.batch, ArtifactBatchRecord(e.ctx.session, e.origin,
                           [i \in DOMAIN e.proposals |-> one(i).revision_id])),
          !.commands = With(@, e.id, e.fingerprint)]

\* decode_decision_recorded: authority and receipt bind the outcome.
decode_decision_recorded(e) ==
    /\ e.id = artifact_event_id_for(e.ctx, "decision")
    /\ (e.actor = "human") = (e.receipt = None)
    /\ e.receipt # None => /\ e.receipt.request = e.id
                           /\ e.receipt.decision = e.decision
                           /\ e.receipt.supersedes = e.supersedes
    /\ e.decision = "reject" => e.supersedes = None

\* The reducer re-derives the policy request from canonical state.
CanReduceDecision(A, e) ==
    /\ decode_decision_recorded(e)
    /\ e.id \notin DOMAIN A.commands
    /\ Decidable(A, e.revision, e.ctx.session)
    /\ LET current == AcceptedOrNone(A, A.revisions[e.revision].artifact_id)
       IN /\ e.receipt # None => e.receipt.current = current
          /\ e.decision = "accept" => e.supersedes = current

\* Fault: the predecessor stays accepted.
PredecessorKept(A, e) ==
    [A EXCEPT !.revisions[e.revision].status =
                  IF e.decision = "accept" THEN "accepted" ELSE "rejected",
              !.decisions = Append(@, ArtifactDecisionRecord(e.revision, e.decision, e.supersedes)),
              !.commands = With(@, e.id, e.fingerprint)]

reduce_decision_recorded(A, e) ==
    [A EXCEPT !.revisions =
                  [r \in DOMAIN @ |->
                     IF r = e.revision
                     THEN [@[r] EXCEPT !.status =
                              IF e.decision = "accept" THEN "accepted" ELSE "rejected"]
                     ELSE IF r = e.supersedes THEN [@[r] EXCEPT !.status = "superseded"]
                     ELSE @[r]],
              !.decisions = Append(@, ArtifactDecisionRecord(e.revision, e.decision, e.supersedes)),
              !.commands = With(@, e.id, e.fingerprint)]
-----------------------------------------------------------------------------
(* _validate_existing before every reduction, and the record constructors  *)
(* of ProjectionArtifactView.get: what a readable projection looks like.   *)

ReadableRevision(A, r) ==
    LET rev == A.revisions[r] IN
    /\ rev.status \in {"proposed", "accepted", "rejected", "superseded"}
    /\ rev.artifact_id \in DOMAIN A.artifacts /\ rev.batch_id \in DOMAIN A.batches
    /\ rev.prior = None \/ rev.prior \in DOMAIN A.revisions

ReadableBatch(batch) ==
    /\ Len(batch.revision_ids) \in 1 .. 24 /\ IsInjective(batch.revision_ids)
    /\ batch.origin.from \in IF batch.origin.kind = "generated" THEN Runs ELSE Interactions

ReadableDecision(A, decision) ==
    /\ decision.revision \in DOMAIN A.revisions
    /\ decision.decision = "reject" => decision.supersedes = None

ReadableArtifacts(A) ==
    /\ \A r \in DOMAIN A.revisions : ReadableRevision(A, r)
    /\ \A b \in DOMAIN A.batches : ReadableBatch(A.batches[b])
    /\ \A i \in DOMAIN A.decisions : ReadableDecision(A, A.decisions[i])

-----------------------------------------------------------------------------
(* What holds of every projection the reducers make: stronger than what    *)
(* they validate, and kept by each of them.                                *)

IsList(s) == s \in Seq(ToSet(s))

\* The parts of a content that later computations rely on.
ContentSound(content) == IsFiniteSet(content.expected) /\ content.criteria \in Nat

\* A revision is stored under the digest of its lineage, content and prior.
RevisionSound(A, r) ==
    LET rev == A.revisions[r] IN
    /\ rev = [artifact_id |-> rev.artifact_id, batch_id |-> rev.batch_id,
              ordinal |-> rev.ordinal, content |-> rev.content, prior |-> rev.prior,
              parent |-> rev.parent, status |-> rev.status]
    /\ ReadableRevision(A, r)
    /\ r = artifact_revision_id_for(rev.artifact_id, rev.content, rev.prior)
    /\ ContentSound(rev.content)

\* The recorded history of an artifact is one chain of prior links, all of the
\* artifact's kind and parent.
LineageSound(A, a) ==
    LET known == A.artifacts[a]
        ids   == known.revision_ids
    IN /\ IsList(ids) /\ ids # <<>> /\ known.current = ids[Len(ids)]
       /\ ToSet(ids) = history(A, a) /\ IsInjective(ids)
       /\ A.revisions[ids[1]].prior = None
       /\ \A i \in 2 .. Len(ids) : A.revisions[ids[i]].prior = ids[i - 1]
       /\ \A r \in history(A, a) : /\ A.revisions[r].content.kind = known.kind
                                   /\ A.revisions[r].parent = known.parent
       /\ a = <<a[1], a[2]>> /\ a[1] \in DOMAIN A.batches

BatchSound(A, b) ==
    /\ ReadableBatch(A.batches[b])
    /\ b = <<b[1], b[2], b[3]>> /\ <<b[1], b[3], "proposal">> \in DOMAIN A.commands

\* The superseded revisions are those some accept decision named, each named
\* by one, and a lineage has at most one accepted revision.
DecisionsSound(A) ==
    /\ IsList(A.decisions)
    /\ \A i \in DOMAIN A.decisions :
          LET named == A.decisions[i].supersedes IN
          /\ ReadableDecision(A, A.decisions[i])
          /\ named # None =>
                /\ named \in DOMAIN A.revisions /\ A.revisions[named].status = "superseded"
                /\ \A j \in DOMAIN A.decisions : A.decisions[j].supersedes = named => i = j
    /\ \A r \in DOMAIN A.revisions : A.revisions[r].status = "superseded" =>
          \E i \in DOMAIN A.decisions : A.decisions[i].supersedes = r
    /\ \A r, s \in DOMAIN A.revisions :
          /\ A.revisions[r].status = "accepted" /\ A.revisions[s].status = "accepted"
          /\ A.revisions[r].artifact_id = A.revisions[s].artifact_id
          => r = s

ArtifactsSound(A) ==
    /\ A = [artifacts |-> A.artifacts, revisions |-> A.revisions, batches |-> A.batches,
            decisions |-> A.decisions, commands |-> A.commands]
    /\ \A r \in DOMAIN A.revisions : RevisionSound(A, r)
    /\ \A a \in DOMAIN A.artifacts : LineageSound(A, a)
    /\ \A b \in DOMAIN A.batches : BatchSound(A, b)
    /\ DecisionsSound(A)
=============================================================================
