------------------------- MODULE StudyRecordsProofs -------------------------
(***************************************************************************)
(* Machine-checked proofs about StudyRecords for any number of clients,    *)
(* sessions, runs and commands: the projections keep the rules no single   *)
(* reducer checks, callers are told the truth, and what the services build *)
(* is what the reducers accept.                                            *)
(***************************************************************************)
EXTENDS StudyRecords, SequenceTheorems, FiniteSetTheorems, TLAPS

\* Python's None is none of the digests, which are tuples here.
NoneIsNoDigest ==
    /\ \A x, y, z : None # <<x, y, z>>
    /\ \A w, x, y, z : None # <<w, x, y, z>>

-----------------------------------------------------------------------------
(* Lists and dictionaries.                                                 *)

\* A list has a length and its positions.
LEMMA ListFacts ==
  ASSUME NEW s, IsList(s)
  PROVE  Len(s) \in Nat /\ DOMAIN s = 1 .. Len(s)
  BY DEF IsList

\* A function on the first positions is a list.
LEMMA ListOf ==
  ASSUME NEW s, NEW n \in Nat, s = [i \in 1 .. n |-> s[i]]
  PROVE  IsList(s) /\ Len(s) = n
  <1>1. s \in [1 .. n -> ToSet(s)]
    BY DEF ToSet
  <1> QED
    BY <1>1 DEF IsList

\* A sequence is a list.
LEMMA SeqIsList ==
  ASSUME NEW S, NEW s \in Seq(S)
  PROVE  IsList(s)
  <1>1. s \in [1 .. Len(s) -> S] /\ Len(s) \in Nat
    BY LenProperties
  <1>2. s = [i \in 1 .. Len(s) |-> s[i]]
    BY <1>1
  <1> QED
    BY <1>1, <1>2, ListOf

\* What an append makes of a list.
LEMMA ListAppend ==
  ASSUME NEW s, IsList(s), NEW e
  PROVE  /\ IsList(Append(s, e))
         /\ Len(Append(s, e)) = Len(s) + 1
         /\ DOMAIN Append(s, e) = DOMAIN s \union {Len(s) + 1}
         /\ \A i \in DOMAIN s : i # Len(s) + 1 /\ Append(s, e)[i] = s[i]
         /\ Append(s, e)[Len(s) + 1] = e
         /\ ToSet(Append(s, e)) = ToSet(s) \union {e}
         /\ s \o <<e>> = Append(s, e)
  <1> DEFINE S == ToSet(s) \union {e}
             t == Append(s, e)
  <1>1. s \in Seq(ToSet(s)) /\ s \in Seq(S) /\ e \in S
    <2>1. s \in Seq(ToSet(s))
      BY DEF IsList
    <2> QED
      BY <2>1
  <1> HIDE DEF S
  <1>2. /\ t \in Seq(S) /\ Len(t) = Len(s) + 1 /\ Len(s) \in Nat
        /\ \A i \in 1 .. Len(s) : t[i] = s[i]
        /\ t[Len(s) + 1] = e
    BY <1>1
  <1>3. DOMAIN t = 1 .. Len(s) + 1 /\ DOMAIN s = 1 .. Len(s)
    BY <1>1, <1>2
  <1>4. ToSet(t) = ToSet(s) \union {e}
    BY <1>2, <1>3 DEF ToSet
  <1>5. IsList(t)
    BY <1>2, SeqIsList
  <1>6. s \o <<e>> = t
    <2>1. <<e>> \in Seq(S) /\ Len(<<e>>) = 1 /\ <<e>>[1] = e
      BY <1>1
    <2>2. s \o <<e>> \in Seq(S) /\ Len(s \o <<e>>) = Len(s) + 1
      BY <1>1, <2>1
    <2>3. \A i \in 1 .. Len(s) + 1 : (s \o <<e>>)[i] = t[i]
      BY <1>1, <1>2, <2>1
    <2> QED
      BY <1>2, <2>2, <2>3, SeqEqual
  <1> QED
    BY <1>2, <1>3, <1>4, <1>5, <1>6

\* ids lists records, each the prior of the next.
IsChain(ids, records) ==
    /\ IsList(ids) /\ ids # <<>> /\ IsInjective(ids)
    /\ records[ids[1]].prior = None
    /\ \A i \in 2 .. Len(ids) : records[ids[i]].prior = ids[i - 1]

\* A chain goes on with the item whose prior is its last.
LEMMA ChainExtended ==
  ASSUME NEW S, NEW old, IsChain(old, S),
         NEW new, new \notin ToSet(old), S[new].prior = old[Len(old)]
  PROVE  /\ IsChain(Append(old, new), S)
         /\ Append(old, new)[Len(Append(old, new))] = new
         /\ ToSet(Append(old, new)) = ToSet(old) \union {new}
  <1> DEFINE n == Len(old)
             ids == Append(old, new)
  <1>0. /\ IsList(old) /\ old # <<>> /\ IsInjective(old) /\ S[old[1]].prior = None
        /\ \A i \in 2 .. Len(old) : S[old[i]].prior = old[i - 1]
    BY DEF IsChain
  <1>1. old \in Seq(ToSet(old)) /\ n \in Nat /\ DOMAIN old = 1 .. n
    BY <1>0, ListFacts DEF IsList
  <1>2. n >= 1
    BY <1>0, <1>1, EmptySeq
  <1>3. \A i \in 1 .. n : old[i] \in ToSet(old)
    BY <1>1 DEF ToSet
  <1>4. /\ IsList(ids) /\ Len(ids) = n + 1 /\ DOMAIN ids = 1 .. n + 1
        /\ \A i \in 1 .. n : ids[i] = old[i]
        /\ ids[n + 1] = new /\ ToSet(ids) = ToSet(old) \union {new}
    BY <1>0, <1>1, ListAppend, ListFacts
  <1>5. \A i, j \in 1 .. n : old[i] = old[j] => i = j
    BY <1>0, <1>1 DEF IsInjective
  <1> HIDE DEF n, ids
  <1>6. IsInjective(ids)
    <2>1. \A i, j \in 1 .. n + 1 : ids[i] = ids[j] => i = j
      BY <1>1, <1>3, <1>4, <1>5
    <2> QED
      BY <1>4, <2>1 DEF IsInjective
  <1>7. S[ids[1]].prior = None
    BY <1>0, <1>1, <1>2, <1>3, <1>4
  <1>8. ASSUME NEW i \in 2 .. n + 1 PROVE S[ids[i]].prior = ids[i - 1]
    <2>1. CASE i = n + 1
      BY <1>1, <1>2, <1>4, <2>1 DEF n
    <2>2. CASE i \in 2 .. n
      <3>1. i - 1 \in 1 .. n /\ i \in 1 .. n
        BY <1>1, <2>2
      <3>2. S[old[i]].prior = old[i - 1]
        BY <1>0, <2>2 DEF n
      <3> QED
        BY <1>3, <1>4, <3>1, <3>2
    <2> QED
      BY <1>1, <2>1, <2>2
  <1>9. ids # <<>> /\ ids[Len(ids)] = new
    <2>1. <<>> \in Seq(ToSet(old)) /\ Len(<<>>) = 0
      BY EmptySeq
    <2> QED
      BY <1>1, <1>2, <1>4, <2>1
  <1> QED
    BY <1>4, <1>6, <1>7, <1>8, <1>9 DEF ids, IsChain

\* What With adds to a function, and what it leaves.
LEMMA WithFacts ==
  ASSUME NEW f, NEW key, NEW value
  PROVE  /\ DOMAIN With(f, key, value) = DOMAIN f \union {key}
         /\ With(f, key, value)[key] = value
         /\ \A k \in DOMAIN f : k # key => With(f, key, value)[k] = f[k]
  BY DEF With
-----------------------------------------------------------------------------
(* Artifacts.  What a batch of proposals does to the projection.           *)

\* What the reducer of a batch does not check itself.
DraftedProposals(e) ==
    /\ Len(e.proposals) \in Nat
    /\ e.proposals = [i \in 1 .. Len(e.proposals) |-> e.proposals[i]]
    /\ \A i \in DOMAIN e.proposals : ContentSound(e.proposals[i].content)
    /\ e.origin.from \in IF e.origin.kind = "generated" THEN Runs ELSE Interactions

\* B is A with the revisions, the heads and the batch of e.
RevisionsAdded(A, B, e) ==
    /\ DOMAIN B.revisions =
          DOMAIN A.revisions \union {e.proposals[i].revision_id : i \in 1 .. Len(e.proposals)}
    /\ \A r \in DOMAIN A.revisions : B.revisions[r] = A.revisions[r]
    /\ \A i \in 1 .. Len(e.proposals) :
          LET p == e.proposals[i] IN
          /\ p.revision_id = <<p.artifact_id, p.content.label, p.prior>>
          /\ p.revision_id \notin DOMAIN A.revisions
          /\ B.revisions[p.revision_id] =
                RevisionRecord(p.artifact_id, e.batch, i - 1, p.content, p.prior, p.parent)

HeadsMoved(A, B, e) ==
    /\ \A i, j \in 1 .. Len(e.proposals) :
          e.proposals[i].artifact_id = e.proposals[j].artifact_id => i = j
    /\ DOMAIN B.artifacts =
          DOMAIN A.artifacts \union {e.proposals[i].artifact_id : i \in 1 .. Len(e.proposals)}
    /\ \A i \in 1 .. Len(e.proposals) :
          B.artifacts[e.proposals[i].artifact_id] = MovedHead(A, e.proposals[i])
    /\ \A a \in DOMAIN A.artifacts :
          (\A i \in 1 .. Len(e.proposals) : a # e.proposals[i].artifact_id)
          => B.artifacts[a] = A.artifacts[a]

BatchIds(e) == [i \in 1 .. Len(e.proposals) |-> e.proposals[i].revision_id]

BatchAdded(A, B, e) ==
    /\ DOMAIN B.batches = DOMAIN A.batches \union {e.batch}
    /\ B.batches[e.batch] = ArtifactBatchRecord(e.ctx.session, e.origin, BatchIds(e))
    /\ \A b \in DOMAIN A.batches : b # e.batch => B.batches[b] = A.batches[b]
    /\ DOMAIN B.commands = DOMAIN A.commands \union {e.id} /\ B.commands[e.id] = e.fingerprint
    /\ B.decisions = A.decisions

Revised(A, B, e) ==
    /\ RevisionsAdded(A, B, e) /\ HeadsMoved(A, B, e) /\ BatchAdded(A, B, e)
    /\ B = [artifacts |-> B.artifacts, revisions |-> B.revisions, batches |-> B.batches,
            decisions |-> B.decisions, commands |-> B.commands]

\* Reducing a batch of proposals adds its revisions, moves the heads and
\* records the batch.
LEMMA ProposalsRevise ==
  ASSUME NEW A, ArtifactsSound(A), NEW e, CanReduceProposals(A, e), DraftedProposals(e)
  PROVE  Revised(A, reduce_proposal_batch_recorded(A, e), e)
  <1> DEFINE I == DOMAIN e.proposals
             p(i) == e.proposals[i]
             ids == {p(i).artifact_id : i \in I}
             at(id) == CHOOSE i \in I : p(i).artifact_id = id
             revs == {p(i).revision_id : i \in I}
             by(rev) == CHOOSE i \in I : p(i).revision_id = rev
             record(i) == RevisionRecord(p(i).artifact_id, e.batch, i - 1, p(i).content,
                                         p(i).prior, p(i).parent)
             heads == [id \in ids |-> MovedHead(A, p(at(id)))]
             records == [rev \in revs |-> record(by(rev))]
             B == reduce_proposal_batch_recorded(A, e)
  <1>1. I = 1 .. Len(e.proposals)
    BY DEF DraftedProposals
  <1>2. \A i, j \in I : p(i).artifact_id = p(j).artifact_id => i = j
    BY <1>1 DEF CanReduceProposals, decode_proposal_batch_recorded
  <1>3. \A i \in I : p(i).revision_id = <<p(i).artifact_id, p(i).content.label, p(i).prior>>
    BY <1>1 DEF CanReduceProposals, decode_proposal_batch_recorded, artifact_revision_id_for
  <1>4. \A i \in I : p(i).revision_id \notin DOMAIN A.revisions
    BY <1>1 DEF CanReduceProposals, ReducibleProposal
  <1>5. \A i \in I : at(p(i).artifact_id) = i
    BY <1>2
  <1>6. \A i \in I : by(p(i).revision_id) = i
    <2>1. \A i, j \in I : p(i).revision_id = p(j).revision_id => i = j
      BY <1>2, <1>3
    <2> QED
      BY <2>1
  <1>7. B = [A EXCEPT !.artifacts = Overlaid(@, heads), !.revisions = Overlaid(@, records),
                      !.batches = With(@, e.batch, ArtifactBatchRecord(e.ctx.session, e.origin,
                                                       [i \in I |-> p(i).revision_id])),
                      !.commands = With(@, e.id, e.fingerprint)]
    BY Zenon DEF reduce_proposal_batch_recorded
  <1>a. BatchIds(e) = [i \in I |-> p(i).revision_id]
    BY <1>1 DEF BatchIds
  <1> HIDE DEF B, heads, records
  <1>8. /\ B.artifacts = Overlaid(A.artifacts, heads)
        /\ B.revisions = Overlaid(A.revisions, records)
        /\ B.batches = With(A.batches, e.batch, ArtifactBatchRecord(e.ctx.session, e.origin,
                                                                     BatchIds(e)))
        /\ B.decisions = A.decisions
        /\ B.commands = With(A.commands, e.id, e.fingerprint)
        /\ B = [artifacts |-> B.artifacts, revisions |-> B.revisions, batches |-> B.batches,
                decisions |-> B.decisions, commands |-> B.commands]
    <2>1. A = [artifacts |-> A.artifacts, revisions |-> A.revisions, batches |-> A.batches,
               decisions |-> A.decisions, commands |-> A.commands]
      BY DEF ArtifactsSound
    <2> QED
      BY <1>7, <1>a, <2>1
  <1>9. HeadsMoved(A, B, e)
    <2>1. DOMAIN heads = ids /\ \A i \in I : heads[p(i).artifact_id] = MovedHead(A, p(i))
      BY <1>5, Zenon DEF heads
    <2>2. DOMAIN B.artifacts = DOMAIN A.artifacts \union ids
          /\ \A a \in DOMAIN B.artifacts :
                B.artifacts[a] = IF a \in ids THEN heads[a] ELSE A.artifacts[a]
      BY <1>8, <2>1 DEF Overlaid
    <2> QED
      BY <1>1, <1>2, <2>1, <2>2 DEF HeadsMoved
  <1>10. RevisionsAdded(A, B, e)
    <2>1. DOMAIN records = revs /\ \A i \in I : records[p(i).revision_id] = record(i)
      BY <1>6, Zenon DEF records
    <2>2. DOMAIN B.revisions = DOMAIN A.revisions \union revs
          /\ \A r \in DOMAIN B.revisions :
                B.revisions[r] = IF r \in revs THEN records[r] ELSE A.revisions[r]
      BY <1>8, <2>1 DEF Overlaid
    <2>3. \A r \in DOMAIN A.revisions : r \notin revs
      BY <1>4
    <2> QED
      BY <1>1, <1>3, <1>4, <2>1, <2>2, <2>3 DEF RevisionsAdded
  <1>11. BatchAdded(A, B, e)
    BY <1>8 DEF BatchAdded, With
  <1>12. Revised(A, B, e)
    BY <1>8, <1>9, <1>10, <1>11 DEF Revised
  <1> QED
    BY <1>12 DEF B

\* The revision a proposal of the batch becomes.
LEMMA AddedRevision ==
  ASSUME NEW A, NEW B, NEW e, RevisionsAdded(A, B, e), NEW i \in 1 .. Len(e.proposals)
  PROVE  LET p == e.proposals[i]
             new == B.revisions[p.revision_id]
         IN /\ p.revision_id \in DOMAIN B.revisions /\ p.revision_id \notin DOMAIN A.revisions
            /\ new.artifact_id = p.artifact_id /\ new.prior = p.prior
            /\ new.content = p.content /\ new.parent = p.parent /\ new.status = "proposed"
  <1> DEFINE p == e.proposals[i]
  <1>1. /\ p.revision_id \in DOMAIN B.revisions /\ p.revision_id \notin DOMAIN A.revisions
        /\ B.revisions[p.revision_id] =
              RevisionRecord(p.artifact_id, e.batch, i - 1, p.content, p.prior, p.parent)
    BY DEF RevisionsAdded
  <1> QED
    BY <1>1 DEF RevisionRecord

\* Where a proposal stands: at the head of its lineage, or at the start of one.
LEMMA ProposalFollows ==
  ASSUME NEW A, ArtifactsSound(A), NEW e, CanReduceProposals(A, e), DraftedProposals(e),
         NEW i \in 1 .. Len(e.proposals)
  PROVE  LET p == e.proposals[i]
             known == A.artifacts[p.artifact_id]
         IN /\ p.artifact_id \notin DOMAIN A.artifacts =>
                  p.prior = None /\ p.artifact_id = <<e.batch, i - 1>>
            /\ p.artifact_id \in DOMAIN A.artifacts =>
                  /\ p.prior = known.current /\ known.current \in DOMAIN A.revisions
                  /\ p.content.kind = known.kind /\ p.parent = known.parent
  <1> DEFINE p == e.proposals[i]
             known == A.artifacts[p.artifact_id]
  <1>1. i \in DOMAIN e.proposals
    BY DEF DraftedProposals
  <1>2. ReducibleProposal(A, e, i)
    BY <1>1 DEF CanReduceProposals
  <1>3. ASSUME p.artifact_id \in DOMAIN A.artifacts
        PROVE  known.current \in DOMAIN A.revisions
    <2>1. /\ IsList(known.revision_ids) /\ known.revision_ids # <<>>
          /\ known.current = known.revision_ids[Len(known.revision_ids)]
          /\ ToSet(known.revision_ids) = history(A, p.artifact_id)
      BY <1>3 DEF ArtifactsSound, LineageSound
    <2>2. Len(known.revision_ids) \in DOMAIN known.revision_ids
      BY <2>1 DEF IsList
    <2>3. known.current \in ToSet(known.revision_ids)
      BY <2>1, <2>2 DEF ToSet
    <2> QED
      BY <2>1, <2>3 DEF history
  <1> QED
    BY <1>1, <1>2, <1>3
    DEF ReducibleProposal, CanReduceProposals, decode_proposal_batch_recorded, artifact_id_for

\* The history of an artifact grows by the revision proposed for it, if any.
LEMMA RevisedHistory ==
  ASSUME NEW A, ArtifactsSound(A), NEW B, NEW e, Revised(A, B, e)
  PROVE  LET p(i) == e.proposals[i]
             I == 1 .. Len(e.proposals)
         IN /\ \A i \in I : history(B, p(i).artifact_id) =
                              history(A, p(i).artifact_id) \union {p(i).revision_id}
            /\ \A a : (\A i \in I : a # p(i).artifact_id) => history(B, a) = history(A, a)
            /\ \A a : a \notin DOMAIN A.artifacts => history(A, a) = {}
  <1> DEFINE p(i) == e.proposals[i]
             I == 1 .. Len(e.proposals)
  <1>1. /\ \A r \in DOMAIN A.revisions : B.revisions[r].artifact_id = A.revisions[r].artifact_id
        /\ \A i \in I : B.revisions[p(i).revision_id].artifact_id = p(i).artifact_id
        /\ DOMAIN B.revisions = DOMAIN A.revisions \union {p(i).revision_id : i \in I}
        /\ \A i, j \in I : p(i).artifact_id = p(j).artifact_id => i = j
    <2>1. RevisionsAdded(A, B, e) /\ HeadsMoved(A, B, e)
      BY DEF Revised
    <2>2. \A i \in I : B.revisions[p(i).revision_id].artifact_id = p(i).artifact_id
      BY <2>1, AddedRevision
    <2> QED
      BY <2>1, <2>2 DEF RevisionsAdded, HeadsMoved
  <1> HIDE DEF I
  <1>2. ASSUME NEW i \in I
        PROVE  history(B, p(i).artifact_id) =
               history(A, p(i).artifact_id) \union {p(i).revision_id}
    BY <1>1 DEF history
  <1>3. ASSUME NEW a, \A i \in I : a # p(i).artifact_id PROVE history(B, a) = history(A, a)
    BY <1>1, <1>3 DEF history
  <1>4. ASSUME NEW a, a \notin DOMAIN A.artifacts PROVE history(A, a) = {}
    BY <1>4 DEF history, ArtifactsSound, RevisionSound, ReadableRevision
  <1> QED
    BY <1>2, <1>3, <1>4 DEF I

\* An artifact no proposal names keeps its lineage.
LEMMA LineageKept ==
  ASSUME NEW A, NEW B, NEW a, LineageSound(A, a), B.artifacts[a] = A.artifacts[a],
         history(B, a) = history(A, a),
         \A r \in DOMAIN A.revisions : /\ B.revisions[r].prior = A.revisions[r].prior
                                       /\ B.revisions[r].content = A.revisions[r].content
                                       /\ B.revisions[r].parent = A.revisions[r].parent,
         DOMAIN A.batches \subseteq DOMAIN B.batches
  PROVE  LineageSound(B, a)
  <1> DEFINE ids == A.artifacts[a].revision_ids
  <1>1. /\ IsList(ids) /\ ids # <<>> /\ ToSet(ids) = history(A, a)
        /\ A.revisions[ids[1]].prior = None
        /\ \A i \in 2 .. Len(ids) : A.revisions[ids[i]].prior = ids[i - 1]
    BY DEF LineageSound
  <1> HIDE DEF ids
  <1>2. Len(ids) \in Nat /\ Len(ids) >= 1 /\ DOMAIN ids = 1 .. Len(ids)
    BY <1>1, ListFacts, EmptySeq DEF IsList
  <1>3. \A i \in 1 .. Len(ids) : ids[i] \in DOMAIN A.revisions
    BY <1>1, <1>2 DEF ToSet, history
  <1>4. B.revisions[ids[1]].prior = None
    BY <1>1, <1>2, <1>3
  <1>5. \A i \in 2 .. Len(ids) : B.revisions[ids[i]].prior = ids[i - 1]
    BY <1>1, <1>2, <1>3
  <1>6. \A r \in history(A, a) : r \in DOMAIN A.revisions
    BY DEF history
  <1> QED
    BY <1>4, <1>5, <1>6 DEF LineageSound, ids

\* A proposal for a new artifact starts a lineage.
LEMMA LineageStarted ==
  ASSUME NEW A, NEW B, NEW a, a \notin DOMAIN A.artifacts, NEW p, a = p.artifact_id,
         B.artifacts[a] = MovedHead(A, p), history(B, a) = {p.revision_id},
         B.revisions[p.revision_id].prior = None,
         B.revisions[p.revision_id].content = p.content,
         B.revisions[p.revision_id].parent = p.parent,
         NEW batch \in DOMAIN B.batches, NEW n, a = <<batch, n>>
  PROVE  LineageSound(B, a)
  <1> DEFINE r == p.revision_id
             ids == <<r>>
  <1>1. <<>> \o ids = ids /\ ids \in Seq({r}) /\ ids # <<>>
        /\ Len(ids) = 1 /\ ids[1] = r /\ DOMAIN ids = {1}
    <2>1. ids \in Seq({r}) /\ Len(ids) = 1 /\ ids[1] = r /\ DOMAIN ids = {1}
      OBVIOUS
    <2>2. <<>> \in Seq({r}) /\ Len(<<>>) = 0
      BY EmptySeq
    <2> QED
      BY <2>1, <2>2, ConcatEmptySeq
  <1>2. B.artifacts[a] = [kind |-> p.content.kind, parent |-> p.parent,
                          revision_ids |-> ids, current |-> r]
    <2>1. MovedHead(A, p) = [kind |-> p.content.kind, parent |-> p.parent,
                             revision_ids |-> <<>> \o ids, current |-> r]
      BY Zenon DEF MovedHead
    <2> QED
      BY <1>1, <2>1
  <1> HIDE DEF ids
  <1>3. IsList(ids) /\ ToSet(ids) = {r} /\ IsInjective(ids)
    BY <1>1, SeqIsList DEF ToSet, IsInjective
  <1>4. a = <<a[1], a[2]>> /\ a[1] \in DOMAIN B.batches
    OBVIOUS
  <1>5. \A i \in 2 .. Len(ids) : B.revisions[ids[i]].prior = ids[i - 1]
    BY <1>1
  <1> DEFINE known == B.artifacts[a]
  <1>6. known.revision_ids = ids /\ known.current = r /\ known.kind = p.content.kind
        /\ known.parent = p.parent
    BY <1>2
  <1> HIDE DEF known, r
  <1> QED
    BY <1>1, <1>3, <1>4, <1>5, <1>6 DEF LineageSound, known, r

\* A proposal for a known artifact continues its lineage: its prior is the
\* head.
LEMMA LineageContinued ==
  ASSUME NEW A, NEW B, NEW a \in DOMAIN A.artifacts, LineageSound(A, a), NEW p,
         a = p.artifact_id, B.artifacts[a] = MovedHead(A, p),
         p.prior = A.artifacts[a].current, p.content.kind = A.artifacts[a].kind,
         p.parent = A.artifacts[a].parent,
         history(B, a) = history(A, a) \union {p.revision_id},
         p.revision_id \notin DOMAIN A.revisions,
         \A r \in DOMAIN A.revisions : B.revisions[r] = A.revisions[r],
         B.revisions[p.revision_id].prior = p.prior,
         B.revisions[p.revision_id].content = p.content,
         B.revisions[p.revision_id].parent = p.parent,
         DOMAIN A.batches \subseteq DOMAIN B.batches
  PROVE  LineageSound(B, a)
  <1> DEFINE new == p.revision_id
             old == A.artifacts[a].revision_ids
             ids == Append(old, new)
             known == B.artifacts[a]
  <1>1. /\ IsList(old) /\ old # <<>> /\ A.artifacts[a].current = old[Len(old)]
        /\ ToSet(old) = history(A, a) /\ IsInjective(old)
        /\ A.revisions[old[1]].prior = None
        /\ \A i \in 2 .. Len(old) : A.revisions[old[i]].prior = old[i - 1]
    BY DEF LineageSound
  <1>2. /\ known.revision_ids = old \o <<new>> /\ known.current = new
        /\ known.kind = p.content.kind /\ known.parent = p.parent
    <2>1. MovedHead(A, p) = [kind |-> p.content.kind, parent |-> p.parent,
                             revision_ids |-> old \o <<new>>, current |-> new]
      <3>1. (IF p.artifact_id \in DOMAIN A.artifacts
             THEN A.artifacts[p.artifact_id].revision_ids ELSE <<>>) = old
        OBVIOUS
      <3>2. MovedHead(A, p) =
               [kind |-> p.content.kind, parent |-> p.parent,
                revision_ids |-> (IF p.artifact_id \in DOMAIN A.artifacts
                                  THEN A.artifacts[p.artifact_id].revision_ids ELSE <<>>)
                                 \o <<p.revision_id>>,
                current |-> p.revision_id]
        BY Zenon DEF MovedHead
      <3> QED
        BY <3>1, <3>2, Zenon
    <2> HIDE DEF old, new
    <2>2. known = [kind |-> p.content.kind, parent |-> p.parent,
                   revision_ids |-> old \o <<new>>, current |-> new]
      BY <2>1
    <2> HIDE DEF known
    <2> QED
      BY <2>2
  <1>3. /\ \A r \in history(A, a) : /\ A.revisions[r].content.kind = A.artifacts[a].kind
                                    /\ A.revisions[r].parent = A.artifacts[a].parent
        /\ a = <<a[1], a[2]>> /\ a[1] \in DOMAIN A.batches
    BY DEF LineageSound
  <1>4. history(A, a) \subseteq DOMAIN A.revisions
    BY DEF history
  <1> HIDE DEF old, new, known
  <1>5. known.revision_ids = ids
    BY <1>1, <1>2, ListAppend
  <1>6. /\ IsList(ids) /\ ids # <<>> /\ ids[Len(ids)] = new
        /\ ToSet(ids) = ToSet(old) \union {new} /\ IsInjective(ids)
        /\ B.revisions[ids[1]].prior = None
        /\ \A i \in 2 .. Len(ids) : B.revisions[ids[i]].prior = ids[i - 1]
    <2>1. new \notin ToSet(old) /\ B.revisions[new].prior = old[Len(old)]
      BY <1>1, <1>4 DEF new
    <2>2. \A i \in 1 .. Len(old) : B.revisions[old[i]] = A.revisions[old[i]]
      <3>1. \A i \in DOMAIN old : old[i] \in ToSet(old)
        BY DEF ToSet
      <3> QED
        BY <1>1, <1>4, <3>1, ListFacts
    <2>3. Len(old) \in Nat /\ Len(old) >= 1
      BY <1>1, ListFacts, EmptySeq DEF IsList
    <2>4. B.revisions[old[1]].prior = None
      BY <1>1, <2>2, <2>3
    <2>5. \A i \in 2 .. Len(old) : B.revisions[old[i]].prior = old[i - 1]
      BY <1>1, <2>2, <2>3
    <2> HIDE DEF ids
    <2>6. IsChain(old, B.revisions)
      BY <1>1, <2>4, <2>5 DEF IsChain
    <2>7. IsChain(ids, B.revisions) /\ ids[Len(ids)] = new
          /\ ToSet(ids) = ToSet(old) \union {new}
      BY <2>1, <2>6, ChainExtended DEF ids
    <2> QED
      BY <2>7 DEF IsChain
  <1>7. \A r \in history(B, a) : /\ B.revisions[r].content.kind = known.kind
                                 /\ B.revisions[r].parent = known.parent
    BY <1>2, <1>3, <1>4 DEF new
  <1>8. ToSet(ids) = history(B, a)
    BY <1>1, <1>6 DEF new
  <1> HIDE DEF ids
  <1> QED
    BY <1>2, <1>3, <1>5, <1>6, <1>7, <1>8 DEF LineageSound, known

\* So every lineage is sound after a batch.
LEMMA RevisedLineages ==
  ASSUME NEW A, ArtifactsSound(A), NEW e, CanReduceProposals(A, e), DraftedProposals(e),
         NEW B, Revised(A, B, e), NEW a \in DOMAIN B.artifacts
  PROVE  LineageSound(B, a)
  <1>1. DOMAIN A.batches \subseteq DOMAIN B.batches /\ e.batch \in DOMAIN B.batches
    BY DEF Revised, BatchAdded
  <1>2. \A r \in DOMAIN A.revisions : B.revisions[r] = A.revisions[r]
    BY DEF Revised, RevisionsAdded
  <1>3. CASE \A i \in 1 .. Len(e.proposals) : a # e.proposals[i].artifact_id
    <2>1. a \in DOMAIN A.artifacts /\ B.artifacts[a] = A.artifacts[a]
      BY <1>3 DEF Revised, HeadsMoved
    <2>2. LineageSound(A, a)
      BY <2>1 DEF ArtifactsSound
    <2>3. history(B, a) = history(A, a)
      BY <1>3, RevisedHistory
    <2> QED
      BY <1>1, <1>2, <2>1, <2>2, <2>3, LineageKept
  <1>4. ASSUME NEW i \in 1 .. Len(e.proposals), a = e.proposals[i].artifact_id
        PROVE  LineageSound(B, a)
    <2> DEFINE p == e.proposals[i]
    <2>1. B.artifacts[a] = MovedHead(A, p)
      BY <1>4 DEF Revised, HeadsMoved
    <2>2. history(B, a) = history(A, a) \union {p.revision_id}
      BY <1>4, RevisedHistory
    <2>3. /\ B.revisions[p.revision_id].prior = p.prior
          /\ B.revisions[p.revision_id].content = p.content
          /\ B.revisions[p.revision_id].parent = p.parent
          /\ p.revision_id \notin DOMAIN A.revisions
      BY AddedRevision DEF Revised
    <2>4. /\ a \notin DOMAIN A.artifacts => p.prior = None /\ a = <<e.batch, i - 1>>
          /\ a \in DOMAIN A.artifacts =>
                /\ p.prior = A.artifacts[a].current
                /\ p.content.kind = A.artifacts[a].kind /\ p.parent = A.artifacts[a].parent
      BY <1>4, ProposalFollows
    <2>5. a = p.artifact_id
      BY <1>4
    <2> HIDE DEF p
    <2>6. CASE a \notin DOMAIN A.artifacts
      <3>1. history(A, a) = {}
        BY <2>6, RevisedHistory
      <3>2. history(B, a) = {p.revision_id}
        BY <2>2, <3>1
      <3> QED
        BY <1>1, <2>1, <2>3, <2>4, <2>5, <2>6, <3>2, LineageStarted
    <2>7. CASE a \in DOMAIN A.artifacts
      <3>1. LineageSound(A, a)
        BY <2>7 DEF ArtifactsSound
      <3> QED
        BY <1>1, <1>2, <2>1, <2>2, <2>3, <2>4, <2>5, <2>7, <3>1, LineageContinued
    <2> QED
      BY <2>6, <2>7
  <1> QED
    BY <1>3, <1>4

\* And every revision.
LEMMA RevisedRevisions ==
  ASSUME NEW A, ArtifactsSound(A), NEW e, CanReduceProposals(A, e), DraftedProposals(e),
         NEW B, Revised(A, B, e), NEW r \in DOMAIN B.revisions
  PROVE  RevisionSound(B, r)
  <1> DEFINE p(i) == e.proposals[i]
             I == 1 .. Len(e.proposals)
  <1>1. DOMAIN A.batches \subseteq DOMAIN B.batches /\ e.batch \in DOMAIN B.batches
    BY DEF Revised, BatchAdded
  <1>2. DOMAIN A.revisions \subseteq DOMAIN B.revisions
        /\ DOMAIN A.artifacts \subseteq DOMAIN B.artifacts
    BY DEF Revised, RevisionsAdded, HeadsMoved
  <1>3. CASE r \in DOMAIN A.revisions
    <2>1. RevisionSound(A, r) /\ B.revisions[r] = A.revisions[r]
      BY <1>3 DEF ArtifactsSound, Revised, RevisionsAdded
    <2> QED
      BY <1>1, <1>2, <2>1 DEF RevisionSound, ReadableRevision
  <1>4. ASSUME NEW i \in I, r = p(i).revision_id PROVE RevisionSound(B, r)
    <2>1. B.revisions[r] = RevisionRecord(p(i).artifact_id, e.batch, i - 1, p(i).content,
                                          p(i).prior, p(i).parent)
      BY <1>4 DEF Revised, RevisionsAdded
    <2>2. p(i).artifact_id \in DOMAIN B.artifacts /\ ContentSound(p(i).content)
      BY DEF Revised, HeadsMoved, DraftedProposals
    <2>3. p(i).prior = None \/ p(i).prior \in DOMAIN B.revisions
      BY <1>2, ProposalFollows
    <2>4. r = <<p(i).artifact_id, p(i).content.label, p(i).prior>>
      BY <1>4 DEF Revised, RevisionsAdded
    <2> QED
      BY <1>1, <2>1, <2>2, <2>3, <2>4
      DEF RevisionSound, RevisionRecord, ReadableRevision, artifact_revision_id_for
  <1> QED
    BY <1>3, <1>4 DEF Revised, RevisionsAdded

\* And every batch.
LEMMA RevisedBatches ==
  ASSUME NEW A, ArtifactsSound(A), NEW e, CanReduceProposals(A, e), DraftedProposals(e),
         NEW B, Revised(A, B, e), NEW b \in DOMAIN B.batches
  PROVE  BatchSound(B, b)
  <1>1. CASE b \in DOMAIN A.batches
    <2>1. BatchSound(A, b) /\ B.batches[b] = A.batches[b]
      BY <1>1 DEF ArtifactsSound, Revised, BatchAdded, CanReduceProposals
    <2>2. DOMAIN A.commands \subseteq DOMAIN B.commands
      BY DEF Revised, BatchAdded
    <2> QED
      BY <2>1, <2>2 DEF BatchSound
  <1>2. CASE b \notin DOMAIN A.batches
    <2> DEFINE ids == BatchIds(e)
    <2>1. b = e.batch /\ B.batches[b] = ArtifactBatchRecord(e.ctx.session, e.origin, ids)
      BY <1>2 DEF Revised, BatchAdded
    <2>2. Len(e.proposals) \in 1 .. 24
      <3>1. Len(e.proposals) \in 1 .. (IF e.origin.kind = "generated" THEN 24 ELSE 1)
        BY DEF CanReduceProposals, decode_proposal_batch_recorded
      <3>2. Len(e.proposals) \in Nat
        BY DEF DraftedProposals
      <3>3. CASE e.origin.kind = "generated"
        BY <3>1, <3>3
      <3>4. CASE e.origin.kind # "generated"
        <4>1. (IF e.origin.kind = "generated" THEN 24 ELSE 1) = 1
          BY <3>4
        <4>2. Len(e.proposals) \in 1 .. 1
          BY <3>1, <4>1
        <4> QED
          BY <4>2
      <3> QED
        BY <3>3, <3>4
    <2>3. Len(ids) = Len(e.proposals) /\ DOMAIN ids = 1 .. Len(e.proposals)
      BY DEF DraftedProposals, BatchIds
    <2>4. IsInjective(ids)
      <3>1. \A i, j \in 1 .. Len(e.proposals) :
               e.proposals[i].revision_id = e.proposals[j].revision_id => i = j
        BY DEF Revised, RevisionsAdded, HeadsMoved
      <3> QED
        BY <2>3, <3>1 DEF IsInjective, BatchIds
    <2>5. ReadableBatch(B.batches[b])
      <3> HIDE DEF ids
      <3>1. B.batches[b] = [session |-> e.ctx.session, origin |-> e.origin, revision_ids |-> ids]
        BY <2>1 DEF ArtifactBatchRecord
      <3>2. B.batches[b].origin = e.origin /\ B.batches[b].revision_ids = ids
        BY <3>1
      <3> QED
        BY <2>2, <2>3, <2>4, <3>2 DEF ReadableBatch, DraftedProposals
    <2>6. e.batch = <<e.ctx.session, e.origin.from, e.ctx.key>>
          /\ e.id = <<e.ctx.session, e.ctx.key, "proposal">> /\ e.id \in DOMAIN B.commands
      BY DEF CanReduceProposals, decode_proposal_batch_recorded, Revised, BatchAdded,
         artifact_batch_id_for, artifact_event_id_for
    <2> QED
      BY <2>1, <2>5, <2>6 DEF BatchSound
  <1> QED
    BY <1>1, <1>2

\* A batch of proposals keeps the artifacts sound.
LEMMA ProposalsKeep ==
  ASSUME NEW A, ArtifactsSound(A), NEW e, CanReduceProposals(A, e), DraftedProposals(e)
  PROVE  ArtifactsSound(reduce_proposal_batch_recorded(A, e))
  <1> DEFINE B == reduce_proposal_batch_recorded(A, e)
  <1>1. Revised(A, B, e)
    BY ProposalsRevise
  <1> HIDE DEF B
  <1>2. DecisionsSound(B)
    <2>1. /\ B.decisions = A.decisions
          /\ DOMAIN A.revisions \subseteq DOMAIN B.revisions
          /\ \A r \in DOMAIN A.revisions : B.revisions[r] = A.revisions[r]
          /\ \A r \in DOMAIN B.revisions : r \in DOMAIN A.revisions
                                           \/ B.revisions[r].status = "proposed"
      <3>1. RevisionsAdded(A, B, e)
        BY <1>1 DEF Revised
      <3>2. \A i \in 1 .. Len(e.proposals) :
               B.revisions[e.proposals[i].revision_id].status = "proposed"
        BY <3>1, AddedRevision
      <3> QED
        BY <1>1, <3>1, <3>2 DEF Revised, RevisionsAdded, BatchAdded
    <2>2. DecisionsSound(A)
      BY DEF ArtifactsSound
    <2> QED
      BY <2>1, <2>2 DEF DecisionsSound, ReadableDecision
  <1>3. /\ \A r \in DOMAIN B.revisions : RevisionSound(B, r)
        /\ \A a \in DOMAIN B.artifacts : LineageSound(B, a)
        /\ \A b \in DOMAIN B.batches : BatchSound(B, b)
    BY <1>1, RevisedRevisions, RevisedLineages, RevisedBatches
  <1>4. ArtifactsSound(B)
    BY <1>1, <1>2, <1>3 DEF ArtifactsSound, Revised
  <1> QED
    BY <1>4 DEF B
-----------------------------------------------------------------------------
(* Artifacts.  What a decision does to the projection.                     *)

\* An artifact has at most one accepted revision.
LEMMA TheAccepted ==
  ASSUME NEW A, ArtifactsSound(A), NEW artifact
  PROVE  /\ \A r \in _current_accepted(A, artifact) : AcceptedOrNone(A, artifact) = r
         /\ AcceptedOrNone(A, artifact) = None
            \/ AcceptedOrNone(A, artifact) \in _current_accepted(A, artifact)
  <1>1. ASSUME NEW r \in _current_accepted(A, artifact) PROVE AcceptedOrNone(A, artifact) = r
    <2>1. \A s \in _current_accepted(A, artifact) : s = r
      BY DEF _current_accepted, history, ArtifactsSound, DecisionsSound
    <2> QED
      BY <2>1 DEF AcceptedOrNone
  <1>2. CASE _current_accepted(A, artifact) = {}
    BY <1>2 DEF AcceptedOrNone
  <1>3. CASE _current_accepted(A, artifact) # {}
    BY <1>1, <1>3
  <1> QED
    BY <1>1, <1>2, <1>3

\* The decisions the services and the policies make.
DraftedDecision(e) == e.decision \in {"accept", "reject"}

\* The state of revision r after decision e.
DecidedStatus(A, e, r) ==
    IF r = e.revision THEN IF e.decision = "accept" THEN "accepted" ELSE "rejected"
    ELSE IF r = e.supersedes THEN "superseded" ELSE A.revisions[r].status

\* B is A with decision e.
Decided(A, B, e) ==
    /\ B.artifacts = A.artifacts /\ B.batches = A.batches
    /\ B.decisions = Append(A.decisions,
                            ArtifactDecisionRecord(e.revision, e.decision, e.supersedes))
    /\ DOMAIN B.commands = DOMAIN A.commands \union {e.id}
    /\ B.commands[e.id] = e.fingerprint
    /\ DOMAIN B.revisions = DOMAIN A.revisions
    /\ \A r \in DOMAIN A.revisions :
          LET old == A.revisions[r]
              new == B.revisions[r]
          IN /\ new = [artifact_id |-> new.artifact_id, batch_id |-> new.batch_id,
                       ordinal |-> new.ordinal, content |-> new.content, prior |-> new.prior,
                       parent |-> new.parent, status |-> new.status]
             /\ new.artifact_id = old.artifact_id /\ new.batch_id = old.batch_id
             /\ new.content = old.content /\ new.prior = old.prior /\ new.parent = old.parent
             /\ new.status = DecidedStatus(A, e, r)
    /\ B = [artifacts |-> B.artifacts, revisions |-> B.revisions, batches |-> B.batches,
            decisions |-> B.decisions, commands |-> B.commands]

\* Reducing a decision sets the status of its revision, and of the one it
\* supersedes.
LEMMA DecisionDecides ==
  ASSUME NEW A, ArtifactsSound(A), NEW e
  PROVE  Decided(A, reduce_decision_recorded(A, e), e)
  <1> DEFINE after(r) ==
               IF r = e.revision
               THEN [A.revisions[r] EXCEPT !.status =
                        IF e.decision = "accept" THEN "accepted" ELSE "rejected"]
               ELSE IF r = e.supersedes THEN [A.revisions[r] EXCEPT !.status = "superseded"]
               ELSE A.revisions[r]
             revisions == [r \in DOMAIN A.revisions |-> after(r)]
             B == reduce_decision_recorded(A, e)
  <1>1. /\ A = [artifacts |-> A.artifacts, revisions |-> A.revisions, batches |-> A.batches,
                decisions |-> A.decisions, commands |-> A.commands]
        /\ \A r \in DOMAIN A.revisions : RevisionSound(A, r)
    BY DEF ArtifactsSound
  <1>2. B = [A EXCEPT !.revisions = revisions,
                      !.decisions = Append(A.decisions,
                            ArtifactDecisionRecord(e.revision, e.decision, e.supersedes)),
                      !.commands = With(A.commands, e.id, e.fingerprint)]
    BY Zenon DEF reduce_decision_recorded
  <1>3. ASSUME NEW r \in DOMAIN A.revisions
        PROVE  LET old == A.revisions[r]
                   new == after(r)
               IN /\ new = [artifact_id |-> new.artifact_id, batch_id |-> new.batch_id,
                            ordinal |-> new.ordinal, content |-> new.content,
                            prior |-> new.prior, parent |-> new.parent, status |-> new.status]
                  /\ new.artifact_id = old.artifact_id /\ new.batch_id = old.batch_id
                  /\ new.content = old.content /\ new.prior = old.prior
                  /\ new.parent = old.parent /\ new.status = DecidedStatus(A, e, r)
    <2>1. PICK old : old = A.revisions[r]
      OBVIOUS
    <2>2. old = [artifact_id |-> old.artifact_id, batch_id |-> old.batch_id,
                 ordinal |-> old.ordinal, content |-> old.content, prior |-> old.prior,
                 parent |-> old.parent, status |-> old.status]
      BY <1>1, <2>1 DEF RevisionSound
    <2> QED
      BY <2>1, <2>2 DEF DecidedStatus
  <1>4. DOMAIN revisions = DOMAIN A.revisions
        /\ \A r \in DOMAIN A.revisions : revisions[r] = after(r)
    OBVIOUS
  <1> HIDE DEF revisions, B
  <1>5. /\ B.artifacts = A.artifacts /\ B.batches = A.batches
        /\ B.decisions = Append(A.decisions,
                                ArtifactDecisionRecord(e.revision, e.decision, e.supersedes))
        /\ B.commands = With(A.commands, e.id, e.fingerprint)
        /\ B.revisions = revisions
        /\ B = [artifacts |-> B.artifacts, revisions |-> B.revisions, batches |-> B.batches,
                decisions |-> B.decisions, commands |-> B.commands]
    BY <1>1, <1>2
  <1> HIDE DEF after
  <1>6. ASSUME NEW r \in DOMAIN A.revisions
        PROVE  LET old == A.revisions[r]
                   new == B.revisions[r]
               IN /\ new = [artifact_id |-> new.artifact_id, batch_id |-> new.batch_id,
                            ordinal |-> new.ordinal, content |-> new.content,
                            prior |-> new.prior, parent |-> new.parent, status |-> new.status]
                  /\ new.artifact_id = old.artifact_id /\ new.batch_id = old.batch_id
                  /\ new.content = old.content /\ new.prior = old.prior
                  /\ new.parent = old.parent /\ new.status = DecidedStatus(A, e, r)
    <2>1. B.revisions[r] = after(r)
      BY <1>4, <1>5
    <2> QED
      BY <1>3, <2>1
  <1>7. DOMAIN B.commands = DOMAIN A.commands \union {e.id} /\ B.commands[e.id] = e.fingerprint
    BY <1>5 DEF With
  <1>8. Decided(A, B, e)
    BY <1>4, <1>5, <1>6, <1>7 DEF Decided
  <1> QED
    BY <1>8 DEF B

\* So decisions, receipts and the accepted revision agree after it.
LEMMA DecidedSound ==
  ASSUME NEW A, ArtifactsSound(A), NEW e, CanReduceDecision(A, e), DraftedDecision(e),
         NEW B, Decided(A, B, e)
  PROVE  DecisionsSound(B)
  <1> DEFINE R == DOMAIN A.revisions
             status(r) == A.revisions[r].status
             artifact(r) == A.revisions[r].artifact_id
             D == A.decisions
             n == Len(D) + 1
             new == ArtifactDecisionRecord(e.revision, e.decision, e.supersedes)
             accepted == AcceptedOrNone(A, artifact(e.revision))
  <1>1. e.revision \in R /\ status(e.revision) = "proposed"
    BY DEF CanReduceDecision, Decidable
  <1>2. e.supersedes = IF e.decision = "accept" THEN accepted ELSE None
    BY DEF CanReduceDecision, decode_decision_recorded, DraftedDecision
  <1>3. e.supersedes # None => e.supersedes \in R /\ status(e.supersedes) = "accepted"
    BY <1>2, TheAccepted DEF _current_accepted, history
  <1>4. ASSUME NEW r \in R, status(r) = "accepted", artifact(r) = artifact(e.revision)
        PROVE  accepted = r
    BY <1>4, TheAccepted DEF _current_accepted, history
  <1>5. /\ IsList(D)
        /\ \A i \in DOMAIN D :
              /\ D[i].revision \in R /\ (D[i].decision = "reject" => D[i].supersedes = None)
              /\ D[i].supersedes # None =>
                    /\ D[i].supersedes \in R /\ status(D[i].supersedes) = "superseded"
                    /\ \A j \in DOMAIN D : D[j].supersedes = D[i].supersedes => i = j
        /\ \A r \in R : status(r) = "superseded" => \E i \in DOMAIN D : D[i].supersedes = r
        /\ \A r, s \in R : status(r) = "accepted" /\ status(s) = "accepted"
                           /\ artifact(r) = artifact(s) => r = s
    BY DEF ArtifactsSound, DecisionsSound, ReadableDecision
  <1>6. new.revision = e.revision /\ new.decision = e.decision /\ new.supersedes = e.supersedes
    BY DEF ArtifactDecisionRecord
  <1>7. /\ DOMAIN B.revisions = R
        /\ \A r \in R : /\ B.revisions[r].artifact_id = artifact(r)
                         /\ B.revisions[r].status = DecidedStatus(A, e, r)
        /\ B.decisions = Append(D, new)
    BY DEF Decided
  <1> DEFINE E == B.decisions
  <1>8. /\ IsList(E) /\ DOMAIN E = DOMAIN D \union {n} /\ E[n] = new
        /\ \A i \in DOMAIN D : i # n /\ E[i] = D[i]
    BY <1>5, <1>7, ListAppend
  <1> DEFINE after(r) == B.revisions[r].status
  <1>9. \A r \in R : after(r) = IF r = e.revision
                                THEN IF e.decision = "accept" THEN "accepted" ELSE "rejected"
                                ELSE IF r = e.supersedes THEN "superseded" ELSE status(r)
    BY <1>7 DEF DecidedStatus
  <1> HIDE DEF R, status, artifact, D, n, new, accepted, E, after
  <1>10. ASSUME NEW i \in DOMAIN E
         PROVE  /\ E[i].revision \in R
                /\ E[i].decision = "reject" => E[i].supersedes = None
                /\ E[i].supersedes # None =>
                      /\ E[i].supersedes \in R /\ after(E[i].supersedes) = "superseded"
                      /\ \A j \in DOMAIN E : E[j].supersedes = E[i].supersedes => i = j
    <2>1. CASE i = n
      <3>1. E[i].decision = "reject" => E[i].supersedes = None
        BY <1>2, <1>6, <1>8, <2>1
      <3>2. ASSUME E[i].supersedes # None
            PROVE  /\ E[i].supersedes \in R /\ after(E[i].supersedes) = "superseded"
                   /\ \A j \in DOMAIN E : E[j].supersedes = E[i].supersedes => i = j
        <4>1. E[i].supersedes = e.supersedes /\ e.supersedes \in R
              /\ status(e.supersedes) = "accepted"
          BY <1>3, <1>6, <1>8, <2>1, <3>2
        <4>2. after(e.supersedes) = "superseded"
          BY <1>1, <1>9, <4>1
        <4>3. \A j \in DOMAIN D : E[j].supersedes # e.supersedes
          BY <1>5, <1>8, <3>2, <4>1
        <4> QED
          BY <1>8, <2>1, <4>1, <4>2, <4>3
      <3> QED
        BY <1>1, <1>6, <1>8, <2>1, <3>1, <3>2
    <2>2. CASE i \in DOMAIN D
      <3>1. E[i] = D[i]
        BY <1>8, <2>2
      <3>2. ASSUME D[i].supersedes # None
            PROVE  /\ D[i].supersedes \in R /\ after(D[i].supersedes) = "superseded"
                   /\ \A j \in DOMAIN E : E[j].supersedes = D[i].supersedes => i = j
        <4>1. /\ D[i].supersedes \in R /\ status(D[i].supersedes) = "superseded"
              /\ \A j \in DOMAIN D : D[j].supersedes = D[i].supersedes => i = j
          BY <1>5, <2>2, <3>2
        <4>2. after(D[i].supersedes) = "superseded"
          BY <1>1, <1>9, <4>1
        <4>3. e.supersedes # D[i].supersedes
          BY <1>3, <3>2, <4>1
        <4> QED
          BY <1>6, <1>8, <4>1, <4>2, <4>3
      <3> QED
        BY <1>5, <2>2, <3>1, <3>2
    <2> QED
      BY <1>8, <2>1, <2>2
  <1>11. ASSUME NEW r \in R, after(r) = "superseded"
         PROVE  \E i \in DOMAIN E : E[i].supersedes = r
    <2>1. r = e.supersedes \/ status(r) = "superseded"
      BY <1>9, <1>11
    <2> QED
      BY <1>5, <1>6, <1>8, <2>1
  <1>12. ASSUME NEW r \in R, NEW s \in R, after(r) = "accepted", after(s) = "accepted",
                artifact(r) = artifact(s)
         PROVE  r = s
    <2>1. \A q \in {r, s} : (q = e.revision /\ e.decision = "accept")
                            \/ (status(q) = "accepted" /\ q # e.supersedes)
      BY <1>9, <1>12
    <2> QED
      BY <1>2, <1>4, <1>5, <1>12, <2>1
  <1> QED
    BY <1>7, <1>8, <1>10, <1>11, <1>12
    DEF DecisionsSound, ReadableDecision, R, artifact, E, after

\* A decision keeps the artifacts sound.
LEMMA DecisionKeeps ==
  ASSUME NEW A, ArtifactsSound(A), NEW e, CanReduceDecision(A, e), DraftedDecision(e)
  PROVE  ArtifactsSound(reduce_decision_recorded(A, e))
  <1> DEFINE B == reduce_decision_recorded(A, e)
  <1>1. Decided(A, B, e)
    BY DecisionDecides
  <1> HIDE DEF B
  <1>2. DecisionsSound(B)
    BY <1>1, DecidedSound
  <1>3. ASSUME NEW r \in DOMAIN B.revisions PROVE RevisionSound(B, r)
    <2>1. r \in DOMAIN A.revisions /\ RevisionSound(A, r)
      BY <1>1 DEF Decided, ArtifactsSound
    <2>2. DecidedStatus(A, e, r) \in {"proposed", "accepted", "rejected", "superseded"}
      BY <2>1 DEF DecidedStatus, RevisionSound, ReadableRevision
    <2> QED
      BY <1>1, <2>1, <2>2 DEF Decided, RevisionSound, ReadableRevision
  <1>4. ASSUME NEW a \in DOMAIN B.artifacts PROVE LineageSound(B, a)
    <2>1. a \in DOMAIN A.artifacts /\ LineageSound(A, a) /\ B.artifacts[a] = A.artifacts[a]
      BY <1>1 DEF Decided, ArtifactsSound
    <2>2. history(B, a) = history(A, a)
      BY <1>1 DEF Decided, history
    <2>3. \A r \in DOMAIN A.revisions : /\ B.revisions[r].prior = A.revisions[r].prior
                                        /\ B.revisions[r].content = A.revisions[r].content
                                        /\ B.revisions[r].parent = A.revisions[r].parent
      BY <1>1 DEF Decided
    <2>4. DOMAIN A.batches \subseteq DOMAIN B.batches
      BY <1>1 DEF Decided
    <2> QED
      BY <2>1, <2>2, <2>3, <2>4, LineageKept
  <1>5. ASSUME NEW b \in DOMAIN B.batches PROVE BatchSound(B, b)
    <2>1. b \in DOMAIN A.batches /\ BatchSound(A, b) /\ B.batches[b] = A.batches[b]
          /\ DOMAIN A.commands \subseteq DOMAIN B.commands
      BY <1>1 DEF Decided, ArtifactsSound
    <2> QED
      BY <2>1 DEF BatchSound
  <1>6. ArtifactsSound(B)
    BY <1>1, <1>2, <1>3, <1>4, <1>5 DEF ArtifactsSound, Decided
  <1> QED
    BY <1>6 DEF B
-----------------------------------------------------------------------------
(* Assessments.                                                            *)

\* What the service checks and the reducers do not repeat.
DraftedAssessment(G, e) ==
    /\ e.op = "attempt" =>
          \A t \in DOMAIN G.attempts : G.attempts[t].presentation # e.payload.presentation
    /\ e.op = "contest" =>
          \A i \in DOMAIN G.contests : G.contests[i].grade # e.payload.grade
    /\ e.op = "grade" =>
          /\ e.payload.result.numerator <= e.payload.result.denominator
          /\ e.payload.result.run # None =>
                /\ \A g \in DOMAIN G.grades : G.grades[g].result.run # e.payload.result.run
                /\ e.payload.supersedes # None =>
                      \E i \in DOMAIN G.contests : G.contests[i].grade = e.payload.supersedes

AssessmentFields(G) ==
    G = [presentations |-> G.presentations, attempts |-> G.attempts, grades |-> G.grades,
         contests |-> G.contests, commands |-> G.commands]

\* What a projection with the same grades keeps of them.
LEMMA GradesKept ==
  ASSUME NEW G, NEW s \in Nat, NEW H, NEW g \in DOMAIN G.grades, GradeSound(G, g, s),
         H.grades = G.grades, DOMAIN G.attempts \subseteq DOMAIN H.attempts,
         DOMAIN G.commands \subseteq DOMAIN H.commands,
         \A i \in DOMAIN G.contests : i \in DOMAIN H.contests /\ H.contests[i] = G.contests[i]
  PROVE  GradeSound(H, g, s + 1)
  <1>1. \A t : ActiveGrades(H, t) = ActiveGrades(G, t)
    BY DEF ActiveGrades
  <1>2. \A n \in 0 .. s : n \in 0 .. s + 1
    OBVIOUS
  <1> QED
    BY <1>1, <1>2 DEF GradeSound

\* A presented item keeps the assessments sound.
LEMMA PresentKeeps ==
  ASSUME NEW A, ArtifactsSound(A), NEW G, NEW s \in Nat, AssessmentsSound(G, s),
         NEW e, e.op = "present", CanReduceAssessment(A, G, e)
  PROVE  AssessmentsSound(reduce_assessment(G, e, s + 1), s + 1)
  <1> DEFINE H == reduce_assessment(G, e, s + 1)
             p == e.payload.presentation
             new == PresentationRecord(e.ctx.session, e.payload.revision, e.payload.content)
  <1>1. AssessmentFields(G)
    BY DEF AssessmentsSound, AssessmentFields
  <1>2. /\ H.presentations = With(G.presentations, p, new) /\ H.attempts = G.attempts
        /\ H.grades = G.grades /\ H.contests = G.contests
        /\ H.commands = With(G.commands, e.id, e.fingerprint) /\ AssessmentFields(H)
    <2>1. H = [reduce_item_presented(G, e) EXCEPT
                  !.commands = With(reduce_item_presented(G, e).commands, e.id, e.fingerprint)]
      BY DEF reduce_assessment
    <2>2. reduce_item_presented(G, e) = [G EXCEPT !.presentations = With(G.presentations, p, new)]
      BY DEF reduce_item_presented
    <2> HIDE DEF H, new, p
    <2> QED
      BY <1>1, <2>1, <2>2 DEF AssessmentFields
  <1>3. p \notin DOMAIN G.presentations /\ ContentSound(e.payload.content)
    BY DEF CanReduceAssessment, CanReducePresented, ArtifactsSound, RevisionSound
  <1>4. new.content = e.payload.content
    BY DEF PresentationRecord
  <1> HIDE DEF H, new, p
  <1>5. /\ DOMAIN H.presentations = DOMAIN G.presentations \union {p}
        /\ H.presentations[p] = new
        /\ \A q \in DOMAIN G.presentations : H.presentations[q] = G.presentations[q]
        /\ DOMAIN G.commands \subseteq DOMAIN H.commands
    BY <1>2, <1>3 DEF With
  <1>6. \A q \in DOMAIN H.presentations : ContentSound(H.presentations[q].content)
    BY <1>3, <1>4, <1>5 DEF AssessmentsSound
  <1>7. \A t \in DOMAIN H.attempts : AttemptSound(H, t)
    BY <1>2, <1>5 DEF AssessmentsSound, AttemptSound
  <1>8. \A g \in DOMAIN H.grades : GradeSound(H, g, s + 1)
    BY <1>2, <1>5, GradesKept DEF AssessmentsSound
  <1>9. ContestsSound(H, s + 1)
    <2>1. \A n \in 0 .. s : n \in 0 .. s + 1
      OBVIOUS
    <2> QED
      BY <1>2, <2>1 DEF AssessmentsSound, ContestsSound
  <1>10. AssessmentsSound(H, s + 1)
    BY <1>2, <1>6, <1>7, <1>8, <1>9 DEF AssessmentsSound, AssessmentFields
  <1> QED
    BY <1>10 DEF H

\* An attempt keeps the assessments sound.
LEMMA AttemptKeeps ==
  ASSUME NEW A, NEW G, NEW s \in Nat, AssessmentsSound(G, s),
         NEW e, e.op = "attempt", CanReduceAssessment(A, G, e), DraftedAssessment(G, e)
  PROVE  AssessmentsSound(reduce_assessment(G, e, s + 1), s + 1)
  <1> DEFINE H == reduce_assessment(G, e, s + 1)
             t == e.payload.attempt
             new == AttemptRecord(e.ctx.session, e.payload.presentation, e.payload.response)
  <1>1. AssessmentFields(G)
    BY DEF AssessmentsSound, AssessmentFields
  <1>2. /\ H.presentations = G.presentations /\ H.attempts = With(G.attempts, t, new)
        /\ H.grades = G.grades /\ H.contests = G.contests
        /\ H.commands = With(G.commands, e.id, e.fingerprint) /\ AssessmentFields(H)
    <2>1. H = [reduce_attempt_recorded(G, e) EXCEPT
                  !.commands = With(reduce_attempt_recorded(G, e).commands, e.id, e.fingerprint)]
      BY DEF reduce_assessment
    <2>2. reduce_attempt_recorded(G, e) = [G EXCEPT !.attempts = With(G.attempts, t, new)]
      BY DEF reduce_attempt_recorded
    <2> HIDE DEF H, new, t
    <2> QED
      BY <1>1, <2>1, <2>2 DEF AssessmentFields
  <1>3. /\ t \notin DOMAIN G.attempts
        /\ e.payload.presentation \in DOMAIN G.presentations
        /\ \A x \in DOMAIN G.attempts : G.attempts[x].presentation # e.payload.presentation
    BY DEF CanReduceAssessment, CanReduceAttempt, DraftedAssessment
  <1>4. new.presentation = e.payload.presentation
    BY DEF AttemptRecord
  <1> HIDE DEF H, new, t
  <1>5. /\ DOMAIN H.attempts = DOMAIN G.attempts \union {t}
        /\ H.attempts[t] = new
        /\ \A x \in DOMAIN G.attempts : H.attempts[x] = G.attempts[x]
        /\ DOMAIN G.commands \subseteq DOMAIN H.commands
    BY <1>2, <1>3 DEF With
  <1>6. \A q \in DOMAIN H.presentations : ContentSound(H.presentations[q].content)
    BY <1>2 DEF AssessmentsSound
  <1>7. ASSUME NEW x \in DOMAIN H.attempts PROVE AttemptSound(H, x)
    <2>1. \A y \in DOMAIN G.attempts : AttemptSound(G, y)
      BY DEF AssessmentsSound
    <2> QED
      BY <1>2, <1>3, <1>4, <1>5, <2>1 DEF AttemptSound
  <1>8. \A g \in DOMAIN H.grades : GradeSound(H, g, s + 1)
    BY <1>2, <1>5, GradesKept DEF AssessmentsSound
  <1>9. ContestsSound(H, s + 1)
    <2>1. \A n \in 0 .. s : n \in 0 .. s + 1
      OBVIOUS
    <2> QED
      BY <1>2, <2>1 DEF AssessmentsSound, ContestsSound
  <1>10. AssessmentsSound(H, s + 1)
    BY <1>2, <1>6, <1>7, <1>8, <1>9 DEF AssessmentsSound, AssessmentFields
  <1> QED
    BY <1>10 DEF H

\* A contest keeps the assessments sound.
LEMMA ContestKeeps ==
  ASSUME NEW A, NEW G, NEW s \in Nat, AssessmentsSound(G, s),
         NEW e, e.op = "contest", CanReduceAssessment(A, G, e), DraftedAssessment(G, e)
  PROVE  AssessmentsSound(reduce_assessment(G, e, s + 1), s + 1)
  <1> DEFINE H == reduce_assessment(G, e, s + 1)
             K == G.contests
             new == GradeContestRecord(e.payload.grade, s + 1)
  <1>1. AssessmentFields(G)
    BY DEF AssessmentsSound, AssessmentFields
  <1>2. /\ H.presentations = G.presentations /\ H.attempts = G.attempts
        /\ H.grades = G.grades /\ H.contests = Append(K, new)
        /\ H.commands = With(G.commands, e.id, e.fingerprint) /\ AssessmentFields(H)
    <2>1. H = [reduce_grade_contested(G, e, s + 1) EXCEPT
                  !.commands = With(reduce_grade_contested(G, e, s + 1).commands, e.id,
                                    e.fingerprint)]
      BY DEF reduce_assessment
    <2>2. reduce_grade_contested(G, e, s + 1) = [G EXCEPT !.contests = Append(K, new)]
      BY DEF reduce_grade_contested
    <2> HIDE DEF H, new, K
    <2> QED
      BY <1>1, <2>1, <2>2 DEF AssessmentFields, K
  <1>3. e.payload.grade \in DOMAIN G.grades /\ \A i \in DOMAIN K : K[i].grade # e.payload.grade
    BY DEF CanReduceAssessment, CanReduceContest, DraftedAssessment
  <1>4. new.grade = e.payload.grade /\ new.sequence = s + 1
    BY DEF GradeContestRecord
  <1>5. /\ IsList(K)
        /\ \A i \in DOMAIN K : /\ K[i].grade \in DOMAIN G.grades /\ K[i].sequence \in 0 .. s
                               /\ \A j \in DOMAIN K : K[j].grade = K[i].grade => i = j
    BY DEF AssessmentsSound, ContestsSound
  <1> HIDE DEF H, new, K
  <1>6. /\ IsList(H.contests) /\ DOMAIN H.contests = DOMAIN K \union {Len(K) + 1}
        /\ \A i \in DOMAIN K : H.contests[i] = K[i]
        /\ H.contests[Len(K) + 1] = new
        /\ DOMAIN G.commands \subseteq DOMAIN H.commands
    BY <1>2, <1>5, ListAppend DEF With
  <1>7. \A q \in DOMAIN H.presentations : ContentSound(H.presentations[q].content)
    BY <1>2 DEF AssessmentsSound
  <1>8. \A t \in DOMAIN H.attempts : AttemptSound(H, t)
    BY <1>2 DEF AssessmentsSound, AttemptSound
  <1>9. \A g \in DOMAIN H.grades : GradeSound(H, g, s + 1)
    BY <1>2, <1>6, GradesKept DEF AssessmentsSound, K
  <1>10. ContestsSound(H, s + 1)
    <2>1. s + 1 \in 0 .. s + 1 /\ \A n \in 0 .. s : n \in 0 .. s + 1
      OBVIOUS
    <2> QED
      BY <1>2, <1>3, <1>4, <1>5, <1>6, <2>1 DEF ContestsSound
  <1>11. AssessmentsSound(H, s + 1)
    BY <1>2, <1>7, <1>8, <1>9, <1>10 DEF AssessmentsSound, AssessmentFields
  <1> QED
    BY <1>11 DEF H

\* H is G with the grade of event e at sequence n.
Graded(G, H, e, n) ==
    /\ H.presentations = G.presentations /\ H.attempts = G.attempts
    /\ H.contests = G.contests /\ H.commands = With(G.commands, e.id, e.fingerprint)
    /\ DOMAIN H.grades = DOMAIN G.grades \union {e.payload.grade}
    /\ H.grades[e.payload.grade] =
          GradeRecord(e.ctx.session, e.payload.attempt, e.payload.result, e.payload.supersedes, n)
    /\ \A g \in DOMAIN G.grades :
          LET old == G.grades[g]
              new == H.grades[g]
          IN /\ new = [session |-> new.session, attempt |-> new.attempt, result |-> new.result,
                       lifecycle |-> new.lifecycle, supersedes |-> new.supersedes,
                       sequence |-> new.sequence]
             /\ new.session = old.session
             /\ new.attempt = old.attempt /\ new.result = old.result
             /\ new.supersedes = old.supersedes /\ new.sequence = old.sequence
             /\ new.lifecycle = IF g = e.payload.supersedes THEN "superseded" ELSE old.lifecycle
             /\ g # e.payload.supersedes => new = old
    /\ AssessmentFields(H)

\* Reducing a grade adds it and closes the one it supersedes.
LEMMA GradeGrades ==
  ASSUME NEW G, NEW s \in Nat, AssessmentsSound(G, s), NEW e, e.op = "grade",
         e.payload.grade \notin DOMAIN G.grades, NEW n
  PROVE  Graded(G, reduce_assessment(G, e, n), e, n)
  <1> DEFINE H == reduce_assessment(G, e, n)
             id == e.payload.grade
             last == e.payload.supersedes
             record == GradeRecord(e.ctx.session, e.payload.attempt, e.payload.result, last, n)
             after(g) == IF g = last THEN [G.grades[g] EXCEPT !.lifecycle = "superseded"]
                         ELSE G.grades[g]
             grades == [g \in DOMAIN G.grades |-> after(g)]
  <1>1. AssessmentFields(G)
    BY DEF AssessmentsSound, AssessmentFields
  <1>2. /\ H.presentations = G.presentations /\ H.attempts = G.attempts
        /\ H.grades = With(grades, id, record) /\ H.contests = G.contests
        /\ H.commands = With(G.commands, e.id, e.fingerprint) /\ AssessmentFields(H)
    <2>1. H = [reduce_grade_recorded(G, e, n) EXCEPT
                  !.commands = With(reduce_grade_recorded(G, e, n).commands, e.id,
                                    e.fingerprint)]
      BY DEF reduce_assessment
    <2>2. reduce_grade_recorded(G, e, n) = [G EXCEPT !.grades = With(grades, id, record)]
      BY Zenon DEF reduce_grade_recorded
    <2> HIDE DEF H, grades, record, id
    <2> QED
      BY <1>1, <2>1, <2>2 DEF AssessmentFields
  <1>3. ASSUME NEW g \in DOMAIN G.grades
        PROVE  LET old == G.grades[g]
                   new == after(g)
               IN /\ new = [session |-> new.session, attempt |-> new.attempt,
                            result |-> new.result, lifecycle |-> new.lifecycle,
                            supersedes |-> new.supersedes, sequence |-> new.sequence]
                  /\ new.session = old.session
                  /\ new.attempt = old.attempt /\ new.result = old.result
                  /\ new.supersedes = old.supersedes /\ new.sequence = old.sequence
                  /\ new.lifecycle = IF g = last THEN "superseded" ELSE old.lifecycle
                  /\ g # last => new = old
    <2>1. PICK old : old = G.grades[g]
      OBVIOUS
    <2>2. old = [session |-> old.session, attempt |-> old.attempt, result |-> old.result,
                 lifecycle |-> old.lifecycle, supersedes |-> old.supersedes,
                 sequence |-> old.sequence]
      BY <2>1 DEF AssessmentsSound, GradeSound
    <2> QED
      BY <2>1, <2>2
  <1>4. DOMAIN grades = DOMAIN G.grades /\ \A g \in DOMAIN G.grades : grades[g] = after(g)
    OBVIOUS
  <1> HIDE DEF H, grades, record, after
  <1>5. /\ DOMAIN H.grades = DOMAIN G.grades \union {id} /\ H.grades[id] = record
        /\ \A g \in DOMAIN G.grades : H.grades[g] = after(g)
    BY <1>2, <1>4 DEF With
  <1>6. ASSUME NEW g \in DOMAIN G.grades
        PROVE  LET old == G.grades[g]
                   new == H.grades[g]
               IN /\ new = [session |-> new.session, attempt |-> new.attempt,
                            result |-> new.result, lifecycle |-> new.lifecycle,
                            supersedes |-> new.supersedes, sequence |-> new.sequence]
                  /\ new.session = old.session
                  /\ new.attempt = old.attempt /\ new.result = old.result
                  /\ new.supersedes = old.supersedes /\ new.sequence = old.sequence
                  /\ new.lifecycle = IF g = last THEN "superseded" ELSE old.lifecycle
                  /\ g # last => new = old
    <2>1. H.grades[g] = after(g)
      BY <1>5
    <2> QED
      BY <1>3, <2>1
  <1>7. Graded(G, H, e, n)
    BY <1>2, <1>5, <1>6 DEF Graded, record
  <1> QED
    BY <1>7 DEF H

\* So every grade is sound after it, the chain of grades of the attempt
\* included.
LEMMA GradedSound ==
  ASSUME NoneIsNoDigest, NEW A, NEW G, NEW s \in Nat, AssessmentsSound(G, s),
         NEW e, e.op = "grade", CanReduceAssessment(A, G, e), DraftedAssessment(G, e),
         NEW H, Graded(G, H, e, s + 1), NEW g \in DOMAIN H.grades
  PROVE  GradeSound(H, g, s + 1)
  <1> DEFINE Q == DOMAIN G.grades
             id == e.payload.grade
             last == e.payload.supersedes
             mine == e.payload.attempt
             record == H.grades[id]
  <1>1. /\ id = <<"grade", e.ctx.session, e.ctx.key, mine>> /\ id \notin Q
        /\ mine \in DOMAIN G.attempts
        /\ ActiveGrades(G, mine) = IF last = None THEN {} ELSE {last}
        /\ e.id = <<e.ctx.session, e.ctx.key, "grade">>
    BY DEF CanReduceAssessment, CanReduceGrade, NamesPredecessor, grade_id_for, _envelope,
       assessment_event_id_for
  <1>2. \A f \in Q : GradeSound(G, f, s)
    BY DEF AssessmentsSound
  <1>3. None \notin Q
    <2>1. None \in Q => None = <<"grade", None[2], None[3], None[4]>>
      BY <1>2 DEF GradeSound
    <2>2. None # <<"grade", None[2], None[3], None[4]>>
      BY Zenon DEF NoneIsNoDigest
    <2> QED
      BY <2>1, <2>2
  <1>4. ASSUME last # None
        PROVE  last \in Q /\ G.grades[last].attempt = mine /\ G.grades[last].lifecycle = "active"
    BY <1>1, <1>4 DEF ActiveGrades
  <1>5. /\ DOMAIN H.grades = Q \union {id} /\ DOMAIN H.attempts = DOMAIN G.attempts
        /\ \A f \in Q : /\ H.grades[f].attempt = G.grades[f].attempt
                        /\ H.grades[f].result = G.grades[f].result
                        /\ H.grades[f].supersedes = G.grades[f].supersedes
                        /\ H.grades[f].sequence = G.grades[f].sequence
                        /\ H.grades[f].lifecycle =
                              IF f = last THEN "superseded" ELSE G.grades[f].lifecycle
        /\ H.contests = G.contests
    BY DEF Graded
  <1>6. /\ record = [session |-> record.session, attempt |-> record.attempt,
                     result |-> record.result, lifecycle |-> record.lifecycle,
                     supersedes |-> record.supersedes, sequence |-> record.sequence]
        /\ record.attempt = mine /\ record.result = e.payload.result
        /\ record.lifecycle = "active" /\ record.supersedes = last
        /\ record.sequence = s + 1
    <2>1. record = [session |-> e.ctx.session, attempt |-> mine, result |-> e.payload.result,
                    lifecycle |-> "active", supersedes |-> last, sequence |-> s + 1]
      BY DEF Graded, GradeRecord
    <2> QED
      BY <2>1
  <1>7. DOMAIN H.commands = DOMAIN G.commands \union {e.id}
    BY DEF Graded, With
  <1>8. /\ \A i \in DOMAIN G.contests : G.contests[i].sequence \in 0 .. s
        /\ e.payload.result.numerator <= e.payload.result.denominator
        /\ e.payload.result.run # None =>
              /\ \A f \in Q : G.grades[f].result.run # e.payload.result.run
              /\ last # None => \E i \in DOMAIN G.contests : G.contests[i].grade = last
    BY DEF AssessmentsSound, ContestsSound, DraftedAssessment
  <1>9. \A f \in Q : G.grades[f].sequence \in 0 .. s
    BY <1>2 DEF GradeSound
  <1> HIDE DEF record, Q, id, last, mine
  <1>10. ActiveGrades(H, mine) = {id}
    <2>1. \A f \in Q : G.grades[f].attempt = mine /\ G.grades[f].lifecycle = "active" => f = last
      BY <1>1 DEF ActiveGrades, Q
    <2>2. \A f \in Q : H.grades[f].attempt = mine => H.grades[f].lifecycle # "active"
      BY <1>5, <2>1
    <2> QED
      BY <1>1, <1>5, <1>6, <2>2 DEF ActiveGrades, record
  <1>11. ASSUME NEW t, t # mine PROVE ActiveGrades(H, t) = ActiveGrades(G, t)
    <2>1. \A f \in Q : G.grades[f].attempt = t => f # last
      BY <1>3, <1>4, <1>11
    <2> QED
      BY <1>1, <1>5, <1>6, <1>11, <2>1 DEF ActiveGrades, Q, record
  <1>12. CASE g = id
    <2>1. /\ g = <<"grade", g[2], g[3], g[4]>> /\ <<g[2], g[3], "grade">> = e.id
      BY <1>1, <1>12
    <2>2. s + 1 \in 0 .. s + 1 /\ \A k \in 0 .. s : k < s + 1
      OBVIOUS
    <2>3. \A f \in DOMAIN H.grades :
             H.grades[f].result.run = record.result.run /\ record.result.run # None => f = g
      BY <1>5, <1>6, <1>8, <1>12
    <2>4. record.result.run # None /\ record.supersedes # None =>
             \E i \in DOMAIN H.contests : /\ H.contests[i].grade = record.supersedes
                                          /\ H.contests[i].sequence < record.sequence
      BY <1>5, <1>6, <1>8, <2>2
    <2>5. record = H.grades[g]
      BY <1>12 DEF record
    <2> QED
      BY <1>1, <1>5, <1>6, <1>7, <1>8, <1>10, <2>1, <2>2, <2>3, <2>4, <2>5 DEF GradeSound
  <1>13. CASE g \in Q
    <2> DEFINE old == G.grades[g]
               new == H.grades[g]
    <2>1. /\ new = [session |-> new.session, attempt |-> new.attempt, result |-> new.result,
                    lifecycle |-> new.lifecycle, supersedes |-> new.supersedes,
                    sequence |-> new.sequence]
      BY <1>13 DEF Graded, Q
    <2>2. /\ old.attempt \in DOMAIN G.attempts /\ old.lifecycle \in {"active", "superseded"}
          /\ old.result.numerator <= old.result.denominator /\ old.sequence \in 0 .. s
          /\ \E f \in ActiveGrades(G, old.attempt) : ActiveGrades(G, old.attempt) = {f}
          /\ old.lifecycle = "superseded" =>
                \E f \in Q : /\ G.grades[f].attempt = old.attempt
                            /\ G.grades[f].supersedes = g /\ G.grades[f].sequence > old.sequence
          /\ old.result.run # None =>
                /\ \A f \in Q : G.grades[f].result.run = old.result.run => f = g
                /\ old.supersedes # None =>
                      \E i \in DOMAIN G.contests : /\ G.contests[i].grade = old.supersedes
                                                  /\ G.contests[i].sequence < old.sequence
          /\ g = <<"grade", g[2], g[3], g[4]>> /\ <<g[2], g[3], "grade">> \in DOMAIN G.commands
      BY <1>2, <1>13 DEF GradeSound, Q
    <2>3. /\ new.attempt = old.attempt /\ new.result = old.result
          /\ new.supersedes = old.supersedes /\ new.sequence = old.sequence
          /\ new.lifecycle = IF g = last THEN "superseded" ELSE old.lifecycle
      BY <1>5, <1>13
    <2> HIDE DEF old, new
    <2>4. \E f \in ActiveGrades(H, new.attempt) : ActiveGrades(H, new.attempt) = {f}
      BY <1>10, <1>11, <2>2, <2>3
    <2>5. ASSUME new.lifecycle = "superseded"
          PROVE  \E f \in DOMAIN H.grades : /\ H.grades[f].attempt = new.attempt
                                            /\ H.grades[f].supersedes = g
                                            /\ H.grades[f].sequence > new.sequence
      <3>1. CASE g = last
        <4>1. last # None /\ old.attempt = mine
          BY <1>3, <1>4, <1>13, <3>1 DEF old
        <4>2. s + 1 > old.sequence
          BY <2>2
        <4> QED
          BY <1>5, <1>6, <2>3, <3>1, <4>1, <4>2 DEF record
      <3>2. CASE g # last
        BY <1>5, <2>2, <2>3, <2>5, <3>2
      <3> QED
        BY <3>1, <3>2
    <2>6. ASSUME new.result.run # None
          PROVE  /\ \A f \in DOMAIN H.grades : H.grades[f].result.run = new.result.run => f = g
                 /\ new.supersedes # None =>
                       \E i \in DOMAIN H.contests : /\ H.contests[i].grade = new.supersedes
                                                    /\ H.contests[i].sequence < new.sequence
      <3>1. H.grades[id].result.run # new.result.run
        BY <1>6, <1>8, <1>13, <2>3, <2>6 DEF record, old
      <3> QED
        BY <1>5, <2>2, <2>3, <2>6, <3>1
    <2>7. new.sequence \in 0 .. s + 1
      BY <2>2, <2>3
    <2>8. new.lifecycle \in {"active", "superseded"} /\ new.attempt \in DOMAIN H.attempts
          /\ new.result.numerator <= new.result.denominator
          /\ <<g[2], g[3], "grade">> \in DOMAIN H.commands
      BY <1>5, <1>7, <2>2, <2>3
    <2> QED
      BY <2>1, <2>2, <2>4, <2>5, <2>6, <2>7, <2>8 DEF GradeSound, new
  <1> QED
    BY <1>5, <1>12, <1>13

\* A grade keeps the assessments sound.
LEMMA GradeKeeps ==
  ASSUME NoneIsNoDigest, NEW A, NEW G, NEW s \in Nat, AssessmentsSound(G, s),
         NEW e, e.op = "grade", CanReduceAssessment(A, G, e), DraftedAssessment(G, e)
  PROVE  AssessmentsSound(reduce_assessment(G, e, s + 1), s + 1)
  <1> DEFINE H == reduce_assessment(G, e, s + 1)
  <1>1. Graded(G, H, e, s + 1)
    BY GradeGrades DEF CanReduceAssessment, CanReduceGrade
  <1> HIDE DEF H
  <1>2. \A g \in DOMAIN H.grades : GradeSound(H, g, s + 1)
    BY <1>1, GradedSound
  <1>3. \A q \in DOMAIN H.presentations : ContentSound(H.presentations[q].content)
    BY <1>1 DEF Graded, AssessmentsSound
  <1>4. \A t \in DOMAIN H.attempts : AttemptSound(H, t)
    BY <1>1 DEF Graded, AssessmentsSound, AttemptSound
  <1>5. ContestsSound(H, s + 1)
    <2>1. \A n \in 0 .. s : n \in 0 .. s + 1
      OBVIOUS
    <2>2. H.contests = G.contests /\ DOMAIN G.grades \subseteq DOMAIN H.grades
      BY <1>1 DEF Graded
    <2> QED
      BY <2>1, <2>2 DEF AssessmentsSound, ContestsSound
  <1>6. AssessmentsSound(H, s + 1)
    BY <1>1, <1>2, <1>3, <1>4, <1>5 DEF Graded, AssessmentsSound, AssessmentFields
  <1> QED
    BY <1>6 DEF H

\* Every event of the assessments keeps them sound.
LEMMA AssessmentKeeps ==
  ASSUME NoneIsNoDigest, NEW A, ArtifactsSound(A), NEW G, NEW s \in Nat, AssessmentsSound(G, s),
         NEW e, IsAssessmentEvent(e), CanReduceAssessment(A, G, e), DraftedAssessment(G, e)
  PROVE  AssessmentsSound(reduce_assessment(G, e, s + 1), s + 1)
  BY PresentKeeps, AttemptKeeps, GradeKeeps, ContestKeeps DEF IsAssessmentEvent
-----------------------------------------------------------------------------
(* Study context.                                                          *)

ContextFields(C) ==
    C = [statements |-> C.statements, resolutions |-> C.resolutions, commands |-> C.commands]

\* The parts of ContextSound, with the list predicate of this module.
LEMMA ContextParts ==
  ASSUME NEW C
  PROVE  Ctx!ContextSound(C) <=>
           /\ ContextFields(C)
           /\ \A s \in DOMAIN C.statements : Ctx!StatementSound(C, s)
           /\ IsList(C.resolutions)
           /\ \A i \in DOMAIN C.resolutions :
                 /\ C.resolutions[i].kind \in ScalarKinds /\ C.resolutions[i].losers # {}
                 /\ C.resolutions[i].selected \notin C.resolutions[i].losers
           /\ Ctx!LinkageIsSound(C)
  BY DEF Ctx!ContextSound, ContextFields, Ctx!IsList, IsList, Ctx!ToSet, ToSet

\* A recorded statement keeps the context sound.
LEMMA RecordKeeps ==
  ASSUME NEW C, Ctx!ContextSound(C), NEW e, e.op = "record", Ctx!CanReduceContext(C, e)
  PROVE  Ctx!ContextSound(Ctx!reduce_context(C, e))
  <1> DEFINE D == Ctx!reduce_context(C, e)
             id == e.payload.statement
             new == Ctx!StudyContextStatement(e.ctx.session, e.payload.kind, e.payload.value)
  <1>1. D = [[C EXCEPT !.statements = With(C.statements, id, new)] EXCEPT
                !.commands = With(C.commands, e.id, e.fingerprint)]
    <2>1. D = [Ctx!reduce_statement_recorded(C, e) EXCEPT !.commands = With(@, e.id, e.fingerprint)]
      BY DEF Ctx!reduce_context, Ctx!With, With
    <2>2. Ctx!reduce_statement_recorded(C, e) =
             [C EXCEPT !.statements = With(C.statements, id, new)]
      BY DEF Ctx!reduce_statement_recorded, Ctx!With, With
    <2>3. [C EXCEPT !.statements = With(C.statements, id, new)].commands = C.commands
      <3>1. ContextFields(C)
        BY ContextParts
      <3> QED
        BY <3>1 DEF ContextFields
    <2> HIDE DEF D, new, id
    <2> QED
      BY <2>1, <2>2, <2>3
  <1>2. /\ ContextFields(C)
        /\ \A s \in DOMAIN C.statements : Ctx!StatementSound(C, s)
        /\ IsList(C.resolutions)
        /\ \A i \in DOMAIN C.resolutions :
              /\ C.resolutions[i].kind \in ScalarKinds /\ C.resolutions[i].losers # {}
              /\ C.resolutions[i].selected \notin C.resolutions[i].losers
        /\ Ctx!LinkageIsSound(C)
    BY ContextParts
  <1>3. id = <<"statement", e.id>> /\ id \notin DOMAIN C.statements
    BY DEF Ctx!CanReduceContext, Ctx!statement_id_for
  <1>4. /\ new = [session |-> new.session, kind |-> new.kind, value |-> new.value,
                  status |-> new.status]
        /\ new.status = "active"
    BY DEF Ctx!StudyContextStatement
  <1> HIDE DEF D, new, id
  <1>5. /\ D.statements = With(C.statements, id, new) /\ D.resolutions = C.resolutions
        /\ D.commands = With(C.commands, e.id, e.fingerprint) /\ ContextFields(D)
    BY <1>1, <1>2 DEF ContextFields
  <1>6. /\ DOMAIN D.statements = DOMAIN C.statements \union {id} /\ D.statements[id] = new
        /\ \A s \in DOMAIN C.statements : D.statements[s] = C.statements[s]
        /\ DOMAIN D.commands = DOMAIN C.commands \union {e.id}
    BY <1>3, <1>5 DEF With
  <1>7. \A i \in DOMAIN C.resolutions : C.resolutions[i].selected \in DOMAIN C.statements
    BY <1>2 DEF Ctx!LinkageIsSound
  <1>8. ASSUME NEW s \in DOMAIN D.statements PROVE Ctx!StatementSound(D, s)
    <2>1. CASE s = id
      <3>1. s = <<"statement", s[2]>> /\ s[2] = e.id
        BY <1>3, <2>1
      <3> QED
        BY <1>4, <1>6, <2>1, <3>1 DEF Ctx!StatementSound
    <2>2. CASE s \in DOMAIN C.statements
      BY <1>2, <1>5, <1>6, <1>7, <2>2 DEF Ctx!StatementSound
    <2> QED
      BY <1>6, <2>1, <2>2
  <1>9. Ctx!LinkageIsSound(D)
    BY <1>2, <1>5, <1>6 DEF Ctx!LinkageIsSound
  <1>10. Ctx!ContextSound(D)
    BY <1>2, <1>5, <1>8, <1>9, ContextParts
  <1> QED
    BY <1>10 DEF D

\* A retraction keeps the context sound.
LEMMA RetractKeeps ==
  ASSUME NEW C, Ctx!ContextSound(C), NEW e, e.op = "retract", Ctx!CanReduceContext(C, e)
  PROVE  Ctx!ContextSound(Ctx!reduce_context(C, e))
  <1> DEFINE D == Ctx!reduce_context(C, e)
             id == e.payload.statement
             S == [C.statements EXCEPT ![id] = [@ EXCEPT !.status = "retracted"]]
  <1>1. /\ ContextFields(C)
        /\ \A s \in DOMAIN C.statements : Ctx!StatementSound(C, s)
        /\ IsList(C.resolutions)
        /\ \A i \in DOMAIN C.resolutions :
              /\ C.resolutions[i].kind \in ScalarKinds /\ C.resolutions[i].losers # {}
              /\ C.resolutions[i].selected \notin C.resolutions[i].losers
        /\ Ctx!LinkageIsSound(C)
    BY ContextParts
  <1>2. D = [[C EXCEPT !.statements = S] EXCEPT !.commands = With(C.commands, e.id, e.fingerprint)]
    <2>1. D = [Ctx!reduce_statement_retracted(C, e) EXCEPT !.commands = With(@, e.id, e.fingerprint)]
      BY DEF Ctx!reduce_context, Ctx!With, With
    <2>2. Ctx!reduce_statement_retracted(C, e) = [C EXCEPT !.statements = S]
      BY DEF Ctx!reduce_statement_retracted
    <2>3. [C EXCEPT !.statements = S].commands = C.commands
      BY <1>1 DEF ContextFields
    <2> HIDE DEF D, S, id
    <2> QED
      BY <2>1, <2>2, <2>3
  <1>3. id \in DOMAIN C.statements /\ C.statements[id].status = "active"
    BY DEF Ctx!CanReduceContext
  <1>4. /\ DOMAIN S = DOMAIN C.statements
        /\ \A s \in DOMAIN C.statements : s # id => S[s] = C.statements[s]
        /\ S[id] = [C.statements[id] EXCEPT !.status = "retracted"]
    BY <1>3
  <1> HIDE DEF D, S, id
  <1>5. /\ S[id] = [session |-> S[id].session, kind |-> S[id].kind, value |-> S[id].value,
                    status |-> S[id].status]
        /\ S[id].kind = C.statements[id].kind /\ S[id].value = C.statements[id].value
        /\ S[id].status = "retracted"
    <2>1. PICK old : old = C.statements[id]
      OBVIOUS
    <2>2. old = [session |-> old.session, kind |-> old.kind, value |-> old.value,
                 status |-> old.status]
      BY <1>1, <1>3, <2>1 DEF Ctx!StatementSound
    <2> QED
      BY <1>4, <2>1, <2>2
  <1>6. /\ D.statements = S /\ D.resolutions = C.resolutions
        /\ D.commands = With(C.commands, e.id, e.fingerprint) /\ ContextFields(D)
    BY <1>1, <1>2 DEF ContextFields
  <1>7. DOMAIN C.commands \subseteq DOMAIN D.commands
    BY <1>6 DEF With
  <1>8. \A i \in DOMAIN C.resolutions : C.resolutions[i].selected \in DOMAIN C.statements
    BY <1>1 DEF Ctx!LinkageIsSound
  <1>9. \A s \in DOMAIN C.statements : /\ S[s].kind = C.statements[s].kind
                                       /\ S[s].value = C.statements[s].value
    BY <1>4, <1>5
  <1>10. ASSUME NEW s \in DOMAIN D.statements PROVE Ctx!StatementSound(D, s)
    <2>1. s \in DOMAIN C.statements /\ Ctx!StatementSound(C, s)
      BY <1>1, <1>4, <1>6
    <2>2. CASE s = id
      BY <1>5, <1>6, <1>7, <2>1, <2>2 DEF Ctx!StatementSound
    <2>3. CASE s # id
      BY <1>4, <1>6, <1>7, <1>8, <1>9, <2>1, <2>3 DEF Ctx!StatementSound
    <2> QED
      BY <2>2, <2>3
  <1>11. Ctx!LinkageIsSound(D)
    <2>1. \A i \in DOMAIN C.resolutions : id \notin C.resolutions[i].losers
      BY <1>1, <1>3 DEF Ctx!LinkageIsSound
    <2> QED
      BY <1>1, <1>4, <1>6, <1>9, <2>1 DEF Ctx!LinkageIsSound
  <1>12. Ctx!ContextSound(D)
    BY <1>1, <1>6, <1>10, <1>11, ContextParts
  <1> QED
    BY <1>12 DEF D

\* A conflict has statements that lose, whichever is selected.
LEMMA ConflictHasLosers ==
  ASSUME NEW C, NEW kind, Ctx!InConflict(C, kind), NEW selected
  PROVE  Ctx!Losers(C, kind, selected) # {}
  <1> DEFINE values == {C.statements[s].value : s \in Ctx!active(C, kind)}
             v == C.statements[selected].value
  <1>1. Cardinality(values) > 1
    <2>1. Ctx!Cardinality(values) > 1
      BY DEF Ctx!InConflict
    <2>2. Ctx!Cardinality(values) = Cardinality(values)
      BY Zenon DEF Ctx!Cardinality, Cardinality, Ctx!IsFiniteSet, IsFiniteSet
    <2> QED
      BY <2>1, <2>2
  <1>2. ASSUME Ctx!Losers(C, kind, selected) = {} PROVE FALSE
    <2>1. values = {} \/ values = {v}
      BY <1>2 DEF Ctx!Losers
    <2>2. Cardinality({}) = 0 /\ Cardinality({v}) = 1
      BY FS_EmptySet, FS_Singleton
    <2> HIDE DEF values, v
    <2> QED
      BY <1>1, <2>1, <2>2
  <1> QED
    BY <1>2

\* A resolution keeps the context sound.
LEMMA ResolveKeeps ==
  ASSUME NEW C, Ctx!ContextSound(C), NEW e, e.op = "resolve", Ctx!CanReduceContext(C, e)
  PROVE  Ctx!ContextSound(Ctx!reduce_context(C, e))
  <1> DEFINE D == Ctx!reduce_context(C, e)
             lost == e.payload.losers
             chosen == e.payload.selected
             kind == e.payload.kind
             after(s) == IF s \in lost THEN [C.statements[s] EXCEPT !.status = "superseded"]
                         ELSE C.statements[s]
             S == [s \in DOMAIN C.statements |-> after(s)]
             new == Ctx!StudyContextResolution(kind, chosen, lost)
             n == Len(C.resolutions) + 1
  <1>1. /\ ContextFields(C)
        /\ \A s \in DOMAIN C.statements : Ctx!StatementSound(C, s)
        /\ IsList(C.resolutions)
        /\ \A i \in DOMAIN C.resolutions :
              /\ C.resolutions[i].kind \in ScalarKinds /\ C.resolutions[i].losers # {}
              /\ C.resolutions[i].selected \notin C.resolutions[i].losers
        /\ Ctx!LinkageIsSound(C)
    BY ContextParts
  <1>2. D = [[C EXCEPT !.statements = S, !.resolutions = Append(C.resolutions, new)] EXCEPT
                !.commands = With(C.commands, e.id, e.fingerprint)]
    <2>1. D = [Ctx!reduce_conflict_resolved(C, e) EXCEPT !.commands = With(@, e.id, e.fingerprint)]
      BY DEF Ctx!reduce_context, Ctx!With, With
    <2>2. Ctx!reduce_conflict_resolved(C, e) =
             [C EXCEPT !.statements = S, !.resolutions = Append(C.resolutions, new)]
      BY Zenon DEF Ctx!reduce_conflict_resolved
    <2>3. [C EXCEPT !.statements = S, !.resolutions = Append(C.resolutions, new)].commands
          = C.commands
      <3> HIDE DEF S, new
      <3> QED
        BY <1>1 DEF ContextFields
    <2> HIDE DEF D, S, new
    <2> QED
      BY <2>1, <2>2, <2>3
  <1>3. /\ chosen \in DOMAIN C.statements /\ C.statements[chosen].kind = kind
        /\ kind \in ScalarKinds /\ lost # {} /\ chosen \notin lost
        /\ \A s \in lost : /\ s \in DOMAIN C.statements /\ C.statements[s].kind = kind
                           /\ C.statements[s].status = "active"
                           /\ C.statements[s].value # C.statements[chosen].value
    <2>1. /\ chosen \in Ctx!active(C, kind) /\ Ctx!InConflict(C, kind)
          /\ lost = Ctx!Losers(C, kind, chosen)
      BY DEF Ctx!CanReduceContext
    <2>2. lost # {}
      BY <2>1, ConflictHasLosers
    <2> QED
      BY <2>1, <2>2 DEF Ctx!active, Ctx!InConflict, Ctx!Losers
  <1>4. /\ new.kind = kind /\ new.selected = chosen /\ new.losers = lost
    BY DEF Ctx!StudyContextResolution
  <1>5. ASSUME NEW s \in DOMAIN C.statements
        PROVE  /\ S[s] = [session |-> S[s].session, kind |-> S[s].kind, value |-> S[s].value,
                          status |-> S[s].status]
               /\ S[s].kind = C.statements[s].kind /\ S[s].value = C.statements[s].value
               /\ S[s].status = IF s \in lost THEN "superseded" ELSE C.statements[s].status
    <2>1. PICK old : old = C.statements[s]
      OBVIOUS
    <2>2. old = [session |-> old.session, kind |-> old.kind, value |-> old.value,
                 status |-> old.status]
      BY <1>1, <2>1 DEF Ctx!StatementSound
    <2>3. S[s] = IF s \in lost THEN [old EXCEPT !.status = "superseded"] ELSE old
      BY <2>1
    <2> HIDE DEF S
    <2> QED
      BY <2>1, <2>2, <2>3
  <1>6. DOMAIN S = DOMAIN C.statements
    OBVIOUS
  <1> HIDE DEF D, S, after, new, n, lost, chosen, kind
  <1>7. /\ D.statements = S /\ D.resolutions = Append(C.resolutions, new)
        /\ D.commands = With(C.commands, e.id, e.fingerprint) /\ ContextFields(D)
    BY <1>1, <1>2 DEF ContextFields
  <1>8. /\ IsList(D.resolutions) /\ DOMAIN D.resolutions = DOMAIN C.resolutions \union {n}
        /\ D.resolutions[n] = new
        /\ \A i \in DOMAIN C.resolutions : D.resolutions[i] = C.resolutions[i]
        /\ DOMAIN C.commands \subseteq DOMAIN D.commands
    BY <1>1, <1>7, ListAppend DEF With, n
  <1>9. \A i \in DOMAIN C.resolutions : C.resolutions[i].selected \in DOMAIN C.statements
    BY <1>1 DEF Ctx!LinkageIsSound
  <1>10. ASSUME NEW s \in DOMAIN D.statements PROVE Ctx!StatementSound(D, s)
    <2>1. /\ s \in DOMAIN C.statements /\ Ctx!StatementSound(C, s) /\ D.statements[s] = S[s]
      BY <1>1, <1>6, <1>7
    <2>2. S[s].status \in {"active", "retracted", "superseded"}
      BY <1>5, <2>1 DEF Ctx!StatementSound
    <2>3. ASSUME S[s].status = "superseded"
          PROVE  \E i \in DOMAIN D.resolutions :
                    /\ s \in D.resolutions[i].losers
                    /\ S[s].value # D.statements[D.resolutions[i].selected].value
      <3>1. CASE s \in lost
        <4>1. s \in D.resolutions[n].losers /\ D.resolutions[n].selected = chosen
          BY <1>4, <1>8, <3>1
        <4>2. S[s].value # S[chosen].value
          BY <1>3, <1>5, <2>1, <3>1
        <4> QED
          BY <1>7, <1>8, <4>1, <4>2
      <3>2. CASE s \notin lost
        <4>1. C.statements[s].status = "superseded"
          BY <1>5, <2>1, <2>3, <3>2
        <4>2. PICK i \in DOMAIN C.resolutions :
                 /\ s \in C.resolutions[i].losers
                 /\ C.statements[s].value # C.statements[C.resolutions[i].selected].value
          BY <2>1, <4>1 DEF Ctx!StatementSound
        <4>3. S[s].value # S[C.resolutions[i].selected].value
          BY <1>5, <1>9, <2>1, <4>2
        <4> QED
          BY <1>7, <1>8, <4>2, <4>3
      <3> QED
        BY <3>1, <3>2
    <2>4. s = <<"statement", s[2]>> /\ s[2] \in DOMAIN D.commands
      BY <1>8, <2>1 DEF Ctx!StatementSound
    <2> QED
      BY <1>5, <2>1, <2>2, <2>3, <2>4 DEF Ctx!StatementSound
  <1>11. Ctx!LinkageIsSound(D)
    <2>1. ASSUME NEW i \in DOMAIN D.resolutions
          PROVE  LET r == D.resolutions[i] IN
                 /\ r.selected \in DOMAIN S /\ S[r.selected].kind = r.kind
                 /\ \A s \in r.losers : s \in DOMAIN S /\ S[s].kind = r.kind
                                        /\ S[s].status = "superseded"
      <3>1. CASE i = n
        BY <1>3, <1>4, <1>5, <1>6, <1>8, <3>1
      <3>2. CASE i \in DOMAIN C.resolutions
        <4>1. LET r == C.resolutions[i] IN
              /\ r.selected \in DOMAIN C.statements /\ C.statements[r.selected].kind = r.kind
              /\ \A s \in r.losers : /\ s \in DOMAIN C.statements
                                     /\ C.statements[s].kind = r.kind
                                     /\ C.statements[s].status = "superseded"
          BY <1>1, <3>2 DEF Ctx!LinkageIsSound
        <4>2. D.resolutions[i] = C.resolutions[i]
          BY <1>8, <3>2
        <4>3. PICK r : r = C.resolutions[i]
          OBVIOUS
        <4>4. \A s \in r.losers : s \in DOMAIN S /\ S[s].kind = r.kind
                                  /\ S[s].status = "superseded"
          BY <1>5, <1>6, <4>1, <4>3
        <4>5. r.selected \in DOMAIN S /\ S[r.selected].kind = r.kind
          BY <1>5, <1>6, <4>1, <4>3
        <4> QED
          BY <4>2, <4>3, <4>4, <4>5
      <3> QED
        BY <1>8, <3>1, <3>2
    <2> QED
      BY <1>7, <2>1 DEF Ctx!LinkageIsSound
  <1>12. \A i \in DOMAIN D.resolutions :
            /\ D.resolutions[i].kind \in ScalarKinds /\ D.resolutions[i].losers # {}
            /\ D.resolutions[i].selected \notin D.resolutions[i].losers
    BY <1>1, <1>3, <1>4, <1>8
  <1>13. Ctx!ContextSound(D)
    BY <1>7, <1>8, <1>10, <1>11, <1>12, ContextParts
  <1> QED
    BY <1>13 DEF D
-----------------------------------------------------------------------------
(* The course.                                                             *)

\* What the services check beyond the reducers, for any event.
Drafted(P, e) ==
    /\ e.op = "proposal" => DraftedProposals(e)
    /\ e.op = "decision" => DraftedDecision(e)
    /\ IsAssessmentEvent(e) => DraftedAssessment(P.assessments, e)
    /\ e.op \in {"proposal", "decision", "present", "attempt", "grade", "contest",
                 "record", "retract", "resolve"}

\* An event of one part leaves the others.
LEMMA CourseParts ==
  ASSUME NEW P, CourseSound(P), NEW e
  PROVE  /\ P.sequence \in Nat \ {0}
         /\ Reduce(P, e).sequence = P.sequence + 1
         /\ Reduce(P, e).study_artifacts =
               IF IsArtifactEvent(e)
               THEN IF e.op = "proposal" THEN reduce_proposal_batch_recorded(P.study_artifacts, e)
                    ELSE reduce_decision_recorded(P.study_artifacts, e)
               ELSE P.study_artifacts
         /\ Reduce(P, e).assessments =
               IF ~IsArtifactEvent(e) /\ IsAssessmentEvent(e)
               THEN reduce_assessment(P.assessments, e, P.sequence + 1) ELSE P.assessments
         /\ Reduce(P, e).study_context =
               IF IsArtifactEvent(e) \/ IsAssessmentEvent(e) THEN P.study_context
               ELSE Ctx!reduce_context(P.study_context, e)
         /\ LET Q == Reduce(P, e) IN
            Q = [sequence |-> Q.sequence, study_artifacts |-> Q.study_artifacts,
                 assessments |-> Q.assessments, study_context |-> Q.study_context]
  <1>1. /\ P = [sequence |-> P.sequence, study_artifacts |-> P.study_artifacts,
                assessments |-> P.assessments, study_context |-> P.study_context]
        /\ P.sequence \in Nat \ {0}
    BY DEF CourseSound
  <1> DEFINE A == IF e.op = "proposal" THEN reduce_proposal_batch_recorded(P.study_artifacts, e)
                  ELSE reduce_decision_recorded(P.study_artifacts, e)
             G == reduce_assessment(P.assessments, e, P.sequence + 1)
             C == Ctx!reduce_context(P.study_context, e)
  <1>2. Reduce(P, e) =
           IF IsArtifactEvent(e)
           THEN [P EXCEPT !.sequence = P.sequence + 1, !.study_artifacts = A]
           ELSE IF IsAssessmentEvent(e)
           THEN [P EXCEPT !.sequence = P.sequence + 1, !.assessments = G]
           ELSE [P EXCEPT !.sequence = P.sequence + 1, !.study_context = C]
    BY Zenon DEF Reduce
  <1> HIDE DEF A, G, C
  <1>3. CASE IsArtifactEvent(e)
    BY <1>1, <1>2, <1>3 DEF A
  <1>4. CASE ~IsArtifactEvent(e) /\ IsAssessmentEvent(e)
    BY <1>1, <1>2, <1>4 DEF G
  <1>5. CASE ~IsArtifactEvent(e) /\ ~IsAssessmentEvent(e)
    BY <1>1, <1>2, <1>5 DEF C
  <1> QED
    BY <1>3, <1>4, <1>5

\* Assessments that were sound at a sequence are sound later.
LEMMA AssessmentsLater ==
  ASSUME NEW G, NEW s \in Nat, AssessmentsSound(G, s)
  PROVE  AssessmentsSound(G, s + 1)
  <1>1. \A n \in 0 .. s : n \in 0 .. s + 1
    OBVIOUS
  <1>2. \A g \in DOMAIN G.grades : GradeSound(G, g, s + 1)
    BY GradesKept DEF AssessmentsSound
  <1>3. ContestsSound(G, s + 1)
    BY <1>1 DEF AssessmentsSound, ContestsSound
  <1> QED
    BY <1>2, <1>3 DEF AssessmentsSound

\* Every event a service can build and the reducers accept keeps the course
\* sound.
LEMMA ReduceKeeps ==
  ASSUME NoneIsNoDigest, NEW P, CourseSound(P), NEW e, Reducible(P, e), Drafted(P, e)
  PROVE  CourseSound(Reduce(P, e))
  <1> DEFINE Q == Reduce(P, e)
  <1>1. /\ P.sequence \in Nat \ {0} /\ ArtifactsSound(P.study_artifacts)
        /\ AssessmentsSound(P.assessments, P.sequence) /\ Ctx!ContextSound(P.study_context)
    BY DEF CourseSound
  <1>2. P.sequence \in Nat /\ P.sequence + 1 \in Nat \ {0}
    BY <1>1
  <1>3. ArtifactsSound(Q.study_artifacts)
    <2>1. CASE e.op = "proposal"
      BY <1>1, <2>1, CourseParts, ProposalsKeep DEF IsArtifactEvent, Reducible, Drafted
    <2>2. CASE e.op = "decision"
      BY <1>1, <2>2, CourseParts, DecisionKeeps DEF IsArtifactEvent, Reducible, Drafted
    <2>3. CASE ~IsArtifactEvent(e)
      BY <1>1, <2>3, CourseParts
    <2> QED
      BY <2>1, <2>2, <2>3 DEF IsArtifactEvent
  <1>4. AssessmentsSound(Q.assessments, P.sequence + 1)
    <2>1. CASE ~IsArtifactEvent(e) /\ IsAssessmentEvent(e)
      <3>1. CanReduceAssessment(P.study_artifacts, P.assessments, e)
            /\ DraftedAssessment(P.assessments, e)
        BY <2>1 DEF Reducible, Drafted
      <3> QED
        BY <1>1, <1>2, <2>1, <3>1, CourseParts, AssessmentKeeps
    <2>2. CASE ~(~IsArtifactEvent(e) /\ IsAssessmentEvent(e))
      BY <1>1, <1>2, <2>2, CourseParts, AssessmentsLater
    <2> QED
      BY <2>1, <2>2
  <1>5. Ctx!ContextSound(Q.study_context)
    <2>1. CASE ~IsArtifactEvent(e) /\ ~IsAssessmentEvent(e)
      <3>1. Ctx!CanReduceContext(P.study_context, e) /\ e.op \in {"record", "retract", "resolve"}
        BY <2>1 DEF Reducible, Drafted, IsArtifactEvent, IsAssessmentEvent
      <3>2. Ctx!ContextSound(Ctx!reduce_context(P.study_context, e))
        BY <1>1, <3>1, RecordKeeps, RetractKeeps, ResolveKeeps
      <3> QED
        BY <2>1, <3>2, CourseParts
    <2>2. CASE IsArtifactEvent(e) \/ IsAssessmentEvent(e)
      BY <1>1, <2>2, CourseParts
    <2> QED
      BY <2>1, <2>2
  <1>6. Q.sequence = P.sequence + 1
        /\ Q = [sequence |-> Q.sequence, study_artifacts |-> Q.study_artifacts,
                assessments |-> Q.assessments, study_context |-> Q.study_context]
    BY CourseParts
  <1> HIDE DEF Q
  <1>7. CourseSound(Q)
    BY <1>2, <1>3, <1>4, <1>5, <1>6 DEF CourseSound
  <1> QED
    BY <1>7 DEF Q
-----------------------------------------------------------------------------
(* What a sound course promises.                                           *)

\* None is no revision.
LEMMA NoneIsNoRevision ==
  ASSUME NoneIsNoDigest, NEW A, ArtifactsSound(A)
  PROVE  None \notin DOMAIN A.revisions
  <1>1. ASSUME NEW r \in DOMAIN A.revisions PROVE r # None
    <2> DEFINE rev == A.revisions[r]
    <2>1. r = <<rev.artifact_id, rev.content.label, rev.prior>>
      BY DEF ArtifactsSound, RevisionSound, artifact_revision_id_for
    <2>2. None # <<rev.artifact_id, rev.content.label, rev.prior>>
      BY Zenon DEF NoneIsNoDigest
    <2> QED
      BY <2>1, <2>2
  <1> QED
    BY <1>1

\* The head computed from the lineage is the one that is stored.
LEMMA HeadIsCurrent ==
  ASSUME NoneIsNoDigest, NEW A, ArtifactsSound(A), NEW a \in DOMAIN A.artifacts
  PROVE  current_head(A, a) = {A.artifacts[a].current}
  <1> DEFINE ids == A.artifacts[a].revision_ids
             n == Len(ids)
             head == A.artifacts[a].current
  <1>1. /\ IsList(ids) /\ ids # <<>> /\ head = ids[n] /\ ToSet(ids) = history(A, a)
        /\ IsInjective(ids) /\ A.revisions[ids[1]].prior = None
        /\ \A i \in 2 .. n : A.revisions[ids[i]].prior = ids[i - 1]
    BY DEF ArtifactsSound, LineageSound
  <1> HIDE DEF ids, head
  <1>2. n \in Nat /\ n >= 1 /\ DOMAIN ids = 1 .. n
    BY <1>1, ListFacts, EmptySeq DEF IsList
  <1>3. \A r : r \in history(A, a) <=> \E i \in 1 .. n : r = ids[i]
    BY <1>1, <1>2 DEF ToSet
  <1>4. \A i, j \in 1 .. n : ids[i] = ids[j] => i = j
    BY <1>1, <1>2 DEF IsInjective
  <1>5. \A r \in DOMAIN A.revisions : r # None
    BY NoneIsNoRevision
  <1>6. head \in current_head(A, a)
    <2>1. head \in history(A, a)
      BY <1>1, <1>2, <1>3
    <2>2. ASSUME NEW i \in 1 .. n PROVE A.revisions[ids[i]].prior # head
      <3>1. CASE i = 1
        BY <1>1, <1>5, <2>1, <3>1 DEF history
      <3>2. CASE i \in 2 .. n
        <4>1. A.revisions[ids[i]].prior = ids[i - 1] /\ i - 1 \in 1 .. n /\ i - 1 # n
          BY <1>1, <1>2, <3>2
        <4> QED
          BY <1>1, <1>2, <1>4, <4>1
      <3> QED
        BY <1>2, <3>1, <3>2
    <2> QED
      BY <1>3, <2>1, <2>2 DEF current_head
  <1>7. ASSUME NEW r \in current_head(A, a) PROVE r = head
    <2>1. PICK i \in 1 .. n : r = ids[i]
      BY <1>3 DEF current_head
    <2>2. ASSUME i # n PROVE FALSE
      <3>1. i + 1 \in 2 .. n /\ i + 1 \in 1 .. n /\ (i + 1) - 1 = i
        <4>1. n \in Nat /\ i \in 1 .. n /\ i # n
          BY <1>2, <2>1, <2>2
        <4> HIDE DEF n
        <4> QED
          BY <4>1
      <3>2. A.revisions[ids[i + 1]].prior = r /\ ids[i + 1] \in history(A, a)
        BY <1>1, <1>3, <2>1, <3>1
      <3> QED
        BY <3>2 DEF current_head
    <2> QED
      BY <1>1, <2>1, <2>2
  <1> QED
    BY <1>6, <1>7 DEF head

\* A sound course has the lineages the property asks for.
LEMMA SoundLineages ==
  ASSUME NoneIsNoDigest, CourseSound(course)
  PROVE  LineagesAgree
  <1> DEFINE A == course.study_artifacts
  <1>1. ArtifactsSound(A)
    BY DEF CourseSound
  <1>2. \A a \in DOMAIN A.artifacts : current_head(A, a) = {A.artifacts[a].current}
    BY <1>1, HeadIsCurrent
  <1> HIDE DEF A
  <1>3. \A a \in DOMAIN A.artifacts :
           LET ids == A.artifacts[a].revision_ids IN
           /\ ToSet(ids) = history(A, a) /\ IsInjective(ids)
           /\ A.revisions[ids[1]].prior = None
           /\ \A i \in 2 .. Len(ids) : A.revisions[ids[i]].prior = ids[i - 1]
    BY <1>1 DEF ArtifactsSound, LineageSound
  <1> QED
    BY <1>2, <1>3 DEF LineagesAgree, A

\* A sound course has one accepted revision per artifact at most.
LEMMA SoundDecisions ==
  ASSUME NoneIsNoDigest, CourseSound(course)
  PROVE  OneAccepted
  <1> DEFINE A == course.study_artifacts
             D == A.decisions
             naming(r) == {i \in DOMAIN D : D[i].supersedes = r}
             status(r) == A.revisions[r].status
  <1>1. ArtifactsSound(A)
    BY DEF CourseSound
  <1>2. /\ \A i \in DOMAIN D :
              D[i].supersedes # None =>
                 /\ status(D[i].supersedes) = "superseded"
                 /\ \A j \in DOMAIN D : D[j].supersedes = D[i].supersedes => i = j
        /\ \A r \in DOMAIN A.revisions :
              status(r) = "superseded" => \E i \in DOMAIN D : D[i].supersedes = r
    BY <1>1 DEF ArtifactsSound, DecisionsSound
  <1>3. \A r \in DOMAIN A.revisions : r # None
    BY <1>1, NoneIsNoRevision
  <1>4. ASSUME NEW a \in DOMAIN A.artifacts
        PROVE  Cardinality(_current_accepted(A, a)) <= 1
    <2>1. _current_accepted(A, a) = {} \/ _current_accepted(A, a) = {AcceptedOrNone(A, a)}
      BY <1>1, TheAccepted
    <2>2. Cardinality({}) = 0 /\ Cardinality({AcceptedOrNone(A, a)}) = 1
      BY FS_EmptySet, FS_Singleton
    <2> HIDE DEF A
    <2> QED
      BY <2>1, <2>2
  <1>5. ASSUME NEW r \in DOMAIN A.revisions
        PROVE  Cardinality(naming(r)) = IF status(r) = "superseded" THEN 1 ELSE 0
    <2>1. CASE status(r) = "superseded"
      <3>1. PICK i \in DOMAIN D : D[i].supersedes = r
        BY <1>2, <2>1
      <3>2. naming(r) = {i}
        BY <1>2, <1>3, <3>1
      <3>3. Cardinality({i}) = 1
        BY FS_Singleton
      <3> QED
        BY <2>1, <3>2, <3>3
    <2>2. CASE status(r) # "superseded"
      <3>1. naming(r) = {}
        BY <1>2, <1>3, <2>2
      <3> QED
        BY <2>2, <3>1, FS_EmptySet
    <2> QED
      BY <2>1, <2>2
  <1> QED
    BY <1>4, <1>5, Zenon DEF OneAccepted

\* A sound course keeps the rules of assessments and the chains of grades.
LEMMA SoundAssessments ==
  ASSUME CourseSound(course)
  PROVE  AssessmentRules /\ GradesChain
  <1> DEFINE G == course.assessments
  <1>1. /\ \A t \in DOMAIN G.attempts : AttemptSound(G, t)
        /\ \A g \in DOMAIN G.grades : GradeSound(G, g, course.sequence)
        /\ ContestsSound(G, course.sequence)
    BY DEF CourseSound, AssessmentsSound
  <1> HIDE DEF G
  <1>2. AssessmentRules
    <2>1. \A s, t \in DOMAIN G.attempts :
             G.attempts[s].presentation = G.attempts[t].presentation => s = t
      BY <1>1 DEF AttemptSound
    <2>2. \A f, g \in DOMAIN G.grades :
             G.grades[f].result.run = G.grades[g].result.run /\ G.grades[f].result.run # None
             => f = g
      BY <1>1 DEF GradeSound
    <2>3. \A i, j \in DOMAIN G.contests : G.contests[i].grade = G.contests[j].grade => i = j
      BY <1>1 DEF ContestsSound
    <2>4. \A g \in DOMAIN G.grades :
             G.grades[g].result.run # None /\ G.grades[g].supersedes # None =>
                \E i \in DOMAIN G.contests : /\ G.contests[i].grade = G.grades[g].supersedes
                                             /\ G.contests[i].sequence < G.grades[g].sequence
      BY <1>1 DEF GradeSound
    <2> QED
      BY <2>1, <2>2, <2>3, <2>4 DEF AssessmentRules, G
  <1>3. GradesChain
    <2>1. ASSUME NEW t \in DOMAIN G.attempts, NEW g \in DOMAIN G.grades,
                 G.grades[g].attempt = t
          PROVE  Cardinality(ActiveGrades(G, t)) = 1
      <3>1. PICK f : ActiveGrades(G, t) = {f}
        BY <1>1, <2>1 DEF GradeSound
      <3> QED
        BY <3>1, FS_Singleton
    <2>2. ASSUME NEW t \in DOMAIN G.attempts, NEW g \in DOMAIN G.grades,
                 G.grades[g].attempt = t, G.grades[g].lifecycle = "superseded"
          PROVE  \E f \in {x \in DOMAIN G.grades : G.grades[x].attempt = t} :
                    G.grades[f].supersedes = g /\ G.grades[f].sequence > G.grades[g].sequence
      BY <1>1, <2>2 DEF GradeSound
    <2> QED
      BY <2>1, <2>2 DEF GradesChain, G
  <1> QED
    BY <1>2, <1>3

\* A sound course has a readable context.
LEMMA SoundContext ==
  ASSUME CourseSound(course)
  PROVE  ContextReadable /\ Ctx!ReadableContext(course.study_context)
  <1> DEFINE C == course.study_context
  <1>1. Ctx!ContextSound(C)
    BY DEF CourseSound
  <1> HIDE DEF C
  <1>2. /\ \A s \in DOMAIN C.statements : Ctx!StatementSound(C, s)
        /\ \A i \in DOMAIN C.resolutions :
              /\ C.resolutions[i].kind \in ScalarKinds /\ C.resolutions[i].losers # {}
              /\ C.resolutions[i].selected \notin C.resolutions[i].losers
        /\ Ctx!LinkageIsSound(C)
    BY <1>1, ContextParts
  <1>3. \A s \in DOMAIN C.statements :
           /\ C.statements[s].status \in {"active", "retracted", "superseded"}
           /\ C.statements[s].status = "superseded" =>
                 \E i \in DOMAIN C.resolutions :
                    /\ s \in C.resolutions[i].losers
                    /\ C.statements[s].value # C.statements[C.resolutions[i].selected].value
    BY <1>2 DEF Ctx!StatementSound
  <1>4. Ctx!ReadableContext(C)
    BY <1>2, <1>3 DEF Ctx!ReadableContext
  <1> QED
    BY <1>2, <1>3, <1>4 DEF ContextReadable, C
-----------------------------------------------------------------------------
(* What the services build from a snapshot.                                *)

\* What _prepare makes of each proposal.
LEMMA PreparedFields ==
  ASSUME NEW A, NEW batch, NEW proposals, IsList(proposals),
         NEW prepared \in _prepare(A, batch, proposals)
  PROVE  /\ Len(prepared) = Len(proposals) /\ Len(prepared) \in Nat
         /\ prepared = [i \in 1 .. Len(prepared) |-> prepared[i]]
         /\ DOMAIN prepared = DOMAIN proposals
         /\ \A i \in DOMAIN proposals :
               LET item == proposals[i]
                   p    == prepared[i]
               IN /\ Preparable(A, batch, proposals, i)
                  /\ p.artifact_id = ProposedArtifact(batch, proposals, i)
                  /\ p.revision_id =
                        artifact_revision_id_for(p.artifact_id, item.content, item.prior)
                  /\ p.content = item.content /\ p.cites = item.cites /\ p.prior = item.prior
                  /\ p.parent = PreparedParent(A, batch, proposals, i)
  <1> DEFINE one(i) == [artifact_id |-> ProposedArtifact(batch, proposals, i),
                        revision_id |-> artifact_revision_id_for(
                                           ProposedArtifact(batch, proposals, i),
                                           proposals[i].content, proposals[i].prior),
                        content |-> proposals[i].content, cites |-> proposals[i].cites,
                        prior |-> proposals[i].prior,
                        parent |-> PreparedParent(A, batch, proposals, i)]
             n == Len(proposals)
  <1>1. prepared = [i \in DOMAIN proposals |-> one(i)]
        /\ \A i \in DOMAIN proposals : Preparable(A, batch, proposals, i)
    BY Zenon DEF _prepare
  <1>2. n \in Nat /\ DOMAIN proposals = 1 .. n
    BY ListFacts
  <1> HIDE DEF one, n
  <1>3. prepared = [i \in 1 .. n |-> prepared[i]] /\ DOMAIN prepared = 1 .. n
        /\ \A i \in 1 .. n : prepared[i] = one(i)
    BY <1>1, <1>2
  <1>4. Len(prepared) = n
    BY <1>2, <1>3, ListOf
  <1>5. ASSUME NEW i \in 1 .. n
        PROVE  LET item == proposals[i]
                   p    == prepared[i]
               IN /\ p.artifact_id = ProposedArtifact(batch, proposals, i)
                  /\ p.revision_id =
                        artifact_revision_id_for(p.artifact_id, item.content, item.prior)
                  /\ p.content = item.content /\ p.cites = item.cites /\ p.prior = item.prior
                  /\ p.parent = PreparedParent(A, batch, proposals, i)
    <2>1. prepared[i] = one(i)
      BY <1>3
    <2> QED
      BY <2>1 DEF one
  <1>6. Len(prepared) = Len(proposals) /\ Len(prepared) \in Nat
    BY <1>2, <1>4 DEF n
  <1>7. prepared = [i \in 1 .. Len(prepared) |-> prepared[i]] /\ DOMAIN prepared = DOMAIN proposals
    BY <1>2, <1>3, <1>4
  <1>8. \A i \in DOMAIN proposals : i \in 1 .. n /\ Preparable(A, batch, proposals, i)
    BY <1>1, <1>2
  <1> QED
    BY <1>5, <1>6, <1>7, <1>8

\* The fields every event of a command has.
IsEventOf(e, cmd, op) ==
    /\ e.op = op /\ e.id = <<cmd.ctx.session, cmd.ctx.key, op>> /\ e.ctx = cmd.ctx
    /\ e.fingerprint = cmd.fingerprint

\* The fields of an event of proposals.
LEMMA ProposalFields ==
  ASSUME NEW cmd, NEW batch, NEW origin, NEW proposals, NEW actor,
         NEW e, e = ProposalEvent(cmd, batch, origin, proposals, actor, cmd.fingerprint)
  PROVE  /\ IsEventOf(e, cmd, "proposal") /\ e.actor = actor /\ e.batch = batch
         /\ e.origin = origin /\ e.proposals = proposals
  BY DEF ProposalEvent, IsEventOf, artifact_event_id_for

\* record_generated builds proposals of the run.
LEMMA GeneratedDrafts ==
  ASSUME NEW A, NEW cmd, cmd.run \in Runs, NEW e \in record_generated(A, cmd)
  PROVE  IsEventOf(e, cmd, "proposal") /\ DraftedProposals(e)
  <1> DEFINE batch == artifact_batch_id_for(cmd.ctx.session, cmd.run, cmd.ctx.key)
             origin == Provenance("generated", cmd.run)
             candidates == CandidatesOf[cmd.run]
             number(i) == (CHOOSE j \in DOMAIN candidates :
                              candidates[j].key = candidates[i].parent_key) - 1
             content(i) == [candidates[i].content EXCEPT !.parent =
                               IF candidates[i].parent_key = None THEN None ELSE number(i)]
             one(i) == [content |-> content(i), cites |-> candidates[i].cites,
                        target |-> None, prior |-> None]
  <1>1. PICK proposals \in recover(cmd.run, cmd.ctx) : \E prepared \in _prepare(A, batch, proposals) :
           e = ProposalEvent(cmd, batch, origin, prepared, "service", cmd.fingerprint)
    BY DEF record_generated
  <1>a. PICK prepared \in _prepare(A, batch, proposals) :
           e = ProposalEvent(cmd, batch, origin, prepared, "service", cmd.fingerprint)
    BY <1>1
  <1>2. proposals = [i \in DOMAIN candidates |-> one(i)]
    <2>1. proposals \in _lesson_proposals(candidates)
      BY DEF recover
    <2> QED
      BY <2>1, Zenon DEF _lesson_proposals
  <1>3. /\ IsEventOf(e, cmd, "proposal") /\ e.origin = origin /\ e.proposals = prepared
    BY <1>a, ProposalFields
  <1>4. IsList(candidates) /\ Len(candidates) \in Nat /\ DOMAIN candidates = 1 .. Len(candidates)
    BY OutputsAssumption, ListFacts
  <1>5. \A i \in DOMAIN candidates : ContentSound(content(i))
    <2>1. ASSUME NEW i \in DOMAIN candidates
          PROVE  /\ {"parent", "expected", "criteria"} \subseteq DOMAIN candidates[i].content
                 /\ ContentSound(candidates[i].content)
      <3>1. candidates[i].content \in {CandidatesOf[cmd.run][j].content :
                                      j \in DOMAIN CandidatesOf[cmd.run]}
        OBVIOUS
      <3>2. candidates[i].content \in UNION {{CandidatesOf[r][j].content :
                                             j \in DOMAIN CandidatesOf[r]} : r \in Runs}
        BY <3>1
      <3> HIDE DEF candidates
      <3> QED
        BY <3>2, ContentsAssumption
    <2>2. ASSUME NEW old, NEW parent, {"parent", "expected", "criteria"} \subseteq DOMAIN old,
                 ContentSound(old)
          PROVE  ContentSound([old EXCEPT !.parent = parent])
      <3>1. /\ [old EXCEPT !.parent = parent].expected = old.expected
            /\ [old EXCEPT !.parent = parent].criteria = old.criteria
        BY <2>2
      <3> QED
        BY <2>2, <3>1 DEF ContentSound
    <2> QED
      BY <2>1, <2>2
  <1> HIDE DEF candidates, number, content, batch
  <1>6. /\ DOMAIN proposals = 1 .. Len(candidates) /\ IsList(proposals)
        /\ \A i \in DOMAIN proposals : ContentSound(proposals[i].content)
    <2>1. proposals = [i \in 1 .. Len(candidates) |-> proposals[i]]
      BY <1>2, <1>4
    <2>2. \A i \in DOMAIN proposals : proposals[i].content = content(i)
      BY <1>2
    <2> QED
      BY <1>2, <1>4, <1>5, <2>1, <2>2, ListOf
  <1>7. DraftedProposals(e)
    <2>1. /\ Len(prepared) \in Nat /\ prepared = [i \in 1 .. Len(prepared) |-> prepared[i]]
          /\ \A i \in DOMAIN prepared : ContentSound(prepared[i].content)
      BY <1>6, PreparedFields
    <2>2. origin.kind = "generated" /\ origin.from = cmd.run
      BY DEF Provenance
    <2> HIDE DEF origin
    <2> QED
      BY <1>3, <2>1, <2>2 DEF DraftedProposals
  <1> QED
    BY <1>3, <1>7

\* record_human_revision builds one proposal of a human interaction.
LEMMA HumanDrafts ==
  ASSUME NEW A, NEW cmd, cmd.interaction \in Interactions, cmd.proposal.content \in HumanContents,
         NEW e \in record_human_revision(A, cmd)
  PROVE  LET batch == artifact_batch_id_for(cmd.ctx.session, cmd.interaction, cmd.ctx.key)
             p == e.proposals[1]
         IN /\ IsEventOf(e, cmd, "proposal") /\ DraftedProposals(e)
            /\ e.origin.kind = "human_authored" /\ e.origin.from = cmd.interaction
            /\ e.actor = "human" /\ e.batch = batch
            /\ InteractionOf[cmd.interaction] = [session |-> cmd.ctx.session, kind |-> "human"]
            /\ cmd.proposal.cites \subseteq Chunks
            /\ Len(e.proposals) = 1 /\ DOMAIN e.proposals = {1}
            /\ Preparable(A, batch, <<cmd.proposal>>, 1)
            /\ p.artifact_id = ProposedArtifact(batch, <<cmd.proposal>>, 1)
            /\ p.revision_id = artifact_revision_id_for(p.artifact_id, cmd.proposal.content,
                                                        cmd.proposal.prior)
            /\ p.content = cmd.proposal.content /\ p.cites = cmd.proposal.cites
            /\ p.prior = cmd.proposal.prior
            /\ p.parent = PreparedParent(A, batch, <<cmd.proposal>>, 1)
  <1> DEFINE batch == artifact_batch_id_for(cmd.ctx.session, cmd.interaction, cmd.ctx.key)
             origin == Provenance("human_authored", cmd.interaction)
             proposals == <<cmd.proposal>>
  <1>1. PICK prepared \in _prepare(A, batch, proposals) :
           /\ e = ProposalEvent(cmd, batch, origin, prepared, "human", cmd.fingerprint)
           /\ InteractionOf[cmd.interaction] = [session |-> cmd.ctx.session, kind |-> "human"]
           /\ cmd.proposal.cites \subseteq Chunks
    BY DEF record_human_revision
  <1>2. /\ IsEventOf(e, cmd, "proposal") /\ e.origin = origin /\ e.proposals = prepared
        /\ e.actor = "human" /\ e.batch = batch
    BY <1>1, ProposalFields
  <1>3. /\ IsList(proposals) /\ Len(proposals) = 1 /\ DOMAIN proposals = {1}
        /\ proposals[1] = cmd.proposal
    <2>1. proposals \in Seq({cmd.proposal}) /\ Len(proposals) = 1 /\ DOMAIN proposals = {1}
          /\ proposals[1] = cmd.proposal
      OBVIOUS
    <2> QED
      BY <2>1, SeqIsList
  <1>4. ContentSound(cmd.proposal.content)
    BY ContentsAssumption
  <1>5. origin.kind = "human_authored" /\ origin.from = cmd.interaction
    BY DEF Provenance
  <1> HIDE DEF proposals, batch, origin
  <1>6. /\ Len(prepared) = 1 /\ DOMAIN prepared = {1}
        /\ prepared = [i \in 1 .. Len(prepared) |-> prepared[i]]
        /\ Preparable(A, batch, proposals, 1)
        /\ prepared[1].artifact_id = ProposedArtifact(batch, proposals, 1)
        /\ prepared[1].revision_id =
              artifact_revision_id_for(prepared[1].artifact_id, cmd.proposal.content,
                                       cmd.proposal.prior)
        /\ prepared[1].content = cmd.proposal.content /\ prepared[1].cites = cmd.proposal.cites
        /\ prepared[1].prior = cmd.proposal.prior
        /\ prepared[1].parent = PreparedParent(A, batch, proposals, 1)
    BY <1>3, PreparedFields
  <1>7. DraftedProposals(e)
    <2>1. e.proposals = [i \in 1 .. Len(e.proposals) |-> e.proposals[i]] /\ Len(e.proposals) \in Nat
      BY <1>2, <1>6
    <2>2. \A i \in DOMAIN e.proposals : ContentSound(e.proposals[i].content)
      BY <1>2, <1>4, <1>6
    <2>3. e.origin.from \in IF e.origin.kind = "generated" THEN Runs ELSE Interactions
      BY <1>2, <1>5
    <2> QED
      BY <2>1, <2>2, <2>3 DEF DraftedProposals
  <1> QED
    BY <1>1, <1>2, <1>5, <1>6, <1>7 DEF proposals, batch

\* The reducer accepts a human revision built from the course it is appended
\* to.
LEMMA HumanReducible ==
  ASSUME NoneIsNoDigest, NEW A, ArtifactsSound(A), NEW cmd, cmd.interaction \in Interactions,
         cmd.proposal.content \in HumanContents, cmd.proposal.content.parent = None,
         NEW e \in record_human_revision(A, cmd), e.id \notin DOMAIN A.commands
  PROVE  CanReduceProposals(A, e)
  <1> DEFINE batch == artifact_batch_id_for(cmd.ctx.session, cmd.interaction, cmd.ctx.key)
             item == cmd.proposal
             a == ProposedArtifact(batch, <<item>>, 1)
             p == e.proposals[1]
  <1>1. /\ IsEventOf(e, cmd, "proposal") /\ e.origin.kind = "human_authored"
        /\ e.origin.from = cmd.interaction /\ e.actor = "human" /\ e.batch = batch
        /\ InteractionOf[cmd.interaction] = [session |-> cmd.ctx.session, kind |-> "human"]
        /\ item.cites \subseteq Chunks
        /\ Len(e.proposals) = 1 /\ DOMAIN e.proposals = {1}
        /\ Preparable(A, batch, <<item>>, 1)
        /\ p.artifact_id = a
        /\ p.revision_id = artifact_revision_id_for(a, item.content, item.prior)
        /\ p.content = item.content /\ p.cites = item.cites /\ p.prior = item.prior
        /\ p.parent = PreparedParent(A, batch, <<item>>, 1)
    BY HumanDrafts
  <1>2. <<item>>[1] = item
    OBVIOUS
  <1>3. a = IF item.target # None THEN item.target ELSE <<batch, 0>>
    BY <1>2 DEF ProposedArtifact, artifact_id_for
  <1>4. batch = <<cmd.ctx.session, cmd.interaction, cmd.ctx.key>>
    BY DEF artifact_batch_id_for
  <1>5. batch \notin DOMAIN A.batches
    <2>1. ASSUME batch \in DOMAIN A.batches PROVE e.id \in DOMAIN A.commands
      <3>1. <<batch[1], batch[3], "proposal">> \in DOMAIN A.commands
        BY <2>1 DEF ArtifactsSound, BatchSound
      <3> QED
        BY <1>1, <1>4, <3>1 DEF IsEventOf
    <2> QED
      BY <2>1
  <1> HIDE DEF a, p, batch, item
  <1>6. CASE item.target = None
    <2>1. a = <<batch, 0>> /\ item.prior = None
      BY <1>1, <1>2, <1>3, <1>6 DEF Preparable
    <2>2. a \notin DOMAIN A.artifacts
      BY <1>5, <2>1 DEF ArtifactsSound, LineageSound
    <2>3. p.revision_id \notin DOMAIN A.revisions
      <3>1. ASSUME p.revision_id \in DOMAIN A.revisions PROVE FALSE
        <4>1. RevisionSound(A, p.revision_id)
          BY <3>1 DEF ArtifactsSound
        <4>2. A.revisions[p.revision_id].artifact_id = a
          BY <1>1, <4>1 DEF RevisionSound, artifact_revision_id_for
        <4> QED
          BY <2>2, <4>1, <4>2 DEF RevisionSound, ReadableRevision
      <3> QED
        BY <3>1
    <2>4. p.parent = None
      BY <1>1, <1>2, <1>6 DEF PreparedParent, ResolvedParent, item
    <2>5. ReducibleProposal(A, e, 1)
      <3>1. p.content.parent = None
        BY <1>1 DEF item
      <3> QED
        BY <1>1, <2>1, <2>2, <2>3, <2>4, <3>1 DEF ReducibleProposal, p
    <2>6. decode_proposal_batch_recorded(e)
      <3>1. e.id = artifact_event_id_for(e.ctx, "proposal")
        BY <1>1 DEF IsEventOf, artifact_event_id_for
      <3>2. e.batch = artifact_batch_id_for(e.ctx.session, e.origin.from, e.ctx.key)
        BY <1>1 DEF IsEventOf, batch
      <3>3. p.prior = None => p.artifact_id = artifact_id_for(e.batch, 1 - 1)
        BY <1>1, <2>1 DEF artifact_id_for
      <3>4. p.revision_id = artifact_revision_id_for(p.artifact_id, p.content, p.prior)
        BY <1>1
      <3> QED
        BY <1>1, <3>1, <3>2, <3>3, <3>4 DEF decode_proposal_batch_recorded, p
    <2>7. CanonicalOrigin(e)
      BY <1>1 DEF CanonicalOrigin, IsEventOf, p
    <2> QED
      BY <1>1, <1>5, <2>5, <2>6, <2>7 DEF CanReduceProposals
  <1>7. CASE item.target # None
    <2>1. PICK head \in current_head(A, item.target) :
             /\ current_head(A, item.target) = {head}
             /\ A.revisions[head].content.kind = item.content.kind /\ item.prior = head
      BY <1>1, <1>2, <1>7 DEF Preparable
    <2>2. /\ a = item.target /\ head \in history(A, a) /\ head \in DOMAIN A.revisions
          /\ A.revisions[head].artifact_id = a
      BY <1>3, <1>7, <2>1 DEF current_head, history
    <2>3. a \in DOMAIN A.artifacts
      BY <2>2 DEF ArtifactsSound, RevisionSound, ReadableRevision
    <2>4. head = A.artifacts[a].current /\ head # None
      BY <2>1, <2>2, <2>3, HeadIsCurrent, NoneIsNoRevision
    <2>5. /\ A.revisions[head].content.kind = A.artifacts[a].kind
          /\ A.revisions[head].parent = A.artifacts[a].parent
      BY <2>2, <2>3 DEF ArtifactsSound, LineageSound
    <2>6. p.parent = A.revisions[head].parent
      <3>1. p.parent = A.revisions[CHOOSE r \in current_head(A, item.target) : TRUE].parent
        BY <1>1, <1>2, <1>7 DEF PreparedParent
      <3>2. (CHOOSE r \in current_head(A, item.target) : TRUE) = head
        BY <2>1
      <3> QED
        BY <3>1, <3>2
    <2>7. p.revision_id \notin DOMAIN A.revisions
      <3>1. ASSUME p.revision_id \in DOMAIN A.revisions PROVE FALSE
        <4>1. RevisionSound(A, p.revision_id)
          BY <3>1 DEF ArtifactsSound
        <4>2. /\ A.revisions[p.revision_id].artifact_id = a
              /\ A.revisions[p.revision_id].prior = head
          BY <1>1, <2>1, <4>1 DEF RevisionSound, artifact_revision_id_for
        <4>3. p.revision_id \in history(A, a)
          BY <3>1, <4>2 DEF history
        <4> QED
          BY <2>1, <2>2, <4>2, <4>3 DEF current_head
      <3> QED
        BY <3>1
    <2>8. ReducibleProposal(A, e, 1)
      <3>1. p.content.parent = None
        BY <1>1 DEF item
      <3> QED
        BY <1>1, <2>1, <2>3, <2>4, <2>5, <2>6, <2>7, <3>1 DEF ReducibleProposal, p
    <2>9. decode_proposal_batch_recorded(e)
      <3>1. e.id = artifact_event_id_for(e.ctx, "proposal")
        BY <1>1 DEF IsEventOf, artifact_event_id_for
      <3>2. e.batch = artifact_batch_id_for(e.ctx.session, e.origin.from, e.ctx.key)
        BY <1>1 DEF IsEventOf, batch
      <3>3. p.prior # None
        BY <1>1, <2>1, <2>4
      <3>4. p.revision_id = artifact_revision_id_for(p.artifact_id, p.content, p.prior)
        BY <1>1
      <3> QED
        BY <1>1, <3>1, <3>2, <3>3, <3>4 DEF decode_proposal_batch_recorded, p
    <2>10. CanonicalOrigin(e)
      BY <1>1 DEF CanonicalOrigin, IsEventOf, p
    <2> QED
      BY <1>1, <1>5, <2>8, <2>9, <2>10 DEF CanReduceProposals
  <1> QED
    BY <1>6, <1>7

\* A decision built from the course it is appended to is accepted.
LEMMA DecisionDrafts ==
  ASSUME NEW A, NEW cmd, NEW decision \in {"accept", "reject"}, NEW supersedes, NEW receipt,
         \/ receipt = None
         \/ /\ receipt.request = artifact_event_id_for(cmd.ctx, "decision")
            /\ receipt.decision = decision /\ receipt.supersedes = supersedes
            /\ receipt.current = AcceptedOrNone(A, A.revisions[cmd.revision].artifact_id),
         NEW e \in _record_decision(A, cmd, decision, supersedes, receipt)
  PROVE  /\ IsEventOf(e, cmd, "decision") /\ DraftedDecision(e)
         /\ e.id \notin DOMAIN A.commands => CanReduceDecision(A, e)
  <1>1. /\ e = DecisionEvent(cmd, decision, supersedes, receipt)
        /\ Decidable(A, cmd.revision, cmd.ctx.session)
        /\ supersedes = IF decision = "reject" THEN None
                        ELSE AcceptedOrNone(A, A.revisions[cmd.revision].artifact_id)
    BY DEF _record_decision
  <1>2. /\ e.op = "decision" /\ e.id = artifact_event_id_for(cmd.ctx, "decision")
        /\ e.ctx = cmd.ctx /\ e.fingerprint = cmd.fingerprint
        /\ e.actor = (IF receipt = None THEN "human" ELSE "service")
        /\ e.revision = cmd.revision /\ e.decision = decision /\ e.supersedes = supersedes
        /\ e.receipt = receipt
    BY <1>1 DEF DecisionEvent
  <1>3. decode_decision_recorded(e)
    <2>1. (e.actor = "human") = (e.receipt = None)
      BY <1>2
    <2> QED
      BY <1>1, <1>2, <2>1 DEF decode_decision_recorded
  <1> QED
    BY <1>1, <1>2, <1>3
    DEF IsEventOf, artifact_event_id_for, DraftedDecision, CanReduceDecision

\* The fields of an event of assessments.
LEMMA AssessmentEventFields ==
  ASSUME NEW cmd, NEW op, NEW actor, NEW payload,
         NEW e, e = AssessmentEvent(cmd, op, actor, payload)
  PROVE  IsEventOf(e, cmd, op) /\ e.actor = actor /\ e.payload = payload
  BY DEF AssessmentEvent, IsEventOf, assessment_event_id_for

\* present_item builds an event of its command.
LEMMA PresentDrafts ==
  ASSUME NEW A, NEW G, NEW cmd, NEW e \in present_item(A, cmd)
  PROVE  IsEventOf(e, cmd, "present") /\ DraftedAssessment(G, e)
  <1>1. PICK r : e = AssessmentEvent(cmd, "present", "service",
                        [presentation |-> presentation_id_for(cmd.ctx, r), revision |-> r,
                         content |-> A.revisions[r].content])
    BY DEF present_item
  <1> QED
    BY <1>1, AssessmentEventFields DEF IsEventOf, DraftedAssessment

\* record_attempt builds an event of its command.
LEMMA AttemptDrafts ==
  ASSUME NEW G, NEW cmd, NEW e \in record_attempt(G, cmd)
  PROVE  IsEventOf(e, cmd, "attempt") /\ DraftedAssessment(G, e)
  <1>1. PICK p : /\ e = AssessmentEvent(cmd, "attempt", "human",
                           [attempt |-> attempt_id_for(cmd.ctx, p), presentation |-> p,
                            response |-> cmd.response])
                 /\ \A t \in DOMAIN G.attempts : G.attempts[t].presentation # p
    BY DEF record_attempt
  <1>2. e.payload = [attempt |-> attempt_id_for(cmd.ctx, p), presentation |-> p,
                     response |-> cmd.response]
        /\ IsEventOf(e, cmd, "attempt")
    BY <1>1, AssessmentEventFields
  <1> QED
    BY <1>1, <1>2 DEF IsEventOf, DraftedAssessment

\* A contest built from the course it is appended to is accepted.
LEMMA ContestDrafts ==
  ASSUME NEW A, NEW G, NEW cmd, NEW e \in contest_grade(G, cmd)
  PROVE  /\ IsEventOf(e, cmd, "contest") /\ DraftedAssessment(G, e)
         /\ e.id \notin DOMAIN G.commands => CanReduceAssessment(A, G, e)
  <1>1. PICK g \in DOMAIN G.grades :
                 /\ e = AssessmentEvent(cmd, "contest", "human", [grade |-> g])
                 /\ G.grades[g].session = cmd.ctx.session
                 /\ \A i \in DOMAIN G.contests : G.contests[i].grade # g
    BY DEF contest_grade
  <1>2. e.payload = [grade |-> g] /\ e.actor = "human" /\ IsEventOf(e, cmd, "contest")
    BY <1>1, AssessmentEventFields
  <1>3. DraftedAssessment(G, e)
    BY <1>1, <1>2 DEF IsEventOf, DraftedAssessment
  <1>4. _envelope(e) /\ CanReduceContest(G, e)
    BY <1>1, <1>2 DEF IsEventOf, _envelope, assessment_event_id_for, CanReduceContest
  <1> QED
    BY <1>2, <1>3, <1>4 DEF IsEventOf, CanReduceAssessment

\* The fields of a grade.
LEMMA GradeEventFields ==
  ASSUME NEW cmd, NEW t, NEW result, NEW e, e = GradeEvent(cmd, t, result)
  PROVE  /\ e.payload = [grade |-> grade_id_for(cmd.ctx, t), attempt |-> t, result |-> result,
                         supersedes |-> cmd.supersedes]
         /\ e.actor = "service" /\ IsEventOf(e, cmd, "grade")
  <1>1. PICK payload :
           payload = [grade |-> grade_id_for(cmd.ctx, t), attempt |-> t, result |-> result,
                      supersedes |-> cmd.supersedes]
    OBVIOUS
  <1>2. e = AssessmentEvent(cmd, "grade", "service", payload)
    BY <1>1 DEF GradeEvent
  <1> QED
    BY <1>1, <1>2, AssessmentEventFields

\* A grade named under a free command identity is new.
LEMMA GradeAppends ==
  ASSUME NEW A, NEW G, NEW s, AssessmentsSound(G, s), NEW cmd, NEW result,
         NEW t \in DOMAIN G.attempts, G.attempts[t].session = cmd.ctx.session,
         Len(result.criteria) = G.presentations[G.attempts[t].presentation].content.criteria,
         NamesPredecessor(G, t, cmd.supersedes),
         NEW e, e = GradeEvent(cmd, t, result), e.id \notin DOMAIN G.commands
  PROVE  CanReduceAssessment(A, G, e)
  <1> DEFINE new == grade_id_for(cmd.ctx, t)
             payload == [grade |-> new, attempt |-> t, result |-> result,
                         supersedes |-> cmd.supersedes]
  <1>1. e.payload = payload /\ e.actor = "service" /\ IsEventOf(e, cmd, "grade")
    BY GradeEventFields
  <1>2. new \notin DOMAIN G.grades
    <2>1. ASSUME new \in DOMAIN G.grades PROVE FALSE
      <3>1. <<new[2], new[3], "grade">> \in DOMAIN G.commands
        BY <2>1 DEF AssessmentsSound, GradeSound
      <3> QED
        BY <1>1, <3>1 DEF IsEventOf, grade_id_for
    <2> QED
      BY <2>1
  <1>3. /\ payload.grade = new /\ payload.attempt = t /\ payload.result = result
        /\ payload.supersedes = cmd.supersedes
    OBVIOUS
  <1> HIDE DEF payload
  <1>4. CanReduceGrade(G, e)
    BY <1>1, <1>2, <1>3 DEF IsEventOf, CanReduceGrade
  <1>5. _envelope(e)
    BY <1>1 DEF IsEventOf, _envelope, assessment_event_id_for
  <1> QED
    BY <1>1, <1>4, <1>5 DEF IsEventOf, CanReduceAssessment

\* A closed grade has one criterion per criterion of the item and at most full
\* marks.
LEMMA ClosedGradeFields ==
  ASSUME NEW content, NEW response, ContentSound(content)
  PROVE  LET grade == ClosedGrade(content, response) IN
         /\ Len(grade.criteria) = content.criteria
         /\ grade.numerator <= grade.denominator /\ grade.run = None
  <1> DEFINE expected == content.expected
             overlap == response \cap expected
             result == ExactClosed(content, response)
             criteria == [i \in 1 .. content.criteria |-> result.status]
  <1>1. content.criteria \in Nat /\ IsFiniteSet(expected)
    BY DEF ContentSound
  <1>2. /\ Cardinality(expected) \in Nat /\ Cardinality(overlap) \in Nat
        /\ Cardinality(overlap) <= Cardinality(expected)
    BY <1>1, FS_Subset, FS_CardinalityType
  <1>3. result.numerator <= result.denominator
    <2>1. PICK k : k = Cardinality(expected)
      OBVIOUS
    <2>2. PICK m : m = Cardinality(overlap)
      OBVIOUS
    <2>3. \/ result = [status |-> "met", numerator |-> 1, denominator |-> 1]
          \/ result = [status |-> "not_met", numerator |-> 0, denominator |-> 1]
          \/ result = [status |-> "uncertain", numerator |-> m, denominator |-> k]
          \/ result = [status |-> "not_met", numerator |-> 0, denominator |-> k]
      BY <2>1, <2>2, Zenon DEF ExactClosed
    <2>4. k \in Nat /\ m \in Nat /\ m <= k
      BY <1>2, <2>1, <2>2
    <2> HIDE DEF result
    <2> QED
      BY <2>3, <2>4
  <1>4. Len(criteria) = content.criteria
    <2> HIDE DEF result
    <2>1. criteria = [i \in 1 .. content.criteria |-> criteria[i]]
      OBVIOUS
    <2> HIDE DEF criteria
    <2> QED
      BY <1>1, <2>1, ListOf
  <1>5. ClosedGrade(content, response) =
           [status |-> "graded", criteria |-> criteria, numerator |-> result.numerator,
            denominator |-> result.denominator, run |-> None]
    BY DEF ClosedGrade
  <1> HIDE DEF result, criteria
  <1> QED
    BY <1>3, <1>4, <1>5

\* A closed grade built from the course it is appended to is accepted.
LEMMA ClosedDrafts ==
  ASSUME NEW A, NEW G, NEW s, AssessmentsSound(G, s), NEW cmd, NEW e \in grade_closed(G, cmd)
  PROVE  /\ IsEventOf(e, cmd, "grade") /\ DraftedAssessment(G, e)
         /\ e.id \notin DOMAIN G.commands => CanReduceAssessment(A, G, e)
  <1>1. PICK t \in DOMAIN G.attempts :
           /\ e = GradeEvent(cmd, t, ClosedGrade(
                     G.presentations[G.attempts[t].presentation].content, G.attempts[t].response))
           /\ G.attempts[t].session = cmd.ctx.session
           /\ NamesPredecessor(G, t, cmd.supersedes)
    BY DEF grade_closed
  <1> DEFINE content == G.presentations[G.attempts[t].presentation].content
             grade == ClosedGrade(content, G.attempts[t].response)
  <1>2. ContentSound(content)
    BY DEF AssessmentsSound, AttemptSound
  <1>3. /\ Len(grade.criteria) = content.criteria
        /\ grade.numerator <= grade.denominator /\ grade.run = None
    BY <1>2, ClosedGradeFields
  <1>a. e = GradeEvent(cmd, t, grade)
    BY <1>1
  <1> HIDE DEF grade
  <1>4. /\ e.payload = [grade |-> grade_id_for(cmd.ctx, t), attempt |-> t, result |-> grade,
                        supersedes |-> cmd.supersedes]
        /\ IsEventOf(e, cmd, "grade")
    BY <1>a, GradeEventFields
  <1>5. DraftedAssessment(G, e)
    <2>1. e.payload.result = grade
      BY <1>4
    <2> QED
      BY <1>3, <1>4, <2>1 DEF IsEventOf, DraftedAssessment
  <1>6. ASSUME e.id \notin DOMAIN G.commands PROVE CanReduceAssessment(A, G, e)
    BY <1>1, <1>a, <1>3, <1>6, GradeAppends
  <1> QED
    BY <1>4, <1>5, <1>6

\* A verified draft has at most full marks and names its run.
LEMMA FinalGradeFields ==
  ASSUME NEW run \in GradeRuns
  PROVE  LET grade == _final_grade(DraftOf[run], run) IN
         grade.numerator <= grade.denominator /\ grade.run = run
  <1> DEFINE draft == DraftOf[run]
             met == {i \in DOMAIN draft : draft[i].status = "met"}
             n == Len(draft)
  <1>1. n \in Nat /\ DOMAIN draft = 1 .. n
    BY OutputsAssumption, ListFacts
  <1>2. IsFiniteSet(1 .. n) /\ Cardinality(1 .. n) = n
    <2> HIDE DEF n
    <2>1. IsFiniteSet(1 .. n) /\ Cardinality(1 .. n) = IF 1 > n THEN 0 ELSE n - 1 + 1
      BY <1>1, FS_Interval
    <2> QED
      BY <1>1, <2>1
  <1>3. Cardinality(met) <= n
    <2>1. met \subseteq 1 .. n
      BY <1>1
    <2> HIDE DEF met, n
    <2> QED
      BY <1>2, <2>1, FS_Subset
  <1>4. MetCriteria(draft) = Cardinality(met)
    BY Zenon DEF MetCriteria
  <1> HIDE DEF draft, met
  <1>5. _final_grade(draft, run).numerator = MetCriteria(draft)
        /\ _final_grade(draft, run).denominator = n /\ _final_grade(draft, run).run = run
    BY DEF _final_grade
  <1> QED
    BY <1>3, <1>4, <1>5 DEF draft

\* A verified grade built from the course it is appended to is accepted.
LEMMA VerifiedDrafts ==
  ASSUME NEW A, NEW G, NEW s, AssessmentsSound(G, s), NEW known, NEW cmd,
         \A o \in known : /\ o.run \in GradeRuns /\ o.attempt \in DOMAIN G.attempts
                          /\ o.session = G.attempts[o.attempt].session,
         NEW e \in record_verified_grade(G, known, cmd)
  PROVE  /\ IsEventOf(e, cmd, "grade") /\ DraftedAssessment(G, e)
         /\ e.id \notin DOMAIN G.commands => CanReduceAssessment(A, G, e)
  <1>1. PICK x \in recover_grade(known, cmd.run, cmd.ctx) :
           /\ e = GradeEvent(cmd, x.attempt, x.grade)
           /\ Len(x.grade.criteria) =
                 G.presentations[G.attempts[x.attempt].presentation].content.criteria
           /\ \A g \in DOMAIN G.grades : G.grades[g].result.run # cmd.run
           /\ NamesPredecessor(G, x.attempt, cmd.supersedes)
           /\ cmd.supersedes # None =>
                 \E i \in DOMAIN G.contests : G.contests[i].grade = cmd.supersedes
    BY DEF record_verified_grade
  <1>2. PICK o \in known :
           /\ o.run = cmd.run /\ o.session = cmd.ctx.session
           /\ x = [session |-> o.session, attempt |-> o.attempt,
                   presentation |-> o.presentation, revision |-> o.revision,
                   content |-> o.content, response |-> o.response,
                   grade |-> _final_grade(DraftOf[cmd.run], cmd.run)]
    BY DEF recover_grade
  <1> DEFINE grade == _final_grade(DraftOf[cmd.run], cmd.run)
             t == o.attempt
  <1>3. grade.numerator <= grade.denominator /\ grade.run = cmd.run
    BY <1>2, FinalGradeFields
  <1> HIDE DEF grade
  <1>4. x.attempt = t /\ x.grade = grade
    BY <1>2 DEF grade
  <1>5. e = GradeEvent(cmd, t, grade)
    BY <1>1, <1>4
  <1>6. t \in DOMAIN G.attempts /\ G.attempts[t].session = cmd.ctx.session
    BY <1>2
  <1>7. /\ e.payload = [grade |-> grade_id_for(cmd.ctx, t), attempt |-> t, result |-> grade,
                        supersedes |-> cmd.supersedes]
        /\ IsEventOf(e, cmd, "grade")
    BY <1>5, GradeEventFields
  <1>8. DraftedAssessment(G, e)
    <2>1. e.payload.result = grade /\ e.payload.supersedes = cmd.supersedes
      BY <1>7
    <2> QED
      BY <1>1, <1>3, <1>7, <2>1 DEF IsEventOf, DraftedAssessment
  <1>9. ASSUME e.id \notin DOMAIN G.commands PROVE CanReduceAssessment(A, G, e)
    BY <1>1, <1>4, <1>5, <1>6, <1>9, GradeAppends
  <1> QED
    BY <1>7, <1>8, <1>9

\* The fields of an event of the study context.
LEMMA ContextEventFields ==
  ASSUME NEW cmd, NEW op, NEW payload, NEW e, e = Ctx!ContextEvent(cmd, op, payload)
  PROVE  /\ IsEventOf(e, cmd, op) /\ e.payload = payload
         /\ e.id = Ctx!study_context_event_id_for(e.ctx, op)
  BY DEF Ctx!ContextEvent, IsEventOf, Ctx!study_context_event_id_for

\* A statement built from the course it is appended to is accepted.
LEMMA RecordDrafts ==
  ASSUME NEW C, Ctx!ContextSound(C), NEW cmd, NEW e \in Ctx!record(C, cmd)
  PROVE  /\ IsEventOf(e, cmd, "record")
         /\ e.id \notin DOMAIN C.commands => Ctx!CanReduceContext(C, e)
  <1> DEFINE id == Ctx!study_context_event_id_for(cmd.ctx, "record")
             new == Ctx!statement_id_for(id)
  <1>1. PICK i : /\ InteractionOf[i] = [session |-> cmd.ctx.session, kind |-> "human"]
                 /\ e = Ctx!ContextEvent(cmd, "record",
                           [statement |-> new, origin |-> i, kind |-> cmd.kind,
                            value |-> cmd.value])
    BY DEF Ctx!record
  <1>2. PICK payload : payload = [statement |-> new, origin |-> i, kind |-> cmd.kind,
                                  value |-> cmd.value]
    OBVIOUS
  <1>3. /\ IsEventOf(e, cmd, "record") /\ e.payload = payload
        /\ e.id = Ctx!study_context_event_id_for(e.ctx, "record")
    BY <1>1, <1>2, ContextEventFields
  <1>4. payload.statement = new /\ payload.origin = i
    BY <1>2
  <1>5. e.id = id /\ e.op = "record" /\ e.ctx = cmd.ctx
    BY <1>3 DEF IsEventOf
  <1>6. new \in DOMAIN C.statements => id \in DOMAIN C.commands
    <2>1. ASSUME new \in DOMAIN C.statements PROVE id \in DOMAIN C.commands
      <3>1. Ctx!StatementSound(C, new)
        BY <2>1, ContextParts
      <3> HIDE DEF id
      <3>2. new[2] \in DOMAIN C.commands
        BY <3>1 DEF Ctx!StatementSound
      <3> QED
        BY <3>2 DEF Ctx!statement_id_for
    <2> QED
      BY <2>1
  <1> HIDE DEF id, new
  <1>7. new = Ctx!statement_id_for(id)
    BY DEF new
  <1> QED
    BY <1>1, <1>3, <1>4, <1>5, <1>6, <1>7 DEF Ctx!CanReduceContext

\* A retraction built from the course it is appended to is accepted.
LEMMA RetractDrafts ==
  ASSUME NEW C, NEW cmd, NEW e \in Ctx!retract(C, cmd)
  PROVE  /\ IsEventOf(e, cmd, "retract")
         /\ e.id \notin DOMAIN C.commands => Ctx!CanReduceContext(C, e)
  <1>1. PICK s \in DOMAIN C.statements :
           C.statements[s].status = "active"
           /\ e = Ctx!ContextEvent(cmd, "retract", [statement |-> s])
    BY DEF Ctx!retract
  <1>2. PICK payload : payload = [statement |-> s]
    OBVIOUS
  <1>3. /\ IsEventOf(e, cmd, "retract") /\ e.payload = payload
        /\ e.id = Ctx!study_context_event_id_for(e.ctx, "retract")
    BY <1>1, <1>2, ContextEventFields
  <1>4. payload.statement = s
    BY <1>2
  <1> QED
    BY <1>1, <1>3, <1>4 DEF IsEventOf, Ctx!CanReduceContext

\* A resolution built from the course it is appended to is accepted.
LEMMA ResolveDrafts ==
  ASSUME NEW C, NEW cmd, NEW e \in Ctx!resolve(C, cmd)
  PROVE  /\ IsEventOf(e, cmd, "resolve")
         /\ e.id \notin DOMAIN C.commands => Ctx!CanReduceContext(C, e)
  <1>1. PICK s \in Ctx!active(C, cmd.kind) :
           /\ Ctx!InConflict(C, cmd.kind)
           /\ e = Ctx!ContextEvent(cmd, "resolve", [kind |-> cmd.kind, selected |-> s,
                                                  losers |-> Ctx!Losers(C, cmd.kind, s)])
    BY DEF Ctx!resolve
  <1>2. PICK payload : payload = [kind |-> cmd.kind, selected |-> s,
                                  losers |-> Ctx!Losers(C, cmd.kind, s)]
    OBVIOUS
  <1>3. /\ IsEventOf(e, cmd, "resolve") /\ e.payload = payload
        /\ e.id = Ctx!study_context_event_id_for(e.ctx, "resolve")
    BY <1>1, <1>2, ContextEventFields
  <1>4. /\ payload.kind = cmd.kind /\ payload.selected = s
        /\ payload.losers = Ctx!Losers(C, cmd.kind, s)
    BY <1>2
  <1> QED
    BY <1>1, <1>3, <1>4 DEF IsEventOf, Ctx!CanReduceContext

-----------------------------------------------------------------------------
(* A call at its append.                                                   *)

\* The kind of event a command appends.
EventOp(op) ==
    CASE op \in {"record_generated", "record_human_revision"} -> "proposal"
      [] op \in {"record_human_decision", "apply_service_decision"} -> "decision"
      [] op = "present_item"   -> "present"
      [] op = "record_attempt" -> "attempt"
      [] op \in {"grade_closed", "record_verified_grade"} -> "grade"
      [] op = "contest_grade"  -> "contest"
      [] op \in ContextOps     -> op

\* e is the event of cmd, made by a service from P.
Made(P, e, cmd) ==
    /\ Drafted(P, e)
    /\ IsEventOf(e, cmd, EventOp(cmd.op))
    /\ ~IsRecorded(P, cmd) /\ ~ReducerOnly(cmd) => Reducible(P, e)

\* The identity of the event of a command.
LEMMA EventIds ==
  ASSUME NEW cmd
  PROVE  EventIdOf(cmd) = <<cmd.ctx.session, cmd.ctx.key, EventOp(cmd.op)>>
  BY DEF EventIdOf, EventOp

\* The kind of event each command writes.
LEMMA KindsOfCommands ==
  ASSUME NEW op
  PROVE  /\ op \in {"record_generated", "record_human_revision"} => EventOp(op) = "proposal"
         /\ op \in {"record_human_decision", "apply_service_decision"} => EventOp(op) = "decision"
         /\ op = "present_item" => EventOp(op) = "present"
         /\ op = "record_attempt" => EventOp(op) = "attempt"
         /\ op \in {"grade_closed", "record_verified_grade"} => EventOp(op) = "grade"
         /\ op = "contest_grade" => EventOp(op) = "contest"
         /\ op \in ContextOps => EventOp(op) = op
  BY DEF EventOp, ContextOps

\* Where each command looks its identity up.
LEMMA CommandsOf ==
  ASSUME NEW P, NEW op
  PROVE  /\ op \in ArtifactOps => RecordedCommands(P, op) = P.study_artifacts.commands
         /\ op \in AssessmentOps => RecordedCommands(P, op) = P.assessments.commands
         /\ op \in ContextOps => RecordedCommands(P, op) = P.study_context.commands
  <1>1. /\ op \in ArtifactOps => op \notin AssessmentOps /\ op \notin ContextOps
        /\ op \in AssessmentOps => op \notin ContextOps
    BY DEF ArtifactOps, AssessmentOps, ContextOps
  <1> QED
    BY <1>1 DEF RecordedCommands

\* What the artifact service builds from a course is made for this course.
LEMMA ArtifactDrafting ==
  ASSUME NoneIsNoDigest, NEW P, CourseSound(P), NEW cmd, ArgumentsSound(cmd),
         NEW e, NEW receipt,
         \/ cmd.op = "record_generated" /\ e \in record_generated(P.study_artifacts, cmd)
         \/ cmd.op = "record_human_revision"
            /\ e \in record_human_revision(P.study_artifacts, cmd)
         \/ cmd.op = "record_human_decision"
            /\ e \in record_human_decision(P.study_artifacts, cmd)
         \/ /\ cmd.op = "apply_service_decision"
            /\ receipt \in PolicyReceipts(P.study_artifacts, cmd)
            /\ e \in apply_service_decision(P.study_artifacts, cmd, receipt)
  PROVE  Made(P, e, cmd)
  <1> DEFINE A == P.study_artifacts
  <1>1. ArtifactsSound(A)
    BY DEF CourseSound
  <1>2. cmd.op \in ArtifactOps
    BY DEF ArtifactOps
  <1>3. RecordedCommands(P, cmd.op) = A.commands
    BY <1>2, CommandsOf
  <1>4. IsEventOf(e, cmd, EventOp(cmd.op)) => (~IsRecorded(P, cmd) => e.id \notin DOMAIN A.commands)
    BY <1>3, EventIds DEF IsEventOf, IsRecorded
  <1>5. CASE cmd.op = "record_generated"
    <2>1. IsEventOf(e, cmd, "proposal") /\ DraftedProposals(e)
      BY <1>5, GeneratedDrafts DEF ArgumentsSound
    <2>2. EventOp(cmd.op) = "proposal" /\ ReducerOnly(cmd)
      BY <1>5, KindsOfCommands DEF ReducerOnly
    <2> QED
      BY <2>1, <2>2 DEF Made, Drafted, IsEventOf, IsAssessmentEvent
  <1>6. CASE cmd.op = "record_human_revision"
    <2>1. IsEventOf(e, cmd, "proposal") /\ DraftedProposals(e)
      BY <1>6, HumanDrafts DEF ArgumentsSound
    <2>2. EventOp(cmd.op) = "proposal"
      BY <1>6, KindsOfCommands
    <2>3. ASSUME ~IsRecorded(P, cmd), ~ReducerOnly(cmd) PROVE Reducible(P, e)
      <3>1. cmd.proposal.content.parent = None
        BY <1>6, <2>3 DEF ReducerOnly
      <3>2. CanReduceProposals(A, e)
        BY <1>1, <1>4, <1>6, <2>1, <2>2, <2>3, <3>1, HumanReducible DEF ArgumentsSound
      <3> QED
        BY <2>1, <3>2 DEF Reducible, IsEventOf, IsArtifactEvent
    <2> QED
      BY <2>1, <2>2, <2>3 DEF Made, Drafted, IsEventOf, IsAssessmentEvent
  <1>7. CASE cmd.op \in {"record_human_decision", "apply_service_decision"}
    <2>1. IsEventOf(e, cmd, "decision") /\ DraftedDecision(e)
          /\ (e.id \notin DOMAIN A.commands => CanReduceDecision(A, e))
      <3>1. CASE cmd.op = "record_human_decision"
        <4>1. e \in _record_decision(A, cmd, cmd.decision, cmd.supersedes, None)
          BY <3>1 DEF record_human_decision
        <4>2. cmd.decision \in {"accept", "reject"}
          BY <3>1 DEF ArgumentsSound
        <4> QED
          BY <4>1, <4>2, DecisionDrafts
      <3>2. CASE cmd.op = "apply_service_decision"
        <4> DEFINE current == AcceptedOrNone(A, A.revisions[cmd.revision].artifact_id)
        <4>1. /\ receipt \in PolicyReceipts(A, cmd)
              /\ e \in _record_decision(A, cmd, receipt.decision, receipt.supersedes, receipt)
          BY <3>2 DEF apply_service_decision
        <4>2. PICK d \in {"accept", "reject"} :
                 receipt = [request |-> artifact_event_id_for(cmd.ctx, "decision"),
                            current |-> current, decision |-> d,
                            supersedes |-> IF d = "accept" THEN current ELSE None]
          BY <4>1 DEF PolicyReceipts
        <4> HIDE DEF current
        <4>3. /\ receipt.request = artifact_event_id_for(cmd.ctx, "decision")
              /\ receipt.decision \in {"accept", "reject"} /\ receipt.current = current
          BY <4>2
        <4> HIDE DEF A
        <4> QED
          BY <4>1, <4>3, DecisionDrafts DEF current
      <3> QED
        BY <1>7, <3>1, <3>2
    <2>2. EventOp(cmd.op) = "decision"
      BY <1>7, KindsOfCommands
    <2> QED
      BY <1>4, <2>1, <2>2
      DEF Made, Drafted, IsEventOf, IsAssessmentEvent, Reducible, IsArtifactEvent
  <1> QED
    BY <1>5, <1>6, <1>7

\* What the assessment service builds from a course is made for this course.
LEMMA AssessmentDrafting ==
  ASSUME NEW P, CourseSound(P), NEW cmd, NEW e, NEW known,
         \A o \in known : /\ o.run \in GradeRuns /\ o.attempt \in DOMAIN P.assessments.attempts
                          /\ o.session = P.assessments.attempts[o.attempt].session,
         \/ cmd.op = "present_item" /\ e \in present_item(P.study_artifacts, cmd)
         \/ cmd.op = "record_attempt" /\ e \in record_attempt(P.assessments, cmd)
         \/ cmd.op = "grade_closed" /\ e \in grade_closed(P.assessments, cmd)
         \/ cmd.op = "record_verified_grade"
            /\ e \in record_verified_grade(P.assessments, known, cmd)
         \/ cmd.op = "contest_grade" /\ e \in contest_grade(P.assessments, cmd)
  PROVE  Made(P, e, cmd)
  <1> DEFINE A == P.study_artifacts
             G == P.assessments
             kind == EventOp(cmd.op)
  <1>1. AssessmentsSound(G, P.sequence)
    BY DEF CourseSound
  <1>2. RecordedCommands(P, cmd.op) = G.commands
    BY CommandsOf DEF AssessmentOps
  <1>3. IsEventOf(e, cmd, kind) /\ ~IsRecorded(P, cmd) => e.id \notin DOMAIN G.commands
    BY <1>2, EventIds DEF IsEventOf, IsRecorded
  <1>4. /\ kind \in {"present", "attempt", "grade", "contest"}
        /\ IsEventOf(e, cmd, kind) /\ DraftedAssessment(G, e)
        /\ e.id \notin DOMAIN G.commands /\ ~ReducerOnly(cmd) => CanReduceAssessment(A, G, e)
    <2>1. CASE cmd.op = "present_item"
      <3>1. IsEventOf(e, cmd, "present") /\ DraftedAssessment(G, e)
        BY <2>1, PresentDrafts
      <3> QED
        BY <2>1, <3>1, KindsOfCommands DEF ReducerOnly
    <2>2. CASE cmd.op = "record_attempt"
      <3>1. IsEventOf(e, cmd, "attempt") /\ DraftedAssessment(G, e)
        BY <2>2, AttemptDrafts
      <3> QED
        BY <2>2, <3>1, KindsOfCommands DEF ReducerOnly
    <2>3. CASE cmd.op = "grade_closed"
      BY <1>1, <2>3, ClosedDrafts, KindsOfCommands
    <2>4. CASE cmd.op = "record_verified_grade"
      BY <1>1, <2>4, VerifiedDrafts, KindsOfCommands
    <2>5. CASE cmd.op = "contest_grade"
      BY <2>5, ContestDrafts, KindsOfCommands
    <2> QED
      BY <2>1, <2>2, <2>3, <2>4, <2>5
  <1>5. e.op = kind
    BY <1>4 DEF IsEventOf
  <1> HIDE DEF A, G, kind
  <1>6. Drafted(P, e)
    BY <1>4, <1>5 DEF Drafted, G
  <1>7. ~IsRecorded(P, cmd) /\ ~ReducerOnly(cmd) => Reducible(P, e)
    BY <1>3, <1>4, <1>5 DEF Reducible, IsArtifactEvent, IsAssessmentEvent, A, G
  <1> QED
    BY <1>4, <1>6, <1>7 DEF Made, kind

\* What the context service builds from a course is made for this course.
LEMMA ContextDrafting ==
  ASSUME NEW P, CourseSound(P), NEW cmd, NEW e,
         \/ cmd.op = "record" /\ e \in Ctx!record(P.study_context, cmd)
         \/ cmd.op = "retract" /\ e \in Ctx!retract(P.study_context, cmd)
         \/ cmd.op = "resolve" /\ e \in Ctx!resolve(P.study_context, cmd)
  PROVE  Made(P, e, cmd)
  <1> DEFINE C == P.study_context
  <1>1. Ctx!ContextSound(C)
    BY DEF CourseSound
  <1>2. RecordedCommands(P, cmd.op) = C.commands /\ EventOp(cmd.op) = cmd.op
    BY CommandsOf, KindsOfCommands DEF ContextOps
  <1>3. IsEventOf(e, cmd, cmd.op) /\ ~IsRecorded(P, cmd) => e.id \notin DOMAIN C.commands
    BY <1>2, EventIds DEF IsEventOf, IsRecorded
  <1>4. /\ cmd.op \in {"record", "retract", "resolve"} /\ IsEventOf(e, cmd, cmd.op)
        /\ e.id \notin DOMAIN C.commands => Ctx!CanReduceContext(C, e)
    <2>1. CASE cmd.op = "record"
      BY <1>1, <2>1, RecordDrafts
    <2>2. CASE cmd.op = "retract"
      BY <2>2, RetractDrafts
    <2>3. CASE cmd.op = "resolve"
      BY <2>3, ResolveDrafts
    <2> QED
      BY <2>1, <2>2, <2>3
  <1>5. e.op = cmd.op
    BY <1>4 DEF IsEventOf
  <1> HIDE DEF C
  <1>6. Drafted(P, e)
    BY <1>4, <1>5 DEF Drafted, IsAssessmentEvent
  <1>7. ~IsRecorded(P, cmd) => Reducible(P, e)
    BY <1>3, <1>4, <1>5 DEF Reducible, IsArtifactEvent, IsAssessmentEvent, C
  <1> QED
    BY <1>2, <1>4, <1>6, <1>7 DEF Made

\* What a service builds is its command's event, and the reducers take it
\* while the identity is free.
LEMMA Drafting ==
  ASSUME NoneIsNoDigest, CourseSound(course), \A o \in owners : OwnerSound(o),
         NEW c, client[c].cmd.op \in DOMAIN Steps, ArgumentsSound(client[c].cmd),
         client[c].cmd.op = "apply_service_decision" =>
            client[c].receipt \in PolicyReceipts(course.study_artifacts, client[c].cmd),
         NEW e \in Drafts(c)
  PROVE  Made(course, e, client[c].cmd)
  <1> DEFINE cmd == client[c].cmd
             A == course.study_artifacts
             G == course.assessments
             C == course.study_context
  <1>1. cmd.op \in {"record_generated", "record_human_revision", "record_human_decision",
                    "apply_service_decision", "present_item", "record_attempt", "grade_closed",
                    "record_verified_grade", "contest_grade", "record", "retract", "resolve"}
    BY DEF Steps
  <1>2. /\ cmd.op = "record_generated" => e \in record_generated(A, cmd)
        /\ cmd.op = "record_human_revision" => e \in record_human_revision(A, cmd)
        /\ cmd.op = "record_human_decision" => e \in record_human_decision(A, cmd)
        /\ cmd.op = "apply_service_decision" =>
              e \in apply_service_decision(A, cmd, client[c].receipt)
        /\ cmd.op = "present_item" => e \in present_item(A, cmd)
        /\ cmd.op = "record_attempt" => e \in record_attempt(G, cmd)
        /\ cmd.op = "grade_closed" => e \in grade_closed(G, cmd)
        /\ cmd.op = "record_verified_grade" => e \in record_verified_grade(G, owners, cmd)
        /\ cmd.op = "contest_grade" => e \in contest_grade(G, cmd)
        /\ cmd.op = "record" => e \in Ctx!record(C, cmd)
        /\ cmd.op = "retract" => e \in Ctx!retract(C, cmd)
        /\ cmd.op = "resolve" => e \in Ctx!resolve(C, cmd)
    BY DEF Drafts
  <1>3. \A o \in owners : /\ o.run \in GradeRuns /\ o.attempt \in DOMAIN G.attempts
                          /\ o.session = G.attempts[o.attempt].session
    BY DEF OwnerSound
  <1> HIDE DEF cmd
  <1>4. CASE cmd.op \in {"record_generated", "record_human_revision", "record_human_decision",
                         "apply_service_decision"}
    BY <1>2, <1>4, ArtifactDrafting DEF cmd
  <1>5. CASE cmd.op \in {"present_item", "record_attempt", "grade_closed",
                         "record_verified_grade", "contest_grade"}
    BY <1>2, <1>3, <1>5, AssessmentDrafting DEF cmd
  <1>6. CASE cmd.op \in {"record", "retract", "resolve"}
    BY <1>2, <1>6, ContextDrafting DEF cmd
  <1> QED
    BY <1>1, <1>4, <1>5, <1>6

-----------------------------------------------------------------------------
(* What an append leaves as it was, and what it records.                   *)

\* H is G with the command of e, and keeps the attempts and, unless e grades,
\* the grades.
CommandAdded(G, H, e) ==
    /\ H.commands = With(G.commands, e.id, e.fingerprint)
    /\ \A t \in DOMAIN G.attempts : t \in DOMAIN H.attempts /\ H.attempts[t] = G.attempts[t]
    /\ e.op # "grade" => H.grades = G.grades

\* Reducing an event of the assessments records its command and reopens nothing
\* closed.
LEMMA AssessmentReduced ==
  ASSUME NEW A, NEW G, NEW s \in Nat, AssessmentsSound(G, s), NEW n,
         NEW e, e.op \in {"present", "attempt", "grade", "contest"}, CanReduceAssessment(A, G, e)
  PROVE  CommandAdded(G, reduce_assessment(G, e, n), e)
  <1> DEFINE H == reduce_assessment(G, e, n)
             commands == With(G.commands, e.id, e.fingerprint)
  <1>1. AssessmentFields(G)
    BY DEF AssessmentsSound, AssessmentFields
  <1>2. CASE e.op = "present"
    <2> DEFINE S == With(G.presentations, e.payload.presentation,
                         PresentationRecord(e.ctx.session, e.payload.revision, e.payload.content))
    <2>1. H = [reduce_item_presented(G, e) EXCEPT
                  !.commands = With(reduce_item_presented(G, e).commands, e.id, e.fingerprint)]
      BY <1>2 DEF reduce_assessment
    <2>2. reduce_item_presented(G, e) = [G EXCEPT !.presentations = S]
      BY DEF reduce_item_presented
    <2> HIDE DEF H, S
    <2>3. H.attempts = G.attempts /\ H.grades = G.grades /\ H.commands = commands
      BY <1>1, <2>1, <2>2 DEF AssessmentFields
    <2> QED
      BY <2>3 DEF H, CommandAdded
  <1>3. CASE e.op = "attempt"
    <2> DEFINE t == e.payload.attempt
               S == With(G.attempts, t, AttemptRecord(e.ctx.session, e.payload.presentation,
                                                      e.payload.response))
    <2>1. H = [reduce_attempt_recorded(G, e) EXCEPT
                  !.commands = With(reduce_attempt_recorded(G, e).commands, e.id, e.fingerprint)]
      BY <1>3 DEF reduce_assessment
    <2>2. reduce_attempt_recorded(G, e) = [G EXCEPT !.attempts = S]
      BY DEF reduce_attempt_recorded
    <2>3. t \notin DOMAIN G.attempts
      BY <1>3 DEF CanReduceAssessment, CanReduceAttempt
    <2>4. \A x \in DOMAIN G.attempts : x \in DOMAIN S /\ S[x] = G.attempts[x]
      BY <2>3 DEF With
    <2> HIDE DEF H, S
    <2>5. H.attempts = S /\ H.grades = G.grades /\ H.commands = commands
      BY <1>1, <2>1, <2>2 DEF AssessmentFields
    <2> QED
      BY <2>4, <2>5 DEF H, CommandAdded
  <1>4. CASE e.op = "grade"
    <2>1. e.payload.grade \notin DOMAIN G.grades
      BY <1>4 DEF CanReduceAssessment, CanReduceGrade
    <2>2. Graded(G, H, e, n)
      BY <1>4, <2>1, GradeGrades
    <2> HIDE DEF H
    <2>3. H.attempts = G.attempts /\ H.commands = commands
      BY <2>2 DEF Graded
    <2> QED
      BY <1>4, <2>3 DEF H, CommandAdded
  <1>5. CASE e.op = "contest"
    <2> DEFINE S == Append(G.contests, GradeContestRecord(e.payload.grade, n))
    <2>1. H = [reduce_grade_contested(G, e, n) EXCEPT
                  !.commands = With(reduce_grade_contested(G, e, n).commands, e.id,
                                    e.fingerprint)]
      BY <1>5 DEF reduce_assessment
    <2>2. reduce_grade_contested(G, e, n) = [G EXCEPT !.contests = S]
      BY DEF reduce_grade_contested
    <2> HIDE DEF H, S
    <2>3. H.attempts = G.attempts /\ H.grades = G.grades /\ H.commands = commands
      BY <1>1, <2>1, <2>2 DEF AssessmentFields
    <2> QED
      BY <2>3 DEF H, CommandAdded
  <1> QED
    BY <1>2, <1>3, <1>4, <1>5

\* Reducing an event of the context records its command and touches active
\* statements only.
LEMMA ContextReduced ==
  ASSUME NEW C, Ctx!ContextSound(C), NEW e, e.op \in {"record", "retract", "resolve"},
         Ctx!CanReduceContext(C, e)
  PROVE  LET D == Ctx!reduce_context(C, e) IN
         /\ D.commands = With(C.commands, e.id, e.fingerprint)
         /\ \A s \in DOMAIN C.statements :
               C.statements[s].status # "active" => D.statements[s] = C.statements[s]
  <1> DEFINE D == Ctx!reduce_context(C, e)
             commands == With(C.commands, e.id, e.fingerprint)
  <1>1. ContextFields(C)
    BY ContextParts
  <1>2. CASE e.op = "record"
    <2> DEFINE S == With(C.statements, e.payload.statement,
                         Ctx!StudyContextStatement(e.ctx.session, e.payload.kind,
                                                   e.payload.value))
    <2>1. D = [Ctx!reduce_statement_recorded(C, e) EXCEPT !.commands = With(@, e.id, e.fingerprint)]
      BY <1>2 DEF Ctx!reduce_context, Ctx!With, With
    <2>2. Ctx!reduce_statement_recorded(C, e) = [C EXCEPT !.statements = S]
      BY DEF Ctx!reduce_statement_recorded, Ctx!With, With
    <2>3. e.payload.statement \notin DOMAIN C.statements
      BY <1>2 DEF Ctx!CanReduceContext
    <2>4. \A s \in DOMAIN C.statements : S[s] = C.statements[s]
      BY <2>3 DEF With
    <2> HIDE DEF D, S
    <2>5. D.statements = S /\ D.commands = commands
      BY <1>1, <2>1, <2>2 DEF ContextFields
    <2> QED
      BY <2>4, <2>5 DEF D
  <1>3. CASE e.op = "retract"
    <2> DEFINE id == e.payload.statement
               S == [C.statements EXCEPT ![id] = [@ EXCEPT !.status = "retracted"]]
    <2>1. D = [Ctx!reduce_statement_retracted(C, e) EXCEPT !.commands = With(@, e.id, e.fingerprint)]
      BY <1>3 DEF Ctx!reduce_context, Ctx!With, With
    <2>2. Ctx!reduce_statement_retracted(C, e) = [C EXCEPT !.statements = S]
      BY DEF Ctx!reduce_statement_retracted
    <2>3. C.statements[id].status = "active"
      BY <1>3 DEF Ctx!CanReduceContext
    <2>4. \A s \in DOMAIN C.statements : s # id => S[s] = C.statements[s]
      OBVIOUS
    <2> HIDE DEF D, S
    <2>5. D.statements = S /\ D.commands = commands
      BY <1>1, <2>1, <2>2 DEF ContextFields
    <2> QED
      BY <2>3, <2>4, <2>5 DEF D
  <1>4. CASE e.op = "resolve"
    <2> DEFINE S == [s \in DOMAIN C.statements |->
                        IF s \in e.payload.losers
                        THEN [C.statements[s] EXCEPT !.status = "superseded"]
                        ELSE C.statements[s]]
               R == Append(C.resolutions,
                           Ctx!StudyContextResolution(e.payload.kind, e.payload.selected,
                                                      e.payload.losers))
    <2>1. D = [Ctx!reduce_conflict_resolved(C, e) EXCEPT !.commands = With(@, e.id, e.fingerprint)]
      BY <1>4 DEF Ctx!reduce_context, Ctx!With, With
    <2>2. Ctx!reduce_conflict_resolved(C, e) = [C EXCEPT !.statements = S, !.resolutions = R]
      BY Zenon DEF Ctx!reduce_conflict_resolved
    <2>3. \A s \in e.payload.losers : C.statements[s].status = "active"
      BY <1>4 DEF Ctx!CanReduceContext, Ctx!Losers, Ctx!active
    <2>4. \A s \in DOMAIN C.statements : s \notin e.payload.losers => S[s] = C.statements[s]
      OBVIOUS
    <2> HIDE DEF D, S, R
    <2>5. D.statements = S /\ D.commands = commands
      BY <1>1, <2>1, <2>2 DEF ContextFields
    <2> QED
      BY <2>3, <2>4, <2>5 DEF D
  <1> QED
    BY <1>2, <1>3, <1>4

\* The event of a command is recorded under the command.
LEMMA ReduceRecords ==
  ASSUME NEW P, CourseSound(P), NEW cmd, cmd.op \in DOMAIN Steps,
         NEW e, Made(P, e, cmd), Reducible(P, e)
  PROVE  IsMyRecord(Reduce(P, e), cmd)
  <1> DEFINE Q == Reduce(P, e)
  <1>1. e.id = EventIdOf(cmd) /\ e.fingerprint = cmd.fingerprint /\ e.op = EventOp(cmd.op)
    BY EventIds DEF Made, IsEventOf
  <1>2. /\ ArtifactsSound(P.study_artifacts) /\ P.sequence \in Nat
        /\ AssessmentsSound(P.assessments, P.sequence) /\ Ctx!ContextSound(P.study_context)
    BY DEF CourseSound
  <1>3. CASE cmd.op \in ArtifactOps
    <2>1. e.op \in {"proposal", "decision"}
      BY <1>1, <1>3, KindsOfCommands DEF ArtifactOps
    <2>2. e.id \in DOMAIN Q.study_artifacts.commands
          /\ Q.study_artifacts.commands[e.id] = e.fingerprint
      <3>1. CASE e.op = "proposal"
        <4>1. Revised(P.study_artifacts, Q.study_artifacts, e)
          BY <1>2, <3>1, CourseParts, ProposalsRevise
          DEF Made, Drafted, Reducible, IsArtifactEvent
        <4> QED
          BY <4>1 DEF Revised, BatchAdded
      <3>2. CASE e.op = "decision"
        <4>1. Decided(P.study_artifacts, Q.study_artifacts, e)
          BY <1>2, <3>2, CourseParts, DecisionDecides DEF IsArtifactEvent
        <4> QED
          BY <4>1 DEF Decided
      <3> QED
        BY <2>1, <3>1, <3>2
    <2>3. RecordedCommands(Q, cmd.op) = Q.study_artifacts.commands
      BY <1>3, CommandsOf
    <2> QED
      BY <1>1, <2>2, <2>3 DEF IsMyRecord, IsRecorded
  <1>4. CASE cmd.op \in AssessmentOps
    <2>1. e.op \in {"present", "attempt", "grade", "contest"}
      BY <1>1, <1>4, KindsOfCommands DEF AssessmentOps
    <2>2. ~IsArtifactEvent(e) /\ IsAssessmentEvent(e)
      BY <2>1 DEF IsArtifactEvent, IsAssessmentEvent
    <2>a. Q.assessments = reduce_assessment(P.assessments, e, P.sequence + 1)
      BY <2>2, CourseParts
    <2>b. CanReduceAssessment(P.study_artifacts, P.assessments, e)
      BY <2>2 DEF Reducible
    <2>3. Q.assessments.commands = With(P.assessments.commands, e.id, e.fingerprint)
      <3>1. PICK n : n = P.sequence + 1
        OBVIOUS
      <3>2. CommandAdded(P.assessments, reduce_assessment(P.assessments, e, n), e)
        BY <1>2, <2>1, <2>b, AssessmentReduced
      <3> QED
        BY <2>a, <3>1, <3>2 DEF CommandAdded
    <2>4. RecordedCommands(Q, cmd.op) = Q.assessments.commands
      BY <1>4, CommandsOf
    <2> QED
      BY <1>1, <2>3, <2>4 DEF IsMyRecord, IsRecorded, With
  <1>5. CASE cmd.op \in ContextOps
    <2>1. e.op \in {"record", "retract", "resolve"}
      BY <1>1, <1>5, KindsOfCommands DEF ContextOps
    <2>2. ~IsArtifactEvent(e) /\ ~IsAssessmentEvent(e)
      BY <2>1 DEF IsArtifactEvent, IsAssessmentEvent
    <2>3. Q.study_context.commands = With(P.study_context.commands, e.id, e.fingerprint)
      BY <1>2, <2>1, <2>2, CourseParts, ContextReduced DEF Reducible
    <2>4. RecordedCommands(Q, cmd.op) = Q.study_context.commands
      BY <1>5, CommandsOf
    <2> QED
      BY <1>1, <2>3, <2>4 DEF IsMyRecord, IsRecorded, With
  <1>6. cmd.op \in ArtifactOps \union AssessmentOps \union ContextOps
    BY DEF Steps, ArtifactOps, AssessmentOps, ContextOps
  <1> QED
    BY <1>3, <1>4, <1>5, <1>6

\* An attempt stays as it was recorded, and with it what the owners bind.
LEMMA ReduceKeepsAttempts ==
  ASSUME NEW P, CourseSound(P), NEW e, Reducible(P, e), Drafted(P, e),
         NEW t \in DOMAIN P.assessments.attempts
  PROVE  /\ t \in DOMAIN Reduce(P, e).assessments.attempts
         /\ Reduce(P, e).assessments.attempts[t] = P.assessments.attempts[t]
  <1> DEFINE G == P.assessments
  <1>1. AssessmentsSound(G, P.sequence) /\ P.sequence \in Nat
    BY DEF CourseSound
  <1>2. CASE ~IsArtifactEvent(e) /\ IsAssessmentEvent(e)
    <2>1. Reduce(P, e).assessments = reduce_assessment(G, e, P.sequence + 1)
      BY <1>2, CourseParts
    <2>2. CanReduceAssessment(P.study_artifacts, G, e)
      BY <1>2 DEF Reducible
    <2>3. e.op \in {"present", "attempt", "grade", "contest"}
      BY <1>2 DEF IsAssessmentEvent
    <2>4. PICK n : n = P.sequence + 1
      OBVIOUS
    <2> HIDE DEF G
    <2>5. CommandAdded(G, reduce_assessment(G, e, n), e)
      BY <1>1, <2>2, <2>3, AssessmentReduced
    <2> QED
      BY <2>1, <2>4, <2>5 DEF G, CommandAdded
  <1>3. CASE IsArtifactEvent(e) \/ ~IsAssessmentEvent(e)
    BY <1>3, CourseParts
  <1> QED
    BY <1>2, <1>3

\* Q keeps closed what is closed in P.
ClosedIn(P, Q) ==
    /\ \A r \in DOMAIN P.study_artifacts.revisions :
          LET old == P.study_artifacts.revisions[r].status
              new == Q.study_artifacts.revisions[r].status
          IN old # "proposed" /\ new # old => old = "accepted" /\ new = "superseded"
    /\ \A g \in DOMAIN P.assessments.grades :
          P.assessments.grades[g].lifecycle = "superseded" =>
             Q.assessments.grades[g] = P.assessments.grades[g]
    /\ \A s \in DOMAIN P.study_context.statements :
          P.study_context.statements[s].status # "active" =>
             Q.study_context.statements[s] = P.study_context.statements[s]

\* Reducing any event leaves what is closed.
LEMMA ReduceKeepsClosed ==
  ASSUME NoneIsNoDigest, NEW P, CourseSound(P), NEW e, Reducible(P, e), Drafted(P, e)
  PROVE  ClosedIn(P, Reduce(P, e))
  <1> DEFINE Q == Reduce(P, e)
             A == P.study_artifacts
             G == P.assessments
             C == P.study_context
  <1>1. /\ ArtifactsSound(A) /\ P.sequence \in Nat
        /\ AssessmentsSound(G, P.sequence) /\ Ctx!ContextSound(C)
    BY DEF CourseSound
  <1>2. ASSUME NEW r \in DOMAIN A.revisions,
               A.revisions[r].status # "proposed",
               Q.study_artifacts.revisions[r].status # A.revisions[r].status
        PROVE  A.revisions[r].status = "accepted"
               /\ Q.study_artifacts.revisions[r].status = "superseded"
    <2>1. CASE e.op = "proposal"
      <3>1. Revised(A, Q.study_artifacts, e)
        BY <1>1, <2>1, CourseParts, ProposalsRevise DEF Drafted, Reducible, IsArtifactEvent
      <3> QED
        BY <1>2, <3>1 DEF Revised, RevisionsAdded
    <2>2. CASE e.op = "decision"
      <3>1. Decided(A, Q.study_artifacts, e)
        BY <1>1, <2>2, CourseParts, DecisionDecides DEF IsArtifactEvent
      <3>2. Q.study_artifacts.revisions[r].status = DecidedStatus(A, e, r)
        BY <3>1 DEF Decided
      <3>3. CanReduceDecision(A, e) /\ e.decision \in {"accept", "reject"}
        BY <2>2 DEF Reducible, Drafted, IsArtifactEvent, DraftedDecision
      <3>4. A.revisions[e.revision].status = "proposed"
        BY <3>3 DEF CanReduceDecision, Decidable
      <3>5. r = e.supersedes
        BY <1>2, <3>2, <3>4 DEF DecidedStatus
      <3>6. r # None
        BY <1>1, NoneIsNoRevision
      <3>7. r = AcceptedOrNone(A, A.revisions[e.revision].artifact_id)
        BY <3>3, <3>5, <3>6 DEF CanReduceDecision, decode_decision_recorded
      <3>8. A.revisions[r].status = "accepted"
        BY <1>1, <3>6, <3>7, TheAccepted DEF _current_accepted
      <3> QED
        BY <1>2, <3>2, <3>4, <3>5, <3>8 DEF DecidedStatus
    <2>3. CASE ~IsArtifactEvent(e)
      BY <1>2, <2>3, CourseParts
    <2> QED
      BY <2>1, <2>2, <2>3 DEF IsArtifactEvent
  <1>3. ASSUME NEW g \in DOMAIN G.grades, G.grades[g].lifecycle = "superseded"
        PROVE  Q.assessments.grades[g] = G.grades[g]
    <2>1. CASE ~IsArtifactEvent(e) /\ IsAssessmentEvent(e)
      <3>1. Q.assessments = reduce_assessment(G, e, P.sequence + 1)
        BY <2>1, CourseParts
      <3>2. CanReduceAssessment(A, G, e) /\ e.op \in {"present", "attempt", "grade", "contest"}
        BY <2>1 DEF Reducible, IsAssessmentEvent
      <3>3. PICK n : n = P.sequence + 1
        OBVIOUS
      <3>4. CASE e.op = "grade"
        <4>1. CanReduceGrade(G, e)
          BY <3>2, <3>4 DEF CanReduceAssessment
        <4>2. Graded(G, reduce_assessment(G, e, n), e, n)
          BY <1>1, <3>4, <4>1, GradeGrades DEF CanReduceGrade
        <4>3. g # None
          <5>1. g = <<"grade", g[2], g[3], g[4]>>
            BY <1>1 DEF AssessmentsSound, GradeSound
          <5>2. None # <<"grade", g[2], g[3], g[4]>>
            BY Zenon DEF NoneIsNoDigest
          <5> QED
            BY <5>1, <5>2
        <4>4. g # e.payload.supersedes
          BY <1>3, <4>1, <4>3 DEF CanReduceGrade, NamesPredecessor, ActiveGrades
        <4> HIDE DEF Q
        <4>5. PICK H : H = reduce_assessment(G, e, n)
          OBVIOUS
        <4>6. Graded(G, H, e, n)
          BY <4>2, <4>5
        <4>7. H.grades[g] = G.grades[g]
          BY <4>4, <4>6 DEF Graded
        <4> QED
          BY <3>1, <3>3, <4>5, <4>7
      <3>5. CASE e.op # "grade"
        <4> HIDE DEF A, G, Q
        <4>1. CommandAdded(G, reduce_assessment(G, e, n), e)
          BY <1>1, <3>2, AssessmentReduced
        <4> QED
          BY <3>1, <3>3, <3>5, <4>1 DEF CommandAdded
      <3> QED
        BY <3>4, <3>5
    <2>2. CASE IsArtifactEvent(e) \/ ~IsAssessmentEvent(e)
      BY <2>2, CourseParts
    <2> QED
      BY <2>1, <2>2
  <1>4. ASSUME NEW s \in DOMAIN C.statements, C.statements[s].status # "active"
        PROVE  Q.study_context.statements[s] = C.statements[s]
    <2>1. CASE ~IsArtifactEvent(e) /\ ~IsAssessmentEvent(e)
      <3>1. Q.study_context = Ctx!reduce_context(C, e)
        BY <2>1, CourseParts
      <3>2. Ctx!CanReduceContext(C, e) /\ e.op \in {"record", "retract", "resolve"}
        BY <2>1 DEF Reducible, Drafted, IsArtifactEvent, IsAssessmentEvent
      <3> HIDE DEF C, Q
      <3>3. Ctx!reduce_context(C, e).statements[s] = C.statements[s]
        BY <1>1, <1>4, <3>2, ContextReduced
      <3> QED
        BY <3>1, <3>3
    <2>2. CASE IsArtifactEvent(e) \/ IsAssessmentEvent(e)
      BY <2>2, CourseParts
    <2> QED
      BY <2>1, <2>2
  <1> HIDE DEF Q
  <1>5. ClosedIn(P, Q)
    BY <1>2, <1>3, <1>4 DEF ClosedIn
  <1> QED
    BY <1>5 DEF Q

-----------------------------------------------------------------------------
(* The order of the steps.                                                 *)

\* Every command appends last, after a lookup and a snapshot; the policy is
\* asked before the snapshot, and a lookup after the snapshot follows it.
Ordered(S, op) ==
    /\ Len(S) \in 4 .. 6 /\ DOMAIN S = 1 .. Len(S)
    /\ \A k \in 1 .. Len(S) : S[k] = "append" <=> k = Len(S)
    /\ \A step \in {"existing", "prepare"} : \E j \in 1 .. Len(S) - 1 : S[j] = step
    /\ op = "apply_service_decision" => \E j \in 1 .. Len(S) - 1 : S[j] = "policy"
    /\ \A k \in 1 .. Len(S) : S[k] = "policy" =>
          op = "apply_service_decision" /\ \A j \in 1 .. k - 1 : S[j] # "prepare"
    /\ \A k \in 1 .. Len(S) : S[k] = "prepare" =>
          \A j \in 1 .. k - 1 : /\ S[j] # "prepare"
                                /\ op \in {"grade_closed", "record_verified_grade"} =>
                                      S[j] # "existing"
    /\ \A k \in 1 .. Len(S) : S[k] = "existing" =>
          \A j \in 1 .. k - 1 : S[j] = "prepare" => k > 1 /\ S[k - 1] = "prepare"

\* The order of the steps of each command.
LEMMA StepsOrder ==
  ASSUME NEW op \in DOMAIN Steps
  PROVE  Ordered(Steps[op], op)
  <1> DEFINE S == Steps[op]
  <1>1. CASE op \in {"record_generated", "record_human_decision", "record", "retract", "resolve"}
    <2>1. S = <<"existing", "expect", "prepare", "append">>
      BY <1>1 DEF Steps
    <2> HIDE DEF S
    <2>2. Ordered(S, op)
      BY <1>1, <2>1 DEF Ordered
    <2> QED
      BY <2>2 DEF S
  <1>2. CASE op \in {"record_human_revision", "present_item", "record_attempt", "contest_grade"}
    <2>1. S = <<"existing", "prepare", "expect", "append">>
      BY <1>2 DEF Steps
    <2> HIDE DEF S
    <2>2. Ordered(S, op)
      BY <1>2, <2>1 DEF Ordered
    <2> QED
      BY <2>2 DEF S
  <1>3. CASE op \in {"grade_closed", "record_verified_grade"}
    <2>1. S = <<"prepare", "existing", "expect", "append">>
      BY <1>3 DEF Steps
    <2> HIDE DEF S
    <2>2. Ordered(S, op)
      BY <1>3, <2>1 DEF Ordered
    <2> QED
      BY <2>2 DEF S
  <1>4. CASE op = "apply_service_decision"
    <2>1. S = <<"existing", "expect", "policy", "existing", "prepare", "append">>
      BY <1>4 DEF Steps
    <2> HIDE DEF S
    <2>2. Ordered(S, op)
      BY <1>4, <2>1 DEF Ordered
    <2> QED
      BY <2>2 DEF S
  <1> QED
    BY <1>1, <1>2, <1>3, <1>4 DEF Steps

-----------------------------------------------------------------------------
(* The invariant of the composition.                                       *)

\* A call that nothing it reads has changed.
LEMMA SameCall ==
  ASSUME NEW c, CallSound(c), client'[c] = client[c], course' = course, owners' = owners
  PROVE  CallSound(c)'
  <1>1. Drafts(c)' = Drafts(c)
    BY DEF Drafts
  <1>2. \A step : Passed(c, step)' = Passed(c, step)
    BY DEF Passed
  <1>3. ReadsAgree(c)' = ReadsAgree(c)
    BY <1>1, <1>2 DEF ReadsAgree
  <1> QED
    BY <1>3 DEF CallSound

\* A call that has returned.
LEMMA ReturnedCall ==
  ASSUME NEW c, NEW out \in Outcomes, client'[c] = Idle(out)
  PROVE  CallSound(c)'
  <1>1. PICK that : that = client'[c]
    OBVIOUS
  <1>2. that = [pc |-> 0, cmd |-> None, expected |-> 0, receipt |-> None, event |-> None,
                out |-> out]
    BY <1>1 DEF Idle
  <1>3. /\ that = [pc |-> that.pc, cmd |-> that.cmd, expected |-> that.expected,
                   receipt |-> that.receipt, event |-> that.event, out |-> that.out]
        /\ that.out \in Outcomes /\ that.pc = 0
    BY <1>2
  <1> QED
    BY <1>1, <1>3 DEF CallSound

\* Where a call stands at one of its steps.
LEMMA AtStep ==
  ASSUME NEW c, CallSound(c), NEW step, At(c, step)
  PROVE  LET S == Steps[client[c].cmd.op]
             k == client[c].pc
         IN /\ client[c].cmd.op \in DOMAIN Steps /\ Ordered(S, client[c].cmd.op)
            /\ k \in 1 .. Len(S) /\ Len(S) \in Nat /\ S[k] = step
            /\ step # "append" => k + 1 <= Len(S)
            /\ step = "append" => k = Len(S)
  <1> DEFINE S == Steps[client[c].cmd.op]
             k == client[c].pc
             n == Len(S)
  <1>1. /\ k > 0 /\ k \in DOMAIN S /\ S[k] = step
    BY DEF At
  <1>2. client[c].cmd.op \in DOMAIN Steps
    BY <1>1 DEF CallSound
  <1>3. Ordered(S, client[c].cmd.op)
    BY <1>2, StepsOrder
  <1> HIDE DEF S
  <1> HIDE DEF n, k
  <1>4. n \in Nat /\ k \in 1 .. n /\ (step = "append" <=> k = n)
    <2>1. n \in 4 .. 6 /\ DOMAIN S = 1 .. n /\ \A j \in 1 .. n : S[j] = "append" <=> j = n
      BY <1>3 DEF Ordered, n
    <2> QED
      BY <1>1, <2>1
  <1>5. step # "append" => k + 1 <= n
    BY <1>4
  <1> QED
    BY <1>1, <1>2, <1>3, <1>4, <1>5 DEF S, n, k

\* What the next step has behind it.
LEMMA PassedNext ==
  ASSUME NEW c, NEW step, CallSound(c), At(c, step),
         client'[c].cmd = client[c].cmd, client'[c].pc = client[c].pc + 1, NEW x
  PROVE  Passed(c, x)' <=> Passed(c, x) \/ step = x
  <1> DEFINE S == Steps[client[c].cmd.op]
             k == client[c].pc
  <1>1. k \in Nat \ {0} /\ S[k] = step
    <2>1. k \in 1 .. Len(S) /\ Len(S) \in Nat /\ S[k] = step
      BY AtStep
    <2> HIDE DEF S, k
    <2> QED
      BY <2>1
  <1>2. Passed(c, x)' <=> \E j \in 1 .. (k + 1) - 1 : S[j] = x
    BY DEF Passed
  <1>3. Passed(c, x) <=> \E j \in 1 .. k - 1 : S[j] = x
    BY DEF Passed
  <1> HIDE DEF S, k
  <1>4. \A j : j \in 1 .. (k + 1) - 1 <=> (j \in 1 .. k - 1 \/ j = k)
    BY <1>1
  <1> QED
    BY <1>1, <1>2, <1>3, <1>4

\* The call goes one step on with what it has read.
GoesOn(c, receipt, event) ==
    client'[c] = [client[c] EXCEPT !.pc = @ + 1, !.receipt = receipt, !.event = event]

\* What a call must have read to have done this step, while nobody has appended.
StepReads(c, step, receipt, event) ==
    /\ Passed(c, "existing") \/ step = "existing" => ~IsRecorded(course, client[c].cmd)
    /\ Passed(c, "policy") \/ step = "policy" =>
          receipt \in PolicyReceipts(course.study_artifacts, client[c].cmd)
    /\ IF Passed(c, "prepare") \/ step = "prepare"
       THEN \/ event \in Drafts(c)'
            \/ event = None /\ ~Passed(c, "existing") /\ step # "existing"
       ELSE event = None

\* A call that goes one step on knows what it knew and what it has just read.
LEMMA AdvancedCall ==
  ASSUME NEW c, NEW step, step # "append", CallSound(c), At(c, step),
         course' = course, owners' = owners,
         NEW receipt, NEW event, GoesOn(c, receipt, event),
         client[c].expected = course.sequence => StepReads(c, step, receipt, event)
  PROVE  CallSound(c)'
  <1>1. PICK this : this = client[c]
    OBVIOUS
  <1>2. PICK that : that = client'[c]
    OBVIOUS
  <1>3. /\ this = [pc |-> this.pc, cmd |-> this.cmd, expected |-> this.expected,
                   receipt |-> this.receipt, event |-> this.event, out |-> this.out]
        /\ this.out \in Outcomes /\ this.pc \in Nat /\ this.pc > 0
        /\ this.out = "none" /\ this.cmd.op \in DOMAIN Steps /\ ArgumentsSound(this.cmd)
        /\ this.expected \in Nat /\ this.expected <= course.sequence
    BY <1>1 DEF CallSound, At
  <1>4. /\ that = [pc |-> that.pc, cmd |-> that.cmd, expected |-> that.expected,
                   receipt |-> that.receipt, event |-> that.event, out |-> that.out]
        /\ that.pc = this.pc + 1 /\ that.cmd = this.cmd /\ that.expected = this.expected
        /\ that.receipt = receipt /\ that.event = event /\ that.out = this.out
    BY <1>1, <1>2, <1>3 DEF GoesOn
  <1>5. that.pc <= Len(Steps[that.cmd.op]) /\ Len(Steps[that.cmd.op]) \in Nat
    BY <1>1, <1>4, AtStep
  <1>6. \A x : Passed(c, x)' <=> Passed(c, x) \/ step = x
    BY <1>1, <1>2, <1>4, PassedNext
  <1>7. that.expected = course.sequence => ReadsAgree(c)'
    BY <1>1, <1>2, <1>4, <1>5, <1>6 DEF ReadsAgree, StepReads
  <1>8. that.pc \in Nat /\ that.pc > 0 /\ that.pc <= Len(Steps[that.cmd.op]) + 1
    BY <1>3, <1>4, <1>5
  <1> QED
    BY <1>2, <1>3, <1>4, <1>7, <1>8 DEF CallSound

\* A step of one call leaves the others as they were.
LEMMA OneStep ==
  ASSUME RecordsInv, NEW c \in Clients, NEW that, client' = [client EXCEPT ![c] = that],
         CallSound(c)', course' = course, owners' = owners
  PROVE  RecordsInv'
  <1>1. \A d \in Clients : CallSound(d)'
    BY SameCall DEF RecordsInv
  <1>2. \A o \in owners' : OwnerSound(o)'
    BY DEF RecordsInv, OwnerSound
  <1> QED
    BY <1>1, <1>2 DEF RecordsInv

\* The fields of a command.
LEMMA CommandFields ==
  ASSUME NEW op, NEW ctx, NEW args, NEW fingerprint
  PROVE  /\ Command(op, ctx, args, fingerprint).op = op
         /\ \A k \in DOMAIN args : k \notin {"op", "ctx", "fingerprint"} =>
               Command(op, ctx, args, fingerprint)[k] = args[k]
  <1>1. PICK fixed : fixed = [op |-> op, ctx |-> ctx, fingerprint |-> fingerprint]
    OBVIOUS
  <1>2. DOMAIN fixed = {"op", "ctx", "fingerprint"} /\ fixed.op = op
    BY <1>1
  <1>3. Command(op, ctx, args, fingerprint) =
           [k \in DOMAIN args \union DOMAIN fixed |-> IF k \in DOMAIN fixed THEN fixed[k] ELSE args[k]]
    BY <1>1 DEF Command, Overlaid
  <1> QED
    BY <1>2, <1>3

\* The callers choose sound arguments.
LEMMA ArtifactCommandsSound ==
  ASSUME NEW ctx, NEW cmd \in ArtifactCommands(ctx)
  PROVE  cmd.op \in DOMAIN Steps /\ ArgumentsSound(cmd)
  <1> DEFINE A == course.study_artifacts
             fresh == [content : HumanContents, cites : {{}}, target : {None}, prior : {None}]
             next(a) == [content : HumanContents, cites : {{}}, target : {a}, prior : history(A, a)]
             proposals == fresh \union UNION {next(a) : a \in DOMAIN A.artifacts}
  <1>1. \/ \E x \in [run : Runs] :
              cmd = Command("record_generated", ctx, x, <<"generated", x.run>>)
        \/ \E x \in [proposal : proposals, interaction : Interactions] :
              cmd = Command("record_human_revision", ctx, x,
                            <<"human_authored", x.interaction, x.proposal.target,
                              x.proposal.content.label, x.proposal.prior>>)
    BY Zenon DEF ArtifactCommands
  <1>2. \A p \in proposals : p.content \in HumanContents
    OBVIOUS
  <1> HIDE DEF proposals
  <1>3. CASE \E x \in [run : Runs] :
                cmd = Command("record_generated", ctx, x, <<"generated", x.run>>)
    <2>1. PICK x \in [run : Runs] :
             cmd = Command("record_generated", ctx, x, <<"generated", x.run>>)
      BY <1>3
    <2>2. cmd.op = "record_generated" /\ cmd.run = x.run
      BY <2>1, CommandFields
    <2> QED
      BY <2>2 DEF ArgumentsSound, Steps
  <1>4. CASE \E x \in [proposal : proposals, interaction : Interactions] :
                cmd = Command("record_human_revision", ctx, x,
                              <<"human_authored", x.interaction, x.proposal.target,
                                x.proposal.content.label, x.proposal.prior>>)
    <2>1. PICK x \in [proposal : proposals, interaction : Interactions] :
             cmd = Command("record_human_revision", ctx, x,
                           <<"human_authored", x.interaction, x.proposal.target,
                             x.proposal.content.label, x.proposal.prior>>)
      BY <1>4
    <2>2. /\ cmd.op = "record_human_revision" /\ cmd.proposal = x.proposal
          /\ cmd.interaction = x.interaction
      BY <2>1, CommandFields
    <2> QED
      BY <1>2, <2>2 DEF ArgumentsSound, Steps
  <1> QED
    BY <1>1, <1>3, <1>4

\* The decisions a caller issues have sound arguments.
LEMMA DecisionCommandsSound ==
  ASSUME NEW ctx, NEW cmd \in DecisionCommands(ctx)
  PROVE  cmd.op \in DOMAIN Steps /\ ArgumentsSound(cmd)
  <1> DEFINE A == course.study_artifacts
             named(r) == {None} \union _current_accepted(A, A.revisions[r].artifact_id)
             decisions(r) == [revision : {r}, decision : {"accept", "reject"},
                              supersedes : named(r)]
             all == UNION {decisions(r) : r \in DOMAIN A.revisions}
  <1>1. \/ \E x \in [revision : DOMAIN A.revisions] :
              cmd = Command("apply_service_decision", ctx, x, <<"service_policy", x.revision>>)
        \/ \E x \in all : cmd = Command("record_human_decision", ctx, x,
                                         <<x.revision, x.decision, x.supersedes>>)
    BY Zenon DEF DecisionCommands
  <1>2. \A x \in all : DOMAIN x = {"revision", "decision", "supersedes"}
                       /\ x.decision \in {"accept", "reject"}
    OBVIOUS
  <1> HIDE DEF all, A
  <1>3. CASE \E x \in [revision : DOMAIN A.revisions] :
                cmd = Command("apply_service_decision", ctx, x, <<"service_policy", x.revision>>)
    <2>1. cmd.op = "apply_service_decision"
      BY <1>3, CommandFields
    <2> QED
      BY <2>1 DEF ArgumentsSound, Steps
  <1>4. CASE \E x \in all : cmd = Command("record_human_decision", ctx, x,
                                          <<x.revision, x.decision, x.supersedes>>)
    <2>1. PICK x \in all : cmd = Command("record_human_decision", ctx, x,
                                         <<x.revision, x.decision, x.supersedes>>)
      BY <1>4
    <2>2. cmd.op = "record_human_decision" /\ cmd.decision = x.decision
      BY <1>2, <2>1, CommandFields
    <2> QED
      BY <1>2, <2>2 DEF ArgumentsSound, Steps
  <1> QED
    BY <1>1, <1>3, <1>4

\* So have the commands of assessments and context.
LEMMA OtherCommandsSound ==
  ASSUME NEW ctx, NEW cmd \in AssessmentCommands(ctx) \union ContextCommands(ctx)
  PROVE  cmd.op \in DOMAIN Steps /\ ArgumentsSound(cmd)
  <1>1. ASSUME cmd \in AssessmentCommands(ctx)
        PROVE  \E op \in {"present_item", "record_attempt", "grade_closed",
                          "record_verified_grade", "contest_grade"} :
                  \E x, fingerprint : cmd = Command(op, ctx, x, fingerprint)
    BY <1>1, Zenon DEF AssessmentCommands
  <1>2. ASSUME cmd \in ContextCommands(ctx)
        PROVE  \E op \in {"record", "retract", "resolve"} :
                  \E x, fingerprint : cmd = Command(op, ctx, x, fingerprint)
    BY <1>2, Zenon DEF ContextCommands
  <1>3. cmd.op \in {"present_item", "record_attempt", "grade_closed", "record_verified_grade",
                    "contest_grade", "record", "retract", "resolve"}
    BY <1>1, <1>2, CommandFields
  <1> QED
    BY <1>3 DEF ArgumentsSound, Steps

\* So have all commands.
LEMMA OfferedSound ==
  ASSUME NEW ctx, NEW cmd \in Offered(ctx)
  PROVE  cmd.op \in DOMAIN Steps /\ ArgumentsSound(cmd)
  <1>1. cmd \in ArtifactCommands(ctx) \union DecisionCommands(ctx)
               \union AssessmentCommands(ctx) \union ContextCommands(ctx)
    BY DEF Offered
  <1> QED
    BY <1>1, ArtifactCommandsSound, DecisionCommandsSound, OtherCommandsSound

\* A caller begins.
LEMMA CallKeeps ==
  ASSUME RecordsInv, NEW c \in Clients, call(c)
  PROVE  RecordsInv'
  <1>1. PICK ctx \in offered.contexts : \E cmd \in Offered(ctx) :
           client' = [client EXCEPT ![c] = [Idle("none") EXCEPT !.pc = 1, !.cmd = cmd,
                                                                !.expected = course.sequence]]
    BY DEF call
  <1>2. PICK cmd \in Offered(ctx) :
           client' = [client EXCEPT ![c] = [Idle("none") EXCEPT !.pc = 1, !.cmd = cmd,
                                                                !.expected = course.sequence]]
    BY <1>1
  <1>3. cmd.op \in DOMAIN Steps /\ ArgumentsSound(cmd)
    BY OfferedSound
  <1>4. PICK that : that = [Idle("none") EXCEPT !.pc = 1, !.cmd = cmd,
                                                !.expected = course.sequence]
    OBVIOUS
  <1>5. /\ that = [pc |-> that.pc, cmd |-> that.cmd, expected |-> that.expected,
                   receipt |-> that.receipt, event |-> that.event, out |-> that.out]
        /\ that.pc = 1 /\ that.cmd = cmd /\ that.expected = course.sequence
        /\ that.event = None /\ that.out = "none"
    BY <1>4 DEF Idle
  <1>6. client' = [client EXCEPT ![c] = that] /\ client'[c] = that
    BY <1>2, <1>4 DEF RecordsInv
  <1>7. PICK n \in 4 .. 6 : n = Len(Steps[cmd.op])
    BY <1>3, StepsOrder DEF Ordered
  <1>8. \A x : ~Passed(c, x)'
    BY <1>5, <1>6 DEF Passed
  <1>9. course' = course /\ owners' = owners /\ course.sequence \in Nat
    BY DEF call, RecordsInv, CourseSound
  <1>10. ReadsAgree(c)'
    <2>1. client'[c].pc <= Len(Steps[client'[c].cmd.op]) /\ client'[c].event = None
      <3>1. client'[c].pc = 1 /\ client'[c].cmd = cmd /\ client'[c].event = None /\ 1 <= n
        BY <1>5, <1>6
      <3> QED
        BY <1>7, <3>1
    <2>2. ~Passed(c, "existing")' /\ ~Passed(c, "policy")' /\ ~Passed(c, "prepare")'
      BY <1>8
    <2> QED
      BY <2>1, <2>2 DEF ReadsAgree
  <1>11. 1 \in Nat /\ 1 > 0 /\ 1 <= Len(Steps[cmd.op]) + 1 /\ course.sequence <= course.sequence
    BY <1>7, <1>9
  <1>12. CallSound(c)'
    BY <1>3, <1>5, <1>6, <1>9, <1>10, <1>11 DEF CallSound, Outcomes
  <1> QED
    BY <1>6, <1>9, <1>12, OneStep

\* A call that returns keeps the invariant.
LEMMA ReturnKeeps ==
  ASSUME RecordsInv, NEW c \in Clients, NEW out \in Outcomes, Return(c, out),
         course' = course, owners' = owners
  PROVE  RecordsInv'
  <1>1. client' = [client EXCEPT ![c] = Idle(out)] /\ client'[c] = Idle(out)
    BY DEF Return, RecordsInv
  <1> QED
    BY <1>1, ReturnedCall, OneStep

\* A step on, with what the call has read.
LEMMA AdvanceIs ==
  ASSUME RecordsInv, NEW c \in Clients, Advance(c)
  PROVE  /\ client' = [client EXCEPT ![c] = client'[c]]
         /\ GoesOn(c, client[c].receipt, client[c].event)
         /\ client'[c].cmd = client[c].cmd /\ client'[c].receipt = client[c].receipt
  <1>1. PICK this : this = client[c]
    OBVIOUS
  <1>2. /\ this = [pc |-> this.pc, cmd |-> this.cmd, expected |-> this.expected,
                   receipt |-> this.receipt, event |-> this.event, out |-> this.out]
        /\ c \in DOMAIN client
    BY <1>1 DEF RecordsInv, CallSound
  <1>3. client' = [client EXCEPT ![c] = [this EXCEPT !.pc = @ + 1]]
    BY <1>1 DEF Advance
  <1>4. [this EXCEPT !.pc = @ + 1] = [this EXCEPT !.pc = @ + 1, !.receipt = this.receipt,
                                                  !.event = this.event]
    BY <1>2
  <1>5. client'[c].cmd = this.cmd /\ client'[c].receipt = this.receipt
    BY <1>2, <1>3
  <1> QED
    BY <1>1, <1>2, <1>3, <1>4, <1>5 DEF GoesOn

\* A step that leaves the course leaves what a call can build from it.
LEMMA SameDrafts ==
  ASSUME NEW c, course' = course, owners' = owners, client'[c].cmd = client[c].cmd,
         client'[c].receipt = client[c].receipt
  PROVE  Drafts(c)' = Drafts(c)
  BY DEF Drafts

\* _existing looks the identity of the command up.
LEMMA ExistingKeeps ==
  ASSUME RecordsInv, NEW c \in Clients, _existing(c)
  PROVE  RecordsInv'
  <1>1. At(c, "existing") /\ course' = course /\ owners' = owners /\ CallSound(c)
    BY DEF _existing, RecordsInv
  <1>2. \/ \E out \in {"done", "conflict", "refused"} : Return(c, out)
        \/ /\ ~IsRecorded(course, client[c].cmd) /\ Advance(c)
           /\ client[c].pc > 1 /\ Steps[client[c].cmd.op][client[c].pc - 1] = "prepare" =>
                 client[c].event # None
    BY DEF _existing
  <1>3. CASE \E out \in {"done", "conflict", "refused"} : Return(c, out)
    BY <1>1, <1>3, ReturnKeeps DEF Outcomes
  <1>4. CASE /\ ~IsRecorded(course, client[c].cmd) /\ Advance(c)
             /\ client[c].pc > 1 /\ Steps[client[c].cmd.op][client[c].pc - 1] = "prepare" =>
                   client[c].event # None
    <2>1. /\ client' = [client EXCEPT ![c] = client'[c]]
          /\ GoesOn(c, client[c].receipt, client[c].event)
          /\ client'[c].cmd = client[c].cmd /\ client'[c].receipt = client[c].receipt
      BY <1>4, AdvanceIs
    <2>3. Drafts(c)' = Drafts(c)
      BY <1>1, <2>1, SameDrafts
    <2>4. client[c].expected = course.sequence => ReadsAgree(c)
      BY <1>1 DEF CallSound, At
    <2>5. Passed(c, "prepare") => client[c].event # None
      <3>1. /\ client[c].cmd.op \in DOMAIN Steps
            /\ Ordered(Steps[client[c].cmd.op], client[c].cmd.op)
            /\ client[c].pc \in 1 .. Len(Steps[client[c].cmd.op])
            /\ Steps[client[c].cmd.op][client[c].pc] = "existing"
        BY <1>1, AtStep
      <3> QED
        BY <1>4, <3>1 DEF Passed, Ordered
    <2>6. client[c].expected = course.sequence =>
             StepReads(c, "existing", client[c].receipt, client[c].event)
      BY <1>4, <2>3, <2>4, <2>5 DEF ReadsAgree, StepReads
    <2>7. CallSound(c)'
      BY <1>1, <2>1, <2>6, AdvancedCall
    <2> QED
      BY <1>1, <2>1, <2>7, OneStep
  <1> QED
    BY <1>2, <1>3, <1>4

\* _expect_sequence compares the sequence of the caller.
LEMMA ExpectKeeps ==
  ASSUME RecordsInv, NEW c \in Clients, _expect_sequence(c)
  PROVE  RecordsInv'
  <1>1. At(c, "expect") /\ course' = course /\ owners' = owners /\ CallSound(c)
    BY DEF _expect_sequence, RecordsInv
  <1>2. CASE Return(c, "retry")
    BY <1>1, <1>2, ReturnKeeps DEF Outcomes
  <1>3. CASE Advance(c)
    <2>1. /\ client' = [client EXCEPT ![c] = client'[c]]
          /\ GoesOn(c, client[c].receipt, client[c].event)
          /\ client'[c].cmd = client[c].cmd /\ client'[c].receipt = client[c].receipt
      BY <1>3, AdvanceIs
    <2>3. Drafts(c)' = Drafts(c)
      BY <1>1, <2>1, SameDrafts
    <2>4. client[c].expected = course.sequence => ReadsAgree(c)
      BY <1>1 DEF CallSound, At
    <2>5. client[c].expected = course.sequence =>
             StepReads(c, "expect", client[c].receipt, client[c].event)
      BY <2>3, <2>4 DEF ReadsAgree, StepReads
    <2>6. CallSound(c)'
      BY <1>1, <2>1, <2>5, AdvancedCall
    <2> QED
      BY <1>1, <2>1, <2>6, OneStep
  <1> QED
    BY <1>2, <1>3 DEF _expect_sequence

\* decide asks the policy for a receipt.
LEMMA DecideKeeps ==
  ASSUME RecordsInv, NEW c \in Clients, decide(c)
  PROVE  RecordsInv'
  <1>1. At(c, "policy") /\ course' = course /\ owners' = owners /\ CallSound(c)
    BY DEF decide, RecordsInv
  <1>2. \/ Return(c, "refused")
        \/ \E r \in PolicyReceipts(course.study_artifacts, client[c].cmd) :
              client' = [client EXCEPT ![c].pc = @ + 1, ![c].receipt = r]
    BY DEF decide
  <1>3. CASE Return(c, "refused")
    BY <1>1, <1>3, ReturnKeeps DEF Outcomes
  <1>4. CASE \E r \in PolicyReceipts(course.study_artifacts, client[c].cmd) :
                client' = [client EXCEPT ![c].pc = @ + 1, ![c].receipt = r]
    <2>1. PICK r \in PolicyReceipts(course.study_artifacts, client[c].cmd) :
             client' = [client EXCEPT ![c].pc = @ + 1, ![c].receipt = r]
      BY <1>4
    <2>2. PICK this : this = client[c]
      OBVIOUS
    <2>3. /\ this = [pc |-> this.pc, cmd |-> this.cmd, expected |-> this.expected,
                     receipt |-> this.receipt, event |-> this.event, out |-> this.out]
          /\ c \in DOMAIN client
      BY <2>2 DEF RecordsInv, CallSound
    <2>4. client' = [client EXCEPT ![c] = [this EXCEPT !.pc = @ + 1, !.receipt = r]]
      BY <2>1, <2>2, <2>3
    <2>5. [this EXCEPT !.pc = @ + 1, !.receipt = r] =
             [this EXCEPT !.pc = @ + 1, !.receipt = r, !.event = this.event]
      BY <2>3
    <2>6. GoesOn(c, r, client[c].event) /\ client' = [client EXCEPT ![c] = client'[c]]
      BY <2>2, <2>3, <2>4, <2>5 DEF GoesOn
    <2>7. client[c].expected = course.sequence => ReadsAgree(c)
      BY <1>1 DEF CallSound, At
    <2>8. ~Passed(c, "prepare")
      <3>1. /\ Ordered(Steps[client[c].cmd.op], client[c].cmd.op)
            /\ client[c].pc \in 1 .. Len(Steps[client[c].cmd.op])
            /\ Steps[client[c].cmd.op][client[c].pc] = "policy"
        BY <1>1, AtStep
      <3> QED
        BY <3>1 DEF Passed, Ordered
    <2>9. client[c].expected = course.sequence => StepReads(c, "policy", r, client[c].event)
      BY <2>7, <2>8 DEF ReadsAgree, StepReads
    <2>10. CallSound(c)'
      BY <1>1, <2>6, <2>9, AdvancedCall
    <2> QED
      BY <1>1, <2>6, <2>10, OneStep
  <1> QED
    BY <1>2, <1>3, <1>4

\* prepare builds the event.
LEMMA PrepareKeeps ==
  ASSUME RecordsInv, NEW c \in Clients, prepare(c)
  PROVE  RecordsInv'
  <1>1. At(c, "prepare") /\ course' = course /\ owners' = owners /\ CallSound(c)
    BY DEF prepare, RecordsInv
  <1>2. client[c].expected = course.sequence => ReadsAgree(c)
    BY <1>1 DEF CallSound, At
  <1>3. /\ ~Passed(c, "prepare")
        /\ client[c].cmd.op \in {"grade_closed", "record_verified_grade"} =>
              ~Passed(c, "existing")
    <2>1. /\ Ordered(Steps[client[c].cmd.op], client[c].cmd.op)
          /\ client[c].pc \in 1 .. Len(Steps[client[c].cmd.op])
          /\ Steps[client[c].cmd.op][client[c].pc] = "prepare"
      BY <1>1, AtStep
    <2> QED
      BY <2>1 DEF Passed, Ordered
  <1>4. \/ \E e \in Drafts(c) : client' = [client EXCEPT ![c].pc = @ + 1, ![c].event = e]
        \/ GradeTargetFound(c) /\ Advance(c)
        \/ Return(c, "refused")
    BY DEF prepare
  <1>5. CASE \E e \in Drafts(c) : client' = [client EXCEPT ![c].pc = @ + 1, ![c].event = e]
    <2>1. PICK e \in Drafts(c) : client' = [client EXCEPT ![c].pc = @ + 1, ![c].event = e]
      BY <1>5
    <2>2. PICK this : this = client[c]
      OBVIOUS
    <2>3. /\ this = [pc |-> this.pc, cmd |-> this.cmd, expected |-> this.expected,
                     receipt |-> this.receipt, event |-> this.event, out |-> this.out]
          /\ c \in DOMAIN client
      BY <2>2 DEF RecordsInv, CallSound
    <2>4. client' = [client EXCEPT ![c] = [this EXCEPT !.pc = @ + 1, !.event = e]]
      BY <2>1, <2>2, <2>3
    <2>5. [this EXCEPT !.pc = @ + 1, !.event = e] =
             [this EXCEPT !.pc = @ + 1, !.receipt = this.receipt, !.event = e]
      BY <2>3
    <2>6. GoesOn(c, client[c].receipt, e) /\ client' = [client EXCEPT ![c] = client'[c]]
      BY <2>2, <2>3, <2>4, <2>5 DEF GoesOn
    <2>7. client'[c].cmd = client[c].cmd /\ client'[c].receipt = client[c].receipt
      BY <2>2, <2>3, <2>4
    <2>8. Drafts(c)' = Drafts(c)
      BY <1>1, <2>7, SameDrafts
    <2>9. client[c].expected = course.sequence => StepReads(c, "prepare", client[c].receipt, e)
      BY <1>2, <2>8 DEF ReadsAgree, StepReads
    <2>10. CallSound(c)'
      BY <1>1, <2>6, <2>9, AdvancedCall
    <2> QED
      BY <1>1, <2>6, <2>10, OneStep
  <1>6. CASE GradeTargetFound(c) /\ Advance(c)
    <2>1. /\ client' = [client EXCEPT ![c] = client'[c]]
          /\ GoesOn(c, client[c].receipt, client[c].event)
      BY <1>6, AdvanceIs
    <2>2. ~Passed(c, "existing")
      BY <1>3, <1>6 DEF GradeTargetFound
    <2>3. client[c].expected = course.sequence =>
             StepReads(c, "prepare", client[c].receipt, client[c].event)
      BY <1>2, <1>3, <2>2 DEF ReadsAgree, StepReads
    <2>4. CallSound(c)'
      BY <1>1, <2>1, <2>3, AdvancedCall
    <2> QED
      BY <1>1, <2>1, <2>4, OneStep
  <1>7. CASE Return(c, "refused")
    BY <1>1, <1>7, ReturnKeeps DEF Outcomes
  <1> QED
    BY <1>4, <1>5, <1>6, <1>7

\* At its append a call whose sequence still stands has an event the services
\* built from this very course, for an identity that is free.
LEMMA AppendReads ==
  ASSUME NoneIsNoDigest, RecordsInv, NEW c \in Clients, At(c, "append"),
         client[c].expected = course.sequence
  PROVE  /\ Made(course, client[c].event, client[c].cmd)
         /\ ~IsRecorded(course, client[c].cmd)
         /\ client[c].cmd.op \in DOMAIN Steps
  <1>1. CallSound(c) /\ CourseSound(course) /\ \A o \in owners : OwnerSound(o)
    BY DEF RecordsInv
  <1>2. /\ client[c].cmd.op \in DOMAIN Steps
        /\ Ordered(Steps[client[c].cmd.op], client[c].cmd.op)
        /\ client[c].pc = Len(Steps[client[c].cmd.op])
    BY <1>1, AtStep
  <1>3. ReadsAgree(c) /\ ArgumentsSound(client[c].cmd)
    BY <1>1 DEF CallSound, At
  <1>4. /\ Passed(c, "existing") /\ Passed(c, "prepare")
        /\ client[c].cmd.op = "apply_service_decision" => Passed(c, "policy")
    BY <1>2 DEF Passed, Ordered
  <1>5. /\ ~IsRecorded(course, client[c].cmd) /\ client[c].event \in Drafts(c)
        /\ client[c].cmd.op = "apply_service_decision" =>
              client[c].receipt \in PolicyReceipts(course.study_artifacts, client[c].cmd)
    BY <1>3, <1>4 DEF ReadsAgree
  <1> QED
    BY <1>1, <1>2, <1>3, <1>5, Drafting

\* What an append does.
LEMMA AppendCases ==
  ASSUME NEW c, _append(c)
  PROVE  /\ At(c, "append") /\ owners' = owners
         /\ \/ /\ course.sequence # client[c].expected /\ course' = course
               /\ client' = [client EXCEPT ![c].pc = Len(Steps[client[c].cmd.op]) + 1]
            \/ /\ course.sequence = client[c].expected /\ course' = course
               /\ ~Reducible(course, client[c].event) /\ Return(c, "invalid")
            \/ /\ course.sequence = client[c].expected
               /\ Reducible(course, client[c].event)
               /\ course' = Reduce(course, client[c].event) /\ Return(c, "done")
  BY DEF _append

\* _append writes the event only at the sequence the call has read.
LEMMA AppendKeeps ==
  ASSUME NoneIsNoDigest, RecordsInv, NEW c \in Clients, _append(c)
  PROVE  RecordsInv'
  <1>1. At(c, "append") /\ owners' = owners /\ CallSound(c)
    BY AppendCases DEF RecordsInv
  <1>2. CASE /\ course.sequence # client[c].expected /\ course' = course
             /\ client' = [client EXCEPT ![c].pc = Len(Steps[client[c].cmd.op]) + 1]
    <2>1. PICK this : this = client[c]
      OBVIOUS
    <2>2. PICK that : that = client'[c]
      OBVIOUS
    <2>3. /\ this = [pc |-> this.pc, cmd |-> this.cmd, expected |-> this.expected,
                     receipt |-> this.receipt, event |-> this.event, out |-> this.out]
          /\ c \in DOMAIN client
          /\ this.out \in Outcomes /\ this.out = "none" /\ this.cmd.op \in DOMAIN Steps
          /\ ArgumentsSound(this.cmd)
          /\ this.expected \in Nat /\ this.expected <= course.sequence
      BY <1>1, <2>1 DEF RecordsInv, CallSound, At
    <2>4. PICK n \in 4 .. 6 : n = Len(Steps[this.cmd.op])
      BY <2>3, StepsOrder DEF Ordered
    <2>5. client' = [client EXCEPT ![c] = [this EXCEPT !.pc = n + 1]]
      BY <1>2, <2>1, <2>4
    <2>6. that = [this EXCEPT !.pc = n + 1] /\ client' = [client EXCEPT ![c] = that]
      BY <2>2, <2>3, <2>5
    <2>7. /\ that = [pc |-> that.pc, cmd |-> that.cmd, expected |-> that.expected,
                     receipt |-> that.receipt, event |-> that.event, out |-> that.out]
          /\ that.pc = n + 1 /\ that.cmd = this.cmd /\ that.expected = this.expected
          /\ that.out = this.out
      BY <2>3, <2>6
    <2>8. that.pc \in Nat /\ that.pc > 0 /\ that.pc <= Len(Steps[that.cmd.op]) + 1
      <3>1. n + 1 \in Nat /\ n + 1 > 0 /\ n + 1 <= n + 1
        BY <2>4
      <3> QED
        BY <2>4, <2>7, <3>1
    <2>9. CallSound(c)'
      BY <1>2, <2>1, <2>2, <2>3, <2>7, <2>8 DEF CallSound
    <2> QED
      BY <1>1, <1>2, <2>6, <2>9, OneStep
  <1>3. CASE course' = course /\ Return(c, "invalid")
    BY <1>1, <1>3, ReturnKeeps DEF Outcomes
  <1>4. CASE /\ course.sequence = client[c].expected
             /\ Reducible(course, client[c].event)
             /\ course' = Reduce(course, client[c].event) /\ Return(c, "done")
    <2>1. Made(course, client[c].event, client[c].cmd) /\ Drafted(course, client[c].event)
      BY <1>1, <1>4, AppendReads DEF Made
    <2>2. CourseSound(course) /\ CourseSound(course')
      BY <1>4, <2>1, ReduceKeeps DEF RecordsInv
    <2>3. course'.sequence = course.sequence + 1 /\ course.sequence \in Nat \ {0}
      BY <1>4, <2>2, CourseParts
    <2>4. \A o \in owners' : OwnerSound(o)'
      <3> SUFFICES ASSUME NEW o \in owners
                   PROVE  OwnerSound(o)'
        BY <1>1
      <3>1. OwnerSound(o)
        BY DEF RecordsInv
      <3>2. /\ o.attempt \in DOMAIN course'.assessments.attempts
            /\ course'.assessments.attempts[o.attempt] = course.assessments.attempts[o.attempt]
        BY <1>4, <2>1, <2>2, <3>1, ReduceKeepsAttempts DEF OwnerSound
      <3> QED
        BY <3>1, <3>2 DEF OwnerSound
    <2>5. CallSound(c)'
      <3>1. client'[c] = Idle("done")
        BY <1>4 DEF Return, RecordsInv
      <3> QED
        BY <3>1, ReturnedCall DEF Outcomes
    <2>6. ASSUME NEW d \in Clients, d # c
          PROVE  CallSound(d)'
      <3>1. client'[d] = client[d] /\ CallSound(d)
        BY <1>4, <2>6 DEF Return, RecordsInv
      <3>2. PICK this : this = client[d]
        OBVIOUS
      <3>3. this.pc > 0 => /\ this.expected \in Nat /\ this.expected <= course'.sequence
                           /\ this.expected # course'.sequence
        <4>1. this.pc > 0 => this.expected \in Nat /\ this.expected <= course.sequence
          BY <3>1, <3>2 DEF CallSound
        <4> QED
          BY <2>3, <4>1
      <3> QED
        BY <3>1, <3>2, <3>3 DEF CallSound
    <2>7. DOMAIN client' = Clients
      BY <1>4 DEF Return, RecordsInv
    <2> QED
      BY <2>2, <2>4, <2>5, <2>6, <2>7 DEF RecordsInv
  <1> QED
    BY <1>2, <1>3, <1>4, AppendCases

\* recheck looks the identity up after a lost race.
LEMMA RecheckKeeps ==
  ASSUME RecordsInv, NEW c \in Clients, recheck(c)
  PROVE  RecordsInv'
  <1>1. /\ course' = course /\ owners' = owners
        /\ \E out \in {"done", "conflict", "retry"} : Return(c, out)
    BY DEF recheck
  <1> QED
    BY <1>1, ReturnKeeps DEF Outcomes

\* A crash leaves the course.
LEMMA CrashKeeps ==
  ASSUME RecordsInv, NEW c \in Clients, crash(c)
  PROVE  RecordsInv'
  BY ReturnKeeps DEF crash, Outcomes

\* A new owner takes nothing from the drafts of the others.
LEMMA MoreDrafts ==
  ASSUME NEW c, course' = course, client' = client, owners \subseteq owners'
  PROVE  Drafts(c) \subseteq Drafts(c)'
  <1> DEFINE cmd == client[c].cmd
             G == course.assessments
  <1>1. recover_grade(owners, cmd.run, cmd.ctx) \subseteq recover_grade(owners', cmd.run, cmd.ctx)
    BY DEF recover_grade
  <1>2. record_verified_grade(G, owners, cmd) \subseteq record_verified_grade(G, owners', cmd)
    BY <1>1 DEF record_verified_grade
  <1> QED
    BY <1>2 DEF Drafts

\* The owner of a grading run appears with its attempt.
LEMMA PublishKeeps ==
  ASSUME RecordsInv, NEW run \in GradeRuns, NEW t, publish(run, t)
  PROVE  RecordsInv'
  <1>1. /\ course' = course /\ client' = client
        /\ t \in DOMAIN course.assessments.attempts
        /\ owners' = owners \union {OwnerReceipt(course.assessments, run, t)}
    BY DEF publish
  <1>2. OwnerSound(OwnerReceipt(course.assessments, run, t))
    <2>1. PICK o : o = OwnerReceipt(course.assessments, run, t)
      OBVIOUS
    <2>2. o.run = run /\ o.attempt = t /\ o.session = course.assessments.attempts[t].session
      BY <2>1 DEF OwnerReceipt
    <2> QED
      BY <1>1, <2>1, <2>2 DEF OwnerSound
  <1>3. \A o \in owners' : OwnerSound(o)'
    BY <1>1, <1>2 DEF RecordsInv, OwnerSound
  <1>4. ASSUME NEW d \in Clients
        PROVE  CallSound(d)'
    <2>1. CallSound(d)
      BY DEF RecordsInv
    <2>2. Drafts(d) \subseteq Drafts(d)'
      BY <1>1, MoreDrafts
    <2>3. \A x : Passed(d, x)' = Passed(d, x)
      BY <1>1 DEF Passed
    <2>4. ReadsAgree(d) => ReadsAgree(d)'
      BY <1>1, <2>2, <2>3 DEF ReadsAgree
    <2> QED
      BY <1>1, <2>1, <2>4 DEF CallSound
  <1> QED
    BY <1>1, <1>3, <1>4 DEF RecordsInv

\* The course before any command is sound, and so is every course the events
\* of the services make of it: the assumption on Starts asks no more.
LEMMA EmptyCourseSound ==
  CourseSound(EmptyCourse)
  <1>1. DOMAIN <<>> = {} /\ IsList(<<>>)
    <2>1. DOMAIN <<>> = {}
      OBVIOUS
    <2>2. <<>> \in Seq(ToSet(<<>>))
      OBVIOUS
    <2> QED
      BY <2>1, <2>2 DEF IsList
  <1>2. ArtifactsSound(NoArtifacts)
    BY <1>1 DEF ArtifactsSound, DecisionsSound, NoArtifacts
  <1>3. AssessmentsSound(NoAssessments, 1)
    BY <1>1 DEF AssessmentsSound, ContestsSound, NoAssessments
  <1>4. Ctx!ContextSound(Ctx!NoContext)
    BY <1>1 DEF Ctx!ContextSound, Ctx!LinkageIsSound, Ctx!NoContext, Ctx!IsList, IsList, Ctx!ToSet, ToSet
  <1>5. 1 \in Nat \ {0}
    OBVIOUS
  <1> QED
    BY <1>2, <1>3, <1>4, <1>5 DEF CourseSound, EmptyCourse

\* A sound course to start from, and no calls.
LEMMA InitRecords ==
  ASSUME Init
  PROVE  RecordsInv
  <1>1. PICK start \in Starts : /\ course = start.course /\ owners = {}
                                /\ client = [c \in Clients |-> Idle("none")]
    BY DEF Init
  <1>2. CourseSound(course)
    BY <1>1, StartsAssumption
  <1>3. ASSUME NEW c \in Clients
        PROVE  CallSound(c)
    <2>1. PICK this : this = client[c]
      OBVIOUS
    <2>2. this = [pc |-> 0, cmd |-> None, expected |-> 0, receipt |-> None, event |-> None,
                  out |-> "none"]
      BY <1>1, <2>1 DEF Idle
    <2>3. /\ this = [pc |-> this.pc, cmd |-> this.cmd, expected |-> this.expected,
                     receipt |-> this.receipt, event |-> this.event, out |-> this.out]
          /\ this.out = "none" /\ this.pc = 0
      BY <2>2
    <2> QED
      BY <2>1, <2>3 DEF CallSound, Outcomes
  <1> QED
    BY <1>1, <1>2, <1>3 DEF RecordsInv

\* Every step keeps the invariant.
LEMMA StepRecords ==
  ASSUME NoneIsNoDigest, RecordsInv, [Next]_vars
  PROVE  RecordsInv'
  <1>1. ASSUME UNCHANGED vars
        PROVE  RecordsInv'
    <2>1. course' = course /\ owners' = owners /\ client' = client
      BY <1>1 DEF vars
    <2>2. \A d \in Clients : CallSound(d)'
      BY <2>1, SameCall DEF RecordsInv
    <2> QED
      BY <2>1, <2>2 DEF RecordsInv, OwnerSound
  <1>2. ASSUME NEW c \in Clients,
               \/ call(c) \/ _existing(c) \/ _expect_sequence(c) \/ decide(c)
               \/ prepare(c) \/ _append(c) \/ recheck(c) \/ crash(c)
        PROVE  RecordsInv'
    BY <1>2, CallKeeps, ExistingKeeps, ExpectKeeps, DecideKeeps, PrepareKeeps, AppendKeeps,
       RecheckKeeps, CrashKeeps
  <1>3. ASSUME NEW run \in GradeRuns, NEW t, publish(run, t)
        PROVE  RecordsInv'
    BY <1>3, PublishKeeps
  <1> QED
    BY <1>1, <1>2, <1>3 DEF Next

\* The inductive invariant: the course is sound, every owner names an attempt,
\* and a call whose sequence still stands has read this very course.
THEOREM InvariantHolds ==
  ASSUME NoneIsNoDigest
  PROVE  Spec => []RecordsInv
  <1>1. Init => RecordsInv
    BY InitRecords
  <1>2. RecordsInv /\ [Next]_vars => RecordsInv'
    BY StepRecords
  <1> QED
    BY <1>1, <1>2, PTL DEF Spec

\* The invariant gives RecordsAreConsistent.
LEMMA SoundRecords ==
  ASSUME NoneIsNoDigest, RecordsInv
  PROVE  RecordsAreConsistent
  <1>1. CourseSound(course)
    BY DEF RecordsInv
  <1>2. /\ course.sequence \in Nat \ {0} /\ ArtifactsSound(course.study_artifacts)
        /\ AssessmentsSound(course.assessments, course.sequence)
    BY <1>1 DEF CourseSound
  <1>3. ReadableArtifacts(course.study_artifacts)
    BY <1>2 DEF ArtifactsSound, RevisionSound, BatchSound, DecisionsSound, ReadableArtifacts
  <1>4. ReadableAssessments(course.assessments)
    BY <1>2 DEF AssessmentsSound, AttemptSound, GradeSound, ContestsSound, ReadableAssessments
  <1>5. ASSUME NEW c \in Clients
        PROVE  client[c].out \in Outcomes /\ client[c].pc \in 0 .. 7
    <2>1. /\ client[c].out \in Outcomes /\ client[c].pc \in Nat
          /\ client[c].pc > 0 => /\ client[c].cmd.op \in DOMAIN Steps
                                 /\ client[c].pc <= Len(Steps[client[c].cmd.op]) + 1
      BY DEF RecordsInv, CallSound
    <2>2. CASE client[c].pc > 0
      <3>1. PICK n \in 4 .. 6 : n = Len(Steps[client[c].cmd.op])
        BY <2>1, <2>2, StepsOrder DEF Ordered
      <3>2. client[c].pc <= n + 1
        BY <2>1, <2>2, <3>1
      <3> QED
        BY <2>1, <3>2
    <2> QED
      BY <2>1, <2>2
  <1>6. ContextReadable /\ Ctx!ReadableContext(course.study_context)
    BY <1>1, SoundContext
  <1>7. TypeOK
    BY <1>2, <1>3, <1>4, <1>5, <1>6 DEF TypeOK
  <1> QED
    BY <1>1, <1>6, <1>7, SoundLineages, SoundDecisions, SoundAssessments DEF RecordsAreConsistent

\* Whatever services race, crash or retry, the projections keep the rules no
\* single reducer checks.
THEOREM RecordsHold ==
  ASSUME NoneIsNoDigest
  PROVE  Spec => []RecordsAreConsistent
  <1>1. RecordsInv => RecordsAreConsistent
    BY SoundRecords
  <1> QED
    BY <1>1, InvariantHolds, PTL

-----------------------------------------------------------------------------
(* What a step tells its caller.                                           *)

\* The answer of a step of process c, if it gives one, is true, and a refusal
\* by the reducers is one the services leave to them.
ToldTruth(c) ==
    client[c].pc > 0 /\ client'[c].pc = 0 =>
       /\ client'[c].out = "done" => IsMyRecord(course', client[c].cmd)
       /\ client'[c].out = "conflict" => IsRecorded(course, client[c].cmd)
       /\ client'[c].out = "retry" => course.sequence # client[c].expected

Agreed(c) == client[c].pc > 0 /\ client'[c].out = "invalid" => ReducerOnly(client[c].cmd)

\* A call that returns moves no other client.
LEMMA Returned ==
  ASSUME RecordsInv, NEW c \in Clients, NEW out, Return(c, out)
  PROVE  /\ client'[c].pc = 0 /\ client'[c].out = out
         /\ \A d \in Clients \ {c} : client'[d] = client[d]
  <1>1. client' = [client EXCEPT ![c] = Idle(out)] /\ DOMAIN client = Clients
    BY DEF Return, RecordsInv
  <1>2. Idle(out).pc = 0 /\ Idle(out).out = out
    BY DEF Idle
  <1> QED
    BY <1>1, <1>2

\* A call that goes on gives no answer.
LEMMA NoAnswer ==
  ASSUME RecordsInv, NEW c \in Clients,
         \/ client'[c].pc > 0 /\ client'[c].out = client[c].out
         \/ client'[c] = client[c] \/ client[c].pc = 0
  PROVE  ToldTruth(c) /\ Agreed(c)
  <1>1. client[c].pc \in Nat /\ (client[c].pc > 0 => client[c].out = "none")
    BY DEF RecordsInv, CallSound
  <1> QED
    BY <1>1 DEF ToldTruth, Agreed

\* A call that goes on answers nothing.
LEMMA Onwards ==
  ASSUME RecordsInv, NEW c \in Clients,
         client'[c].pc = client[c].pc + 1 /\ client'[c].out = client[c].out
  PROVE  ToldTruth(c) /\ Agreed(c)
  <1>1. client[c].pc \in Nat
    BY DEF RecordsInv, CallSound
  <1>2. client'[c].pc > 0
    BY <1>1
  <1> QED
    BY <1>2, NoAnswer

\* An identity that is found answers for what is recorded under it.
LEMMA ExistingTells ==
  ASSUME RecordsInv, NEW c \in Clients, _existing(c)
  PROVE  ToldTruth(c) /\ Agreed(c)
  <1>1. course' = course
    BY DEF _existing
  <1>2. \/ IsMyRecord(course, client[c].cmd) /\ Return(c, "done")
        \/ IsRecorded(course, client[c].cmd) /\ Return(c, "conflict")
        \/ Return(c, "refused")
        \/ Advance(c)
    BY DEF _existing
  <1>3. CASE Advance(c)
    BY <1>3, Onwards DEF Advance, RecordsInv, CallSound
  <1> QED
    BY <1>1, <1>2, <1>3, Returned DEF ToldTruth, Agreed

\* An append that succeeds is recorded as the caller's own; a refusal is one of
\* the checks left to the reducers.
LEMMA AppendTells ==
  ASSUME NoneIsNoDigest, RecordsInv, NEW c \in Clients, _append(c)
  PROVE  ToldTruth(c) /\ Agreed(c)
  <1>1. At(c, "append") /\ CourseSound(course) /\ CallSound(c)
    BY AppendCases DEF RecordsInv
  <1>2. CASE client' = [client EXCEPT ![c].pc = Len(Steps[client[c].cmd.op]) + 1]
    <2>1. PICK n \in 4 .. 6 : n = Len(Steps[client[c].cmd.op])
      BY <1>1, AtStep DEF Ordered
    <2>2. client'[c].pc = n + 1 /\ client'[c].out = client[c].out
      BY <1>1, <1>2, <2>1 DEF RecordsInv, CallSound
    <2>3. client'[c].pc > 0
      BY <2>2
    <2> QED
      BY <2>2, <2>3, NoAnswer
  <1>3. CASE /\ course.sequence = client[c].expected
             /\ ~Reducible(course, client[c].event) /\ Return(c, "invalid")
    <2>1. ReducerOnly(client[c].cmd)
      BY <1>1, <1>3, AppendReads DEF Made
    <2> QED
      BY <1>3, <2>1, Returned DEF ToldTruth, Agreed
  <1>4. CASE /\ course.sequence = client[c].expected
             /\ Reducible(course, client[c].event)
             /\ course' = Reduce(course, client[c].event) /\ Return(c, "done")
    <2>1. IsMyRecord(course', client[c].cmd)
      BY <1>1, <1>4, AppendReads, ReduceRecords
    <2> QED
      BY <1>4, <2>1, Returned DEF ToldTruth, Agreed
  <1> QED
    BY <1>2, <1>3, <1>4, AppendCases

\* The second lookup answers for what is recorded under the identity.
LEMMA RecheckTells ==
  ASSUME RecordsInv, NEW c \in Clients, recheck(c)
  PROVE  ToldTruth(c) /\ Agreed(c)
  <1>1. /\ course' = course /\ client[c].pc > 0
        /\ client[c].pc = Len(Steps[client[c].cmd.op]) + 1
        /\ \/ IsMyRecord(course, client[c].cmd) /\ Return(c, "done")
           \/ IsRecorded(course, client[c].cmd) /\ Return(c, "conflict")
           \/ Return(c, "retry")
    BY DEF recheck
  <1>2. course.sequence # client[c].expected
    <2>1. /\ client[c].cmd.op \in DOMAIN Steps
          /\ client[c].expected = course.sequence =>
                client[c].pc <= Len(Steps[client[c].cmd.op])
      BY <1>1 DEF RecordsInv, CallSound, ReadsAgree
    <2>2. PICK n \in 4 .. 6 : n = Len(Steps[client[c].cmd.op])
      BY <2>1, StepsOrder DEF Ordered
    <2>3. ~(n + 1 <= n)
      BY <2>2
    <2> QED
      BY <1>1, <2>1, <2>2, <2>3
  <1> QED
    BY <1>1, <1>2, Returned DEF ToldTruth, Agreed

\* The other steps of a call answer with a lost race, a refusal or nothing.
LEMMA OthersTell ==
  ASSUME RecordsInv, NEW c \in Clients,
         call(c) \/ _expect_sequence(c) \/ decide(c) \/ prepare(c) \/ crash(c)
  PROVE  ToldTruth(c) /\ Agreed(c)
  <1>1. CallSound(c) /\ DOMAIN client = Clients
    BY DEF RecordsInv
  <1>2. CASE call(c)
    BY <1>2, NoAnswer DEF call
  <1>3. CASE _expect_sequence(c)
    <2>1. \/ course.sequence # client[c].expected /\ Return(c, "retry")
          \/ Advance(c)
      BY <1>3 DEF _expect_sequence
    <2>2. CASE Advance(c)
      BY <1>1, <2>2, Onwards DEF Advance, CallSound
    <2> QED
      BY <2>1, <2>2, Returned DEF ToldTruth, Agreed
  <1>4. CASE decide(c)
    <2>1. \/ Return(c, "refused")
          \/ \E r : client' = [client EXCEPT ![c].pc = @ + 1, ![c].receipt = r]
      BY <1>4 DEF decide
    <2>2. CASE \E r : client' = [client EXCEPT ![c].pc = @ + 1, ![c].receipt = r]
      BY <1>1, <2>2, Onwards DEF CallSound
    <2> QED
      BY <2>1, <2>2, Returned DEF ToldTruth, Agreed
  <1>5. CASE prepare(c)
    <2>1. \/ Return(c, "refused") \/ Advance(c)
          \/ \E e : client' = [client EXCEPT ![c].pc = @ + 1, ![c].event = e]
      BY <1>5 DEF prepare
    <2>2. CASE \E e : client' = [client EXCEPT ![c].pc = @ + 1, ![c].event = e]
      BY <1>1, <2>2, Onwards DEF CallSound
    <2>3. CASE Advance(c)
      BY <1>1, <2>3, Onwards DEF Advance, CallSound
    <2> QED
      BY <2>1, <2>2, <2>3, Returned DEF ToldTruth, Agreed
  <1>6. CASE crash(c)
    BY <1>6, Returned DEF crash, ToldTruth, Agreed
  <1> QED
    BY <1>2, <1>3, <1>4, <1>5, <1>6

\* A step is a step of one process.
LEMMA OthersStay ==
  ASSUME RecordsInv, NEW c \in Clients, NEW d \in Clients \ {c},
         \/ call(c) \/ _existing(c) \/ _expect_sequence(c) \/ decide(c)
         \/ prepare(c) \/ _append(c) \/ recheck(c) \/ crash(c)
  PROVE  client'[d] = client[d]
  <1>1. \E that : client' = [client EXCEPT ![c] = that]
    <2>1. CASE call(c)
      BY <2>1 DEF call
    <2>2. CASE _existing(c)
      BY <2>2 DEF _existing, Advance, Return
    <2>3. CASE _expect_sequence(c)
      BY <2>3 DEF _expect_sequence, Advance, Return
    <2>4. CASE decide(c)
      BY <2>4 DEF decide, Return
    <2>5. CASE prepare(c)
      BY <2>5 DEF prepare, Advance, Return
    <2>6. CASE _append(c)
      BY <2>6, AppendCases DEF Return
    <2>7. CASE recheck(c) \/ crash(c)
      BY <2>7 DEF recheck, crash, Return
    <2> QED
      BY <2>1, <2>2, <2>3, <2>4, <2>5, <2>6, <2>7
  <1> QED
    BY <1>1 DEF RecordsInv

\* Every step answers truly.
LEMMA StepTells ==
  ASSUME NoneIsNoDigest, RecordsInv, [Next]_vars, NEW c \in Clients
  PROVE  ToldTruth(c) /\ Agreed(c)
  <1>1. CASE client' = client
    BY <1>1, NoAnswer
  <1>2. ASSUME NEW d \in Clients,
               \/ call(d) \/ _existing(d) \/ _expect_sequence(d) \/ decide(d)
               \/ prepare(d) \/ _append(d) \/ recheck(d) \/ crash(d)
        PROVE  ToldTruth(c) /\ Agreed(c)
    <2>1. CASE d = c
      BY <1>2, <2>1, ExistingTells, AppendTells, RecheckTells, OthersTell
    <2>2. CASE d # c
      BY <1>2, <2>2, OthersStay, NoAnswer
    <2> QED
      BY <2>1, <2>2
  <1> QED
    BY <1>1, <1>2 DEF Next, vars, publish

\* A caller is told "done" only of a record under its own command, "conflict"
\* only when another command owns the identity, and "retry" only when the
\* course has moved on.
THEOREM AnswersHold ==
  ASSUME NoneIsNoDigest
  PROVE  Spec => AnswersAreTrue
  <1>1. RecordsInv /\ [Next]_vars =>
           [\A c \in Clients :
              client[c].pc > 0 /\ client'[c].pc = 0 =>
                 /\ client'[c].out = "done" => IsMyRecord(course', client[c].cmd)
                 /\ client'[c].out = "conflict" => IsRecorded(course, client[c].cmd)
                 /\ client'[c].out = "retry" => course.sequence # client[c].expected]_vars
    BY StepTells DEF ToldTruth
  <1> QED
    BY <1>1, InvariantHolds, PTL DEF Spec, AnswersAreTrue

\* No step opens again what is closed.
LEMMA StepCloses ==
  ASSUME NoneIsNoDigest, RecordsInv, [Next]_vars
  PROVE  ClosedIn(course, course')
  <1>1. CASE course' = course
    BY <1>1 DEF ClosedIn
  <1>2. ASSUME NEW c \in Clients, _append(c), course' # course
        PROVE  ClosedIn(course, course')
    <2>1. /\ At(c, "append") /\ course.sequence = client[c].expected
          /\ Reducible(course, client[c].event) /\ course' = Reduce(course, client[c].event)
      BY <1>2, AppendCases
    <2>2. CourseSound(course) /\ Drafted(course, client[c].event)
      BY <2>1, AppendReads DEF RecordsInv, Made
    <2> QED
      BY <2>1, <2>2, ReduceKeepsClosed
  <1> QED
    BY <1>1, <1>2 DEF Next, vars, publish, call, _existing, _expect_sequence, decide, prepare,
       recheck, crash

\* What the services build from the course they append to is what the reducers
\* accept, and no append opens a decided revision, a superseded grade or a
\* closed statement.
THEOREM AppendsHold ==
  ASSUME NoneIsNoDigest
  PROVE  Spec => AppendsAreSound
  <1>1. RecordsInv /\ [Next]_vars =>
           [\A c \in Clients :
              client[c].pc > 0 /\ client'[c].out = "invalid" => ReducerOnly(client[c].cmd)]_vars
    BY StepTells DEF Agreed
  <1>2. RecordsInv /\ [Next]_vars =>
           [/\ \A r \in DOMAIN course.study_artifacts.revisions :
                  LET old == course.study_artifacts.revisions[r].status
                      new == course'.study_artifacts.revisions[r].status
                  IN old # "proposed" /\ new # old => old = "accepted" /\ new = "superseded"
            /\ \A g \in DOMAIN course.assessments.grades :
                  course.assessments.grades[g].lifecycle = "superseded" =>
                     course'.assessments.grades[g] = course.assessments.grades[g]
            /\ \A s \in DOMAIN course.study_context.statements :
                  course.study_context.statements[s].status # "active" =>
                     course'.study_context.statements[s] = course.study_context.statements[s]]_vars
    BY StepCloses DEF ClosedIn
  <1> QED
    BY <1>1, <1>2, InvariantHolds, PTL DEF Spec, AppendsAreSound, ReducersAgree, ClosedStaysClosed
=============================================================================
