--------------------------- MODULE SourceMaterials ---------------------------
(***************************************************************************)
(* Course materials as the event stream and the blob directory record      *)
(* them: revisions of a source, which one is current, productions of text  *)
(* substrates and successions between revisions.                           *)
(*                                                                         *)
(* A revision is the request that made it: its identity is a digest of the *)
(* original bytes, the source and the declared metadata.  A text is a      *)
(* model value; NormalOf gives the text after newline and NFC              *)
(* normalisation, None when the bytes are not UTF-8 or hold no content.    *)
(***************************************************************************)
EXTENDS Naturals, FiniteSets, SequencesExt

CONSTANTS None, Sources, Texts, Titles, NormalOf, Converters

ASSUME TextAssumption == \A t \in Texts : \/ NormalOf[t] = None
                                          \/ /\ NormalOf[t] \in Texts
                                             /\ NormalOf[NormalOf[t]] = NormalOf[t]

\* normalize_utf8 accepts the bytes and the document has content.
HasContent(t) == NormalOf[t] # None

Revisions == [source : Sources, text : {t \in Texts : HasContent(t)}, title : Titles]

\* Python's None is no revision.
ASSUME NoneAssumption == None \notin Revisions

Productions == [source : Sources, original : Texts, substrate : Texts, converter : Converters]

\* The events of the stream.
Events == [type : {"ingested", "selected"}, rev : Revisions]
          \union [type : {"produced"}, production : Productions]
          \union [type : {"superseded_by"}, predecessor : Revisions, successor : Revisions]
Ingested(rev)       == [type |-> "ingested", rev |-> rev]
Selected(rev)       == [type |-> "selected", rev |-> rev]
Produced(p)         == [type |-> "produced", production |-> p]
Succeeded(pred, succ) == [type |-> "superseded_by", predecessor |-> pred, successor |-> succ]

-----------------------------------------------------------------------------
(* The projection: sources, substrates, productions and successions.       *)

NoMaterials == [history |-> [s \in Sources |-> <<>>], current |-> [s \in Sources |-> None],
                substrates |-> {}, productions |-> {}, successions |-> <<>>]

Known(P, rev) == rev \in ToSet(P.history[rev.source])

reduce_source_revision(P, e) ==
    [P EXCEPT !.history[e.rev.source] = IF Known(P, e.rev) THEN @ ELSE Append(@, e.rev),
              !.current[e.rev.source] = e.rev,
              !.substrates = @ \union {NormalOf[e.rev.text]}]

reduce_source_revision_selected(P, e) == [P EXCEPT !.current[e.rev.source] = e.rev]

reduce_substrate_produced(P, e) ==
    [P EXCEPT !.substrates = @ \union {e.production.substrate},
              !.productions = @ \union {e.production}]

\* _index: the last edge of a predecessor; _edges keeps them in order.
_index(P) == [r \in {x.predecessor : x \in ToSet(P.successions)} |->
                 (CHOOSE x \in ToSet(P.successions) : x.predecessor = r).successor]

\* _reaches follows successors from start, stopping at a repeated revision: every
\* set with start that is closed under successors has the revisions it visits.
Closed(index, revs) == \A r \in revs \cap DOMAIN index : index[r] \in revs
_reaches(index, start, target) ==
    \A revs \in SUBSET Revisions : start \in revs /\ Closed(index, revs) => target \in revs

successor_of(P, rev) == IF rev \in DOMAIN _index(P) THEN _index(P)[rev] ELSE None

SuccessionReducible(P, e) ==
    /\ Known(P, e.predecessor) /\ Known(P, e.successor)
    /\ \/ successor_of(P, e.predecessor) = e.successor
       \/ /\ successor_of(P, e.predecessor) = None
          /\ ~_reaches(_index(P), e.successor, e.predecessor)

reduce_source_superseded_by(P, e) ==
    IF successor_of(P, e.predecessor) = e.successor THEN P
    ELSE [P EXCEPT !.successions = Append(@, [predecessor |-> e.predecessor,
                                              successor |-> e.successor])]

ReduceMaterial(P, e) ==
    CASE e.type = "ingested" -> reduce_source_revision(P, e)
      [] e.type = "selected" -> reduce_source_revision_selected(P, e)
      [] e.type = "produced" -> reduce_substrate_produced(P, e)
      [] e.type = "superseded_by" -> reduce_source_superseded_by(P, e)

\* The state after the whole stream, event by event.
Project(stream) ==
    LET after[n \in 0 .. Len(stream)] ==
            IF n = 0 THEN NoMaterials ELSE ReduceMaterial(after[n - 1], stream[n])
    IN after[Len(stream)]

-----------------------------------------------------------------------------
(* Decoding in the append transaction and at every replay: the decoders    *)
(* read the blobs back and derive normalisation, chunks and identities     *)
(* from them.                                                              *)

BlobsOf(e) ==
    CASE e.type = "ingested" -> {e.rev.text, NormalOf[e.rev.text]}
      [] e.type = "produced" -> {e.production.original, e.production.substrate}
      [] OTHER -> {}

\* FilesystemBlobStore: put links a complete temporary file under its digest,
\* an object already there is verified, so an object is whole or absent.
put(blobs, texts) == blobs \union texts

\* get verifies length and digest.
get(blobs, texts) == texts \subseteq blobs

decode_source_revision_event(blobs, e) == get(blobs, BlobsOf(e)) /\ HasContent(e.rev.text)

decode_substrate_produced_event(blobs, e) ==
    /\ get(blobs, BlobsOf(e))
    /\ NormalOf[e.production.substrate] = e.production.substrate

\* SourceSuccession has two different endpoints.
decode_source_superseded_by_event(e) == e.predecessor # e.successor

Decodable(blobs, e) ==
    CASE e.type = "ingested" -> decode_source_revision_event(blobs, e)
      [] e.type = "selected" -> TRUE
      [] e.type = "produced" -> decode_substrate_produced_event(blobs, e)
      [] e.type = "superseded_by" -> decode_source_superseded_by_event(e)

Reducible(P, e) ==
    CASE e.type = "ingested" -> TRUE
      [] e.type = "selected" -> Known(P, e.rev)
      [] e.type = "produced" -> TRUE
      [] e.type = "superseded_by" -> SuccessionReducible(P, e)

\* Every event can be decoded and reduced after the events before it.
Replayable(blobs, stream) ==
    \A i \in DOMAIN stream : /\ Decodable(blobs, stream[i])
                             /\ Reducible(Project(SubSeq(stream, 1, i - 1)), stream[i])

\* source_event_id_for names the course and the revision; the other event
\* identities hold the sequence number.
IdentityIsNew(stream, e) == e.type = "ingested" => e \notin ToSet(stream)
IdentitiesAreNew(stream) ==
    \A i \in DOMAIN stream : IdentityIsNew(SubSeq(stream, 1, i - 1), stream[i])

-----------------------------------------------------------------------------
(* Views of the stream that do not use the projection.                     *)

\* The revision of the last of these events.
Latest(stream, events) ==
    IF events = {} THEN None ELSE stream[CHOOSE i \in events : \A j \in events : j <= i].rev

About(stream, types, source) ==
    {i \in DOMAIN stream : stream[i].type \in types /\ stream[i].rev.source = source}

\* TextIngestionService._current_revision
_current_revision(stream, source) ==
    Latest(stream, About(stream, {"ingested", "selected"}, source))

_find_matching_revision(stream, rev) == Ingested(rev) \in ToSet(stream)

_find_production(stream, p) == Produced(p) \in ToSet(stream)

\* A second event of a known revision is passed over and does not select it.
FirstOfRevision(stream, i) == \A j \in 1 .. i - 1 : stream[j] # stream[i]
DecodedFrom(stream, types) ==
    [seen |-> {stream[i].rev : i \in {j \in DOMAIN stream : stream[j].type = "ingested"}},
     current |-> [s \in Sources |->
         Latest(stream, {i \in About(stream, types, s) :
                            stream[i].type = "ingested" => FirstOfRevision(stream, i)})]]

\* Fault: selections are not applied.
_decode_unselected(stream) == DecodedFrom(stream, {"ingested"})

\* CourseSourceContent._decode
_decode(stream) == DecodedFrom(stream, {"ingested", "selected"})

\* CourseSourceContent.documents(include_superseded=True): the chunks of a
\* revision are written and removed together, so a document stands for them.
documents(stream) ==
    LET d == _decode(stream)
    IN {[rev |-> r, is_current |-> d.current[r.source] = r] : r \in d.seen}

\* eligible_revision_ids and the lineage of a source, from the projection.
source_lineage(P, s) ==
    [i \in DOMAIN P.history[s] |->
        [rev |-> P.history[s][i], current |-> P.current[s] = P.history[s][i],
         successor |-> successor_of(P, P.history[s][i])]]

eligible_revision_ids(P, s) == {x.rev : x \in {y \in ToSet(source_lineage(P, s)) : y.current}}

\* Every predecessor has one successor, both endpoints are revisions of the
\* course, and the declared edges have no cycle: every set of revisions has one
\* whose successor, if any, is outside the set.
Forest(edges, revs) ==
    /\ \A x \in edges : x.predecessor \in revs /\ x.successor \in revs
    /\ \A x, y \in edges : x.predecessor = y.predecessor => x = y
    /\ \A cycle \in (SUBSET revs) \ {{}} : \E x \in cycle : \A y \in cycle :
           [predecessor |-> x, successor |-> y] \notin edges

ForestOf(P) == Forest(ToSet(P.successions), UNION {ToSet(P.history[s]) : s \in Sources})
=============================================================================
