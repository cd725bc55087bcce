----------------------------- MODULE Documents -----------------------------
(***************************************************************************)
(* Quotations and contracts of one user.  Every save goes through one      *)
(* handler: it reads the stored document, normalises the submitted one     *)
(* against it and the product catalogue, and writes in a transaction that  *)
(* compares revisions.  Editor tabs and the assistant's proposals hold a   *)
(* copy with the revision it was read at.  A document has one product      *)
(* line; the catalogue is the price of that product in each version.  The  *)
(* chats a write invalidates are in ChatTurn.                              *)
(***************************************************************************)
EXTENDS Integers, Sequences, FiniteSets

CONSTANTS
  Cards,       \* documents made from an assistant message, under its id
  Editors,     \* tabs and proposals
  Handlers,    \* saves being handled
  Prices,
  Builtins,    \* templates the program brings along
  MaxMinted,   \* bound: documents whose id the server makes
  MaxVersions, \* bound: versions of the product
  MaxEdits,    \* bound: edits ever submitted
  MaxFaults    \* bound: reads of the stored document that fail

DocumentsAssumption ==
  /\ Prices \subseteq Nat \ {0}
  /\ {MaxMinted, MaxEdits, MaxFaults} \subseteq Nat /\ MaxVersions \in Nat \ {0}
  /\ Cards \cap (0..MaxMinted + 1) = {}  \* the server mints no id of a message

VARIABLES
  catalogue,  \* the price of each version of the product, the last one current
  docs,       \* documents
  links,      \* ai_chat_document_links: cards saved once
  minted,     \* ids made by the server
  copies,     \* editor -> the document it shows
  saves,      \* handler -> the normalised save it is about to write
  edits,      \* edits submitted
  templates, seeds,  \* the built-in templates there are, the ones seeded
  faults

vars == <<catalogue, docs, links, minted, copies, saves, edits, templates, seeds, faults>>
still == <<templates, seeds>>

Ids == Cards \cup 1..MaxMinted
None == [revision |-> 0]
Idle == [id |-> 0]
Unset == 0
Lines == {[of |-> "nothing"], [of |-> "hand"]}
           \cup [of : {"catalogue"}, version : 1..MaxVersions, price : {Unset} \cup Prices]
Catalogued(line) == line.of = "catalogue"
NoSource == [id |-> 0, revision |-> 0]
Blank == [kind |-> "quotation", line |-> [of |-> "nothing"], source |-> NoSource, edits |-> {}]
Stored(id) == docs[id] # None
Kept(doc) == [kind |-> doc.kind, line |-> doc.line, source |-> doc.source, edits |-> doc.edits]

\* calculateDocumentAmounts: a total is derived from complete lines and never accepted;
\* a line written by hand has no price here.
Total(line) == IF Catalogued(line) THEN line.price ELSE Unset

Init ==
  /\ catalogue \in {<<p>> : p \in Prices}
  /\ docs = [id \in Ids |-> None] /\ links = {} /\ minted = 0
  /\ copies = [e \in Editors |-> Idle] /\ saves = [h \in Handlers |-> Idle]
  /\ edits = 0 /\ templates = {} /\ seeds = {} /\ faults = 0

TypeOK ==
  /\ catalogue \in Seq(Prices) /\ Len(catalogue) <= MaxVersions
  /\ \A id \in Ids : Stored(id) =>
       /\ docs[id].revision \in 1..MaxEdits /\ docs[id].kind \in {"quotation", "contract"}
       /\ docs[id].line \in Lines /\ docs[id].edits \subseteq 1..MaxEdits
       /\ id \in Cards => id \in links
  /\ links \subseteq Cards /\ minted \in 0..MaxMinted /\ edits \in 0..MaxEdits
  /\ templates \subseteq seeds /\ faults \in 0..MaxFaults

-----------------------------------------------------------------------------
(* The catalogue, and the copies people and proposals work on.             *)

\* SaveProduct: another version, at the same price or another one.
Reprice ==
  /\ Len(catalogue) < MaxVersions
  /\ \E p \in Prices : catalogue' = Append(catalogue, p)
  /\ UNCHANGED <<docs, links, minted, copies, saves, edits, still, faults>>

\* A tab shows a document, or a card or an empty page that is no document yet.
Open(e) ==
  /\ \/ \E id \in Ids : Stored(id) /\
          copies' = [copies EXCEPT ![e] = [id |-> id, revision |-> docs[id].revision, body |-> Kept(docs[id])]]
     \/ \E id \in Cards \cup {0} :
          copies' = [copies EXCEPT ![e] = [id |-> id, revision |-> 0, body |-> Blank]]
  /\ UNCHANGED <<catalogue, docs, links, minted, saves, edits, still, faults>>

\* applyQuotationSnapshot: the assistant writes a contract from a saved quotation.
Convert(e) ==
  /\ \E id \in Ids :
       /\ Stored(id) /\ docs[id].kind = "quotation" /\ docs[id].line.of # "nothing"
       /\ \E card \in Cards :
            copies' = [copies EXCEPT ![e] = [id |-> card, revision |-> 0,
              body |-> [kind |-> "contract", line |-> docs[id].line, edits |-> docs[id].edits,
                        source |-> [id |-> id, revision |-> docs[id].revision]]]]
  /\ UNCHANGED <<catalogue, docs, links, minted, saves, edits, still, faults>>

-----------------------------------------------------------------------------
(* Saving.                                                                 *)

\* The lines a catalogue line may keep without asking the catalogue again: those of the
\* stored document or, for a new one, of the quotation revision it names.
SourceOf(body) == IF body.source = NoSource THEN Blank ELSE docs[body.source.id]
SourceMatches(body) ==
  body.source # NoSource =>
    /\ Stored(body.source.id) /\ SourceOf(body).kind = "quotation"
    /\ SourceOf(body).revision = body.source.revision

Bound(trusted, line) == Catalogued(trusted) => line.of # "hand"

PricedAsSent(trusted, line) == {line}
\* finalizeDocumentAmounts: a catalogue line is the trusted one unchanged, or names the
\* product's current version and, if it names a price, that version's.
Priced(trusted, line) ==
  IF ~Catalogued(line) \/ line = trusted THEN {line}
  ELSE {[line EXCEPT !.price = catalogue[Len(catalogue)]] :
          ok \in {x \in {1} : line.version = Len(catalogue) /\ line.price \in {Unset, catalogue[Len(catalogue)]}}}

\* normalizeCommercialDocument: what is written for a body sent on top of previous,
\* or nothing when it is refused.
Normalized(previous, body) ==
  LET trusted == IF previous # None THEN previous ELSE SourceOf(body)
      source == IF previous # None THEN previous.source ELSE body.source IN
  IF (previous = None /\ ~SourceMatches(body)) \/ ~Bound(trusted.line, body.line) THEN {}
  ELSE {[body EXCEPT !.line = line, !.source = source] : line \in Priced(trusted.line, body.line)}

\* proposeCanvasDocumentUpdate: the document with another line, priced at once.
Proposed(doc, line) == {[Kept(doc) EXCEPT !.line = priced] : priced \in Priced(doc.line, line)}

\* What commands may make of a stored document: its line changed, added or removed.
Commanded(doc) == UNION {Proposed(doc, line) : line \in {l \in Lines : Bound(doc.line, l)}}

\* executeUpdateDocument: a proposal for the revision it read, which the user may apply.
Propose(e) ==
  /\ \E id \in Ids :
       /\ Stored(id)
       /\ \E body \in Commanded(docs[id]) :
            copies' = [copies EXCEPT ![e] = [id |-> id, revision |-> docs[id].revision, body |-> body]]
  /\ UNCHANGED <<catalogue, docs, links, minted, saves, edits, still, faults>>

\* HandleSaveDocument up to its transaction: an editor submits its copy with one more
\* edit, and possibly another product line.  A read that fails counts as no document.
Submit(h, e) ==
  /\ saves[h] = Idle /\ copies[e] # Idle /\ edits < MaxEdits
  /\ edits' = edits + 1
  /\ \E line \in {copies[e].body.line} \cup {l \in Lines : Catalogued(l) => l.version <= Len(catalogue)},
        failed \in BOOLEAN :
       LET c == copies[e]
           sent == [c.body EXCEPT !.line = line, !.edits = @ \cup {edits + 1}]
           previous == IF c.id = 0 \/ failed THEN None ELSE docs[c.id] IN
       /\ failed => faults < MaxFaults /\ c.id # 0
       /\ faults' = faults + (IF failed THEN 1 ELSE 0)
       /\ \E body \in Normalized(previous, sent) :
            saves' = [saves EXCEPT ![h] =
              [id |-> c.id, revision |-> c.revision, body |-> body, blind |-> failed, editor |-> e]]
  /\ UNCHANGED <<catalogue, docs, links, minted, copies, still>>

OriginAny(save) == TRUE
\* validateAIChatDocumentOrigin: a card that was saved once is only ever updated.
OriginFree(save) == save.id \in links => save.revision > 0

RevisionAny(save) == save.revision > 0 => Stored(save.id)
\* SaveDocument: revision 0 only creates, another one only replaces that revision.
RevisionMatches(save) ==
  IF save.revision = 0 THEN save.id # 0 => ~Stored(save.id)
  ELSE docs[save.id].revision = save.revision

LinkedNot(id) == links
\* The first save of a card inserts a link, which outlives the document.
Linked(id) == IF id \in Cards THEN links \cup {id} ELSE links

\* The transaction of SaveDocument, and the record its response gives the editor.
SaveDocument(h) ==
  LET save == saves[h]
      id == IF save.id = 0 THEN minted + 1 ELSE save.id
      doc == [kind |-> save.body.kind, line |-> save.body.line, source |-> save.body.source,
              edits |-> save.body.edits, total |-> Total(save.body.line),
              revision |-> IF save.revision = 0 THEN 1 ELSE docs[save.id].revision + 1] IN
  /\ save # Idle
  /\ saves' = [saves EXCEPT ![h] = Idle]
  /\ IF RevisionMatches(save) /\ OriginFree(save)
     THEN /\ id \in Ids
          /\ docs' = [docs EXCEPT ![id] = doc]
          /\ minted' = IF save.id = 0 THEN id ELSE minted
          /\ links' = Linked(id)
          /\ copies' = [copies EXCEPT ![save.editor] = [id |-> id, revision |-> doc.revision, body |-> Kept(doc)]]
     ELSE UNCHANGED <<docs, minted, links, copies>>
  /\ UNCHANGED <<catalogue, edits, still, faults>>

\* The document list deletes whatever is there, a proposal only the revision it was made for.
DeleteDocuments ==
  /\ \E ids \in SUBSET {id \in Ids : Stored(id)} \ {{}} :
       docs' = [id \in Ids |-> IF id \in ids THEN None ELSE docs[id]]
  /\ UNCHANGED <<catalogue, links, minted, copies, saves, edits, still, faults>>

DeleteDocumentRevision(e) ==
  /\ copies[e] # Idle /\ copies[e].revision > 0
  /\ docs[copies[e].id].revision = copies[e].revision
  /\ docs' = [docs EXCEPT ![copies[e].id] = None]
  /\ UNCHANGED <<catalogue, links, minted, copies, saves, edits, still, faults>>

-----------------------------------------------------------------------------
(* The built-in templates.                                                 *)

SeededAny == {}
Seeded == seeds

EnsureDefaultDocumentTemplates ==
  /\ Builtins \ Seeded # {}
  /\ templates' = templates \cup (Builtins \ Seeded) /\ seeds' = seeds \cup Builtins
  /\ UNCHANGED <<catalogue, docs, links, minted, copies, saves, edits, faults>>

\* A save puts the template where it is, or back where it was deleted.
SaveDocumentTemplate ==
  /\ \E t \in seeds \ templates : templates' = templates \cup {t}
  /\ UNCHANGED <<catalogue, docs, links, minted, copies, saves, edits, seeds, faults>>

DeleteDocumentTemplate ==
  /\ \E t \in templates : templates' = templates \ {t}
  /\ UNCHANGED <<catalogue, docs, links, minted, copies, saves, edits, seeds, faults>>

DocumentNext ==
  \/ Reprice \/ DeleteDocuments
  \/ \E e \in Editors : Open(e) \/ Convert(e) \/ Propose(e) \/ DeleteDocumentRevision(e)
  \/ \E h \in Handlers, e \in Editors : Submit(h, e)
  \/ \E h \in Handlers : SaveDocument(h)
TemplateNext == EnsureDefaultDocumentTemplates \/ SaveDocumentTemplate \/ DeleteDocumentTemplate

\* Documents and templates share no variable.
Next == DocumentNext \/ TemplateNext

Spec == Init /\ [][Next]_vars

-----------------------------------------------------------------------------
(* What a document promises.                                               *)

\* Every catalogue price in a document was the price of the product version it names,
\* however old, and the stored total follows from it: no client, proposal, stale copy or
\* failed read brings another one in (ai_agent_catalog.go:77-112).
PricesHaveSource ==
  \A id \in Ids : Stored(id) =>
    /\ Catalogued(docs[id].line) => docs[id].line.price = catalogue[docs[id].line.version]
    /\ docs[id].total = Total(docs[id].line)

\* "Saving uses that same revision so a concurrent edit cannot be overwritten"
\* (conversation-document-card.tsx:162-163): a write of a stored document has every edit
\* of the one it replaces, and its source stays the one it was made from unless the
\* write could not read it.
NoLostEdit ==
  \A id \in Ids : Stored(id) /\ Stored(id)' =>
    /\ docs[id].edits \subseteq docs'[id].edits
    /\ docs'[id].source = docs[id].source
         \/ \E h \in Handlers : saves[h] # Idle /\ saves[h].id = id /\ saves[h].blind

\* A card's document that was deleted is never saved again by the card, shown in any
\* tab; a built-in template that was deleted is never put back by reading the list
\* (documents.go:274-275).
DeletedStaysDeleted ==
  /\ \A id \in links : ~Stored(id) => ~Stored(id)'
  /\ EnsureDefaultDocumentTemplates => templates' \cap seeds = templates \cap seeds

=============================================================================
